---------------------------- MODULE DriversProofs ---------------------------
(***************************************************************************)
(* Proofs about the drivers for CCID, Kaan and cyberJack readers.          *)
(***************************************************************************)
EXTENDS Drivers, SequenceTheorems, TLAPS

-----------------------------------------------------------------------------
(* What holds with any of the drivers                                      *)

IccType ==
    [card : Cards, on : BOOLEAN, proto : {None, "T0", "T1", "I2C"}, fresh : BOOLEAN,
     speed : {"default", "ta1"}, mem : Seq(Nat)]

\* The card, and whose operations there are.
IccInv ==
    icc # None =>
        /\ icc \in IccType
        /\ icc.card.size > 0 => driver \in MemoryReaders

Serves(kind) ==
    /\ kind \in {"read", "write"} => driver \in MemoryReaders
    /\ kind = "verify" => driver \in KeyPads
    /\ kind = "status" => driver \in Activated

Atrs == Cards \cup {None, StatusWord}
Protos == {None, "T0", "T1", "I2C", "transparent"}
Statuses == {"absent", "present"}
SlotType == [atr : Atrs, proto : Protos, status : Statuses]

SlotInv ==
    /\ slot \in SlotType
    /\ slot.proto = "I2C" => driver \in MemoryReaders

OpInv ==
    /\ op = None => at = "idle" /\ cmd = None /\ reply = None
    /\ op # None => op \in Operations /\ at # "idle" /\ Serves(op.kind)
    /\ op # None /\ icc # None => op.kind # "open" /\ op.card = icc.card
    /\ told # None => told.op \in Operations /\ Serves(told.op.kind)
    /\ SlotInv
    /\ faults \in Nat /\ work \in Nat

\* The properties of the runs.
Promises ==
    /\ AnswersOwn
    /\ RunsOnce
    /\ ProtocolAgreed
    /\ ResetTrue
    /\ StatusTrue
    /\ MemoryKept

-----------------------------------------------------------------------------
(* cyberJack                                                               *)

CjStates ==
    /\ slot.proto \in {None, "T1"}
    /\ dd \in [active : BOOLEAN, spare : BOOLEAN]
    /\ rdr \in [waits : BOOLEAN, extends : Nat]
    /\ late = <<>>

\* Where the driver is tells the operation, and the command.
CjKinds ==
    op # None =>
        CASE at \in {"transact", "answered"} -> op.kind = "transact"
          [] at \in {"verify", "verified"} -> op.kind = "verify"
          [] at \in {"reset", "card_reset"} -> op.kind = "reset"
          [] at = "set_protocol" -> op.kind = "reset"
          [] at = "select" -> op.kind = "select"
          [] at \in {"poll", "polled"} -> op.kind \in {"poll", "status"}
          [] at \in {"open", "status", "synced", "ct_reset", "synced_again"} -> op.kind \in {"open", "status"}
          [] OTHER -> at = "crashed"

CjCommand ==
    CASE at \in {"synced", "synced_again"} -> Cj("resync", <<>>)
      [] at = "ct_reset" -> Cj("reset_ct", <<>>)
      [] at = "polled" -> Cj("status", <<>>)
      [] at = "card_reset" -> Cj("request_icc", <<>>)
      [] at = "answered" -> Cj("apdu", Bytes(op))
      [] OTHER -> Cj("verify", <<>>)

CjCalls == {"synced", "synced_again", "ct_reset", "polled", "card_reset", "answered", "verified"}

CjCommands == cmd # None => at \in CjCalls /\ cmd = CjCommand

\* What an answer says of the card.
CjSays(st, data) ==
    /\ at = "polled" =>
         /\ st = "9000"
         /\ data = <<"present">> => op.card # None
         /\ data # <<"present">> => icc = None
    /\ at = "card_reset" => data \in {<<>>, <<op.card>>}
    /\ at = "answered" =>
         /\ data \in {AnswerTo(op), Refusal(op)}
         /\ data = AnswerTo(op) => ran # <<>>
    /\ at = "verified" =>
         \E a \in PinAnswers("63Cx") : st = a.st /\ ran = IF a.run THEN <<a.pin>> ELSE <<>>

\* What is on the line: nothing, the command, the command and a block that asks
\* for time, the answer, or the answer is lost.
CjLine ==
    /\ cmd = None => link.sent = FALSE
    /\ link \in [sent : BOOLEAN, tries : Nat]
    /\ ~link.sent => ask = None /\ inbox = <<>> /\ ~rdr.waits
    /\ link.sent =>
         \/ ask = cmd /\ ~rdr.waits /\ inbox = <<>>
         \/ /\ ask = cmd /\ rdr.waits
            /\ \E t \in {"wtx", "key"} :
                 /\ inbox = <<[type |-> t]>>
                 /\ t = "key" => at = "verified"
         \/ /\ ask = None /\ ~rdr.waits /\ inbox # <<>>
            /\ inbox = <<Head(inbox)>>
            /\ Head(inbox).type = "answer"
            /\ Len(Head(inbox).data) \in Nat
            /\ CjSays(Head(inbox).st, Head(inbox).data)
         \/ ask = None /\ ~rdr.waits /\ inbox = <<>> /\ faults > 0

CjReply ==
    cmd = None /\ reply # None =>
        /\ reply = [rc |-> reply.rc, st |-> reply.st, data |-> reply.data]
        /\ reply.rc \in Int
        /\ OK => CjSays(reply.st, reply.data)
        /\ faults = 0 /\ at # "verified" => OK

\* The card has executed nothing until it has the command.
CjRan ==
    op # None =>
        /\ at \notin {"answered", "verified", "crashed"} => ran = <<>>
        /\ cmd # None /\ (~link.sent \/ ask # None) => ran = <<>>
        /\ op.kind = "transact" => ran \in {<<>>, <<Bytes(op)>>}

CjResetting ==
    /\ at \in {"card_reset", "set_protocol"} => dd.active /\ HasObject
    /\ at = "set_protocol" => slot.atr \in {op.card, StatusWord}

CjInv ==
    driver = "cyberjack" =>
        CjStates /\ CjKinds /\ CjCommands /\ CjLine /\ CjReply /\ CjRan /\ CjResetting

-----------------------------------------------------------------------------
(* Kaan                                                                    *)

KaanData ==
    [b1 : BOOLEAN, frozen : BOOLEAN, proto : {None, "T0", "T1", "I2C"},
     then : {None, "read_status", "read_proto"}, total : Nat,
     res : Seq(Nat) \cup {<<c>> : c \in Cards}]

KaanStates ==
    /\ slot.proto \in {None, "I2C", "transparent"}
    /\ dd \in KaanData
    /\ rdr \in [frozen : BOOLEAN, known : BOOLEAN, old : BOOLEAN, keypad : BOOLEAN]
    /\ late = <<>>

Selecting == {"select_mf", "select_df", "select_ef", "read_ef"}

KaanKinds ==
    op # None =>
        /\ op.kind # "status"
        /\ CASE at \in {"open", "resync", "reset_ct", "reset_ct_old", "units"} -> op.kind = "open"
             [] at \in {"poll", "frozen", "status"} -> op.kind = "poll"
             [] at \in Selecting ->
                  \/ op.kind = "poll" /\ dd.then = "read_status"
                  \/ op.kind = "reset" /\ dd.then = "read_proto"
             [] at \in {"reset", "card_reset", "set_protocol", "select_app"} -> op.kind = "reset"
             [] at = "select" -> op.kind = "select"
             [] at = "protocol_set" -> op.kind \in {"reset", "select"}
             [] at \in {"transact", "apdu", "get_response"} -> op.kind = "transact"
             [] at \in {"read", "reading"} -> op.kind = "read"
             [] at \in {"write", "written"} -> op.kind = "write"
             [] OTHER -> at \in {"verify", "verified"} /\ op.kind = "verify"

KaanName ==
    CASE at \in {"select_mf", "select_df", "select_ef", "select_app"} -> "select_file"
      [] at = "status" -> "read_status"
      [] at = "read_ef" -> dd.then
      [] at = "card_reset" -> "reset_icc"
      [] at = "protocol_set" -> "set_proto"
      [] at = "frozen" -> "freeze"
      [] at = "reading" -> "read"
      [] at = "written" -> "update"
      [] at = "verified" -> "verify"
      [] OTHER -> at

KaanCalls ==
    Selecting \cup {"resync", "reset_ct", "reset_ct_old", "units", "select_app", "status", "card_reset",
                    "protocol_set", "frozen", "apdu", "get_response", "reading", "written", "verified"}

KaanCommands ==
    cmd # None =>
        /\ at \in KaanCalls
        /\ cmd.name = KaanName
        /\ at = "frozen" => cmd.data = <<slot.status # "absent">>
        /\ at = "protocol_set" => cmd.data = <<Wanted>>
        /\ at = "apdu" => cmd.data = Bytes(op)
        /\ at = "reading" => cmd.addr = dd.total /\ cmd.data = <<Least(op.len, FileMax)>>
        /\ at = "written" =>
             cmd.addr = 0 /\ cmd.data = [i \in 1 .. Least(op.len, FileMax) |-> op.id]

\* The card has been reset, if it is there.
KaanFresh == icc # None => icc.on /\ icc.fresh /\ icc.proto = Head(icc.card.protos)

\* The chunk that is read next.
Chunk(mem) == SubSeq(mem, dd.total + 1, Least(Len(mem), dd.total + Least(op.len, FileMax)))

\* What an answer says.
KaanSays(st, data) ==
    /\ at = "frozen" => rdr.known = (slot.status # "absent")
    /\ at \in {"select_mf", "select_df", "select_ef", "select_app"} => st = "9000"
    /\ at = "status" \/ (at = "read_ef" /\ dd.then = "read_status") =>
         \/ data = <<"present">> /\ op.card # None
         \/ data = <<"absent">> /\ icc = None
    /\ at = "read_ef" /\ dd.then = "read_proto" =>
         \/ st = "9000" /\ data = <<"I2C">>
         \/ st # "9000" /\ icc = None
    /\ at = "card_reset" =>
         \/ st = "6200" /\ icc = None
         \/ /\ st = IF IsSync(op.card) THEN "9000" ELSE "9001"
            /\ data = <<op.card>> /\ op.card \in Cards /\ KaanFresh
    /\ at = "protocol_set" /\ op.kind = "reset" =>
         /\ st = "9000" /\ icc # None => icc.proto = Wanted
         /\ st = "6985" => icc = None
    /\ at = "apdu" =>
         \/ st = "61xx" /\ IsCase4 /\ ran # <<>>
         \/ st # "61xx" /\ data \in {AnswerTo(op), Refusal(op)} /\ (data = AnswerTo(op) => ran # <<>>)
    /\ at = "get_response" => data \in {AnswerTo(op), Refusal(op)}
    /\ at = "reading" =>
         /\ data \in Seq(Nat)
         /\ st \in {"9000", "6282", "6b00"} /\ icc # None => data = Chunk(icc.mem)
    /\ at = "written" /\ st = "9000" /\ icc # None =>
         \A i \in DOMAIN icc.mem \cap 1 .. Least(op.len, FileMax) : icc.mem[i] = op.id
    /\ at = "verified" =>
         \E a \in PinAnswers("6402") : st = a.st /\ ran = IF a.run THEN <<a.pin>> ELSE <<>>

KaanReply ==
    cmd = None /\ reply # None =>
        /\ reply.rc \in Int
        /\ OK => KaanSays(reply.st, reply.data)
        /\ faults = 0 => OK

KaanRan ==
    op # None =>
        /\ at \notin {"apdu", "get_response", "verified"} => ran = <<>>
        /\ cmd # None /\ at # "get_response" => ran = <<>>
        /\ at = "get_response" => ran # <<>>
        /\ op.kind = "transact" => ran \in {<<>>, <<Bytes(op)>>}

\* What the driver knows of the card in the course of a reset.
KaanResetting ==
    op # None /\ op.kind = "reset" =>
        /\ at # "select_app" => slot.proto = None
        /\ at \in Selecting =>
             dd.res = <<op.card>> /\ op.card \in Cards /\ IsSync(op.card) /\ KaanFresh
        /\ at \in {"set_protocol", "protocol_set", "select_app"} => slot.atr = op.card /\ op.card \in Cards
        /\ at = "set_protocol" \/ (at = "protocol_set" /\ cmd # None) => KaanFresh
        /\ at = "select_app" => dd.proto = "I2C" /\ (icc # None => icc.proto = "I2C")

\* A frozen terminal has been told the last status.
KaanWatch ==
    /\ dd.frozen => rdr.known = (slot.status # "absent")
    /\ at \in {"frozen", "status"} \/ (at \in Selecting /\ dd.then = "read_status") => ~dd.frozen

\* What has been read is what the card holds.
KaanMemory ==
    /\ dd.total \in Nat
    /\ op # None /\ op.kind = "read" =>
         /\ dd.res \in Seq(Nat)
         /\ icc # None => dd.total <= Len(icc.mem) /\ dd.res = SubSeq(icc.mem, 1, dd.total)
    /\ ~(op # None /\ op.kind = "read") => dd.total = 0 /\ (slot.proto = "I2C" => dd.res = <<>>)
    /\ op # None /\ op.kind = "read" => slot.proto = "I2C"

KaanInv ==
    driver = "kaan" =>
        /\ KaanStates /\ KaanKinds /\ KaanCommands /\ KaanReply /\ KaanRan
        /\ KaanResetting /\ KaanWatch /\ KaanMemory

-----------------------------------------------------------------------------
(* CCID                                                                    *)

CcidShape ==
    dd = [type |-> dd.type, flags |-> dd.flags, protos |-> dd.protos, volts |-> dd.volts,
          seen |-> dd.seen, proto |-> dd.proto, par |-> dd.par, ta1 |-> dd.ta1, sbuf |-> dd.sbuf]

CcidRdr ==
    [features : SUBSET STRING, protos : SUBSET {"T0", "T1"}, volts : SUBSET {"5V", "3V", "1.8V"},
     proto : {"T0", "T1"}, speed : {"default", "ta1"}]

CcidStates ==
    /\ slot.proto \in {None, "T0", "T1", "transparent"}
    /\ slot.atr \in Cards \cup {None}
    /\ CcidShape
    /\ dd.ta1 \in BOOLEAN
    /\ rdr \in CcidRdr

\* What the driver knows of its reader.
CcidOpened ==
    /\ dd.type = "apdu" => "apdu" \in rdr.features
    /\ "auto_atrparse" \in dd.flags <=> "atrparse" \in rdr.features
    /\ "no_setparam" \in dd.flags <=> "params" \in rdr.features
    /\ "no_pts" \in dd.flags <=> "params" \in rdr.features \/ "pps" \in rdr.features
    /\ dd.protos \subseteq {"T0", "T1"}
    /\ "auto" \in dd.volts <=> "voltage" \in rdr.features
    /\ \A v \in {"5V", "3V", "1.8V"} : v \in dd.volts <=> v \in rdr.volts

CcidKnows ==
    \/ op # None /\ op.kind = "open"
    \/ op = None /\ told # None /\ told.op.kind = "open" /\ ~told.ok
    \/ CcidOpened

CcidVoltages == {"5V", "3V", "1.8V"}
CcidPowers == CcidVoltages \cup {"poweron-auto"}
CcidStats == {"poll-status", "reset-status"}
CcidSelecting == {"getparams", "guard", "pts", "pts-sent", "setparams", "params-set"}

CcidKinds ==
    op # None =>
        \/ at = "open" /\ op.kind = "open"
        \/ at \in {"poll", "poll-status"} /\ op.kind = "poll"
        \/ /\ at \in {"reset", "reset-status", "poweron-manual", "set_protocol"} \cup CcidPowers
           /\ op.kind = "reset"
        \/ at = "select" /\ op.kind = "select"
        \/ at \in CcidSelecting /\ op.kind \in {"reset", "select"}
        \/ at \in {"transact", "recv", "xfr"} /\ op.kind = "transact"

CcidCalls == CcidPowers \cup CcidStats \cup {"getparams", "guard", "pts-sent", "params-set", "xfr"}

CcidSpeed == IF "auto_atrparse" \notin dd.flags /\ dd.ta1 THEN "ta1" ELSE dd.par

CcidCommand ==
    CASE at \in CcidStats -> Ccid("slotstat", <<>>)
      [] at = "poweron-auto" -> Ccid("poweron", <<"auto">>)
      [] at \in CcidVoltages -> Ccid("poweron", <<at>>)
      [] at = "getparams" -> Ccid("getparams", <<>>)
      [] at = "guard" -> Ccid("setparams", <<Wanted, dd.par>>)
      [] at = "pts-sent" -> Ccid("pts", <<[proto |-> Wanted, ta1 |-> dd.ta1]>>)
      [] at = "params-set" -> Ccid("setparams", <<Wanted, CcidSpeed>>)
      [] OTHER -> Ccid("xfrblock", Bytes(op))

CcidCommands == cmd # None => at \in CcidCalls /\ cmd = CcidCommand

\* The card that is in the reader has its power, and nothing but that.
Live == icc # None /\ icc.on
Unused == Live /\ icc.fresh

CcidFresh ==
    icc # None =>
        /\ Unused
        /\ ByItself => rdr.proto = Head(icc.card.protos)

CcidPowered0 ==
    Unused =>
        /\ icc.proto = Head(icc.card.protos) /\ icc.speed = "default"
        /\ rdr.speed = "default"

\* The selections that leave driver, reader and card with one protocol.
Decides ==
    \/ op.kind = "reset"
    \/ op.kind = "select" /\ op.proto = "T1" /\ "params" \notin rdr.features /\ dd.type # "apdu"

\* What an answer says.
CcidSays(data) ==
    /\ at \in CcidStats =>
         \/ data = <<"present">> /\ op.card # None
         \/ data = <<"absent">> /\ icc = None
    /\ at \in CcidPowers => data = <<op.card>> /\ op.card \in Cards /\ CcidFresh
    /\ at = "getparams" =>
         \E s \in {"default", "ta1"} : data = <<s>> /\ (Unused => s = "default")
    /\ at = "pts-sent" =>
         \E b \in BOOLEAN :
            /\ data = <<[proto |-> Wanted, ta1 |-> b]>>
            /\ b => dd.ta1
            /\ icc # None =>
                 /\ icc.on /\ ~icc.fresh /\ icc.proto = Wanted /\ dd.par = "default"
                 /\ icc.speed = IF b THEN "ta1" ELSE "default"
    /\ at = "params-set" /\ Live /\ Decides =>
         /\ rdr.proto = Wanted /\ icc.proto = Wanted
         /\ ByItself \/ rdr.speed = icc.speed
    /\ at = "xfr" => data = AnswerTo(op) /\ ran # <<>>

\* Why a reader that answers says no.
CcidRefuses ==
    /\ at \notin CcidStats
    /\ at = "poweron-auto" => icc = None \/ "voltage" \notin rdr.features
    /\ at \in CcidVoltages => icc = None \/ icc.card.volt # at

Refuses(st) == st \notin {"ok", "time"}

CcidMessage(m) ==
    /\ m.st = "ok" => m.type \in Expected(cmd.name) /\ Len(m.data) \in Nat /\ CcidSays(m.data)
    /\ Refuses(m.st) => CcidRefuses

\* The answers that are under way, in time or late; those with the number of the command
\* that the driver waits for are answers to that command.
Coming == ToSet(inbox) \cup ToSet(late)
Queue(q) == q \in Seq(ToSet(q))

CcidLine ==
    /\ link \in [seq : 0 .. 255, sent : 0 .. 255 \cup {None}]
    /\ Queue(inbox) /\ Queue(late)
    /\ cmd = None => link.sent = None
    /\ link.sent = None => ask = None
    /\ ask # None => ask = [seq |-> link.sent, body |-> cmd]
    /\ \A m \in Coming :
         /\ m.seq \in 0 .. 255
         /\ m.seq = link.sent => ask = None /\ CcidMessage(m)
    /\ faults = 0 =>
         /\ late = <<>>
         /\ link.sent # None /\ ask = None =>
              \E m \in ToSet(inbox) : m.seq = link.sent /\ m.st # "time"

CcidReply ==
    cmd = None /\ reply # None =>
        /\ reply.rc \in Int
        /\ OK => CcidSays(reply.data)
        /\ ~OK /\ at \in CcidPowers \cup CcidStats => CcidRefuses \/ faults # 0
        /\ ~OK /\ at \in CcidStats => reply.st # "mute"

CcidRan ==
    op # None =>
        /\ at # "xfr" => ran = <<>>
        /\ cmd # None /\ (link.sent = None \/ ask # None) => ran = <<>>
        /\ op.kind = "transact" => ran \in {<<>>, <<Bytes(op)>>}

\* The voltages that were tried are not the card's.
CcidTries ==
    /\ at \in {"poweron-manual"} \cup CcidVoltages => "voltage" \notin rdr.features
    /\ icc # None /\ faults = 0 =>
         /\ at \in {"3V", "1.8V"} /\ icc.card.volt = "5V" => "5V" \notin rdr.volts
         /\ at = "1.8V" /\ icc.card.volt = "3V" => "3V" \notin rdr.volts

\* How far the selection of a protocol has come.
CcidSelection ==
    /\ Live /\ slot.atr # None => slot.atr = icc.card
    /\ CcidPowered0
    /\ op # None /\ op.kind = "reset" => slot.proto = None /\ slot.atr \in {None, op.card}
    /\ at = "set_protocol" => CcidFresh
    /\ op # None /\ op.kind = "reset" /\ at \in CcidSelecting \cup {"set_protocol"} =>
         slot.atr = op.card /\ op.card \in Cards
    /\ at \in CcidSelecting =>
         /\ slot.atr # None /\ Wanted \in dd.protos /\ dd.type # "apdu"
         /\ "params" \in rdr.features => at \in {"pts", "setparams"}
         /\ "params" \notin rdr.features /\ at # "getparams" => dd.par \in {"default", "ta1"}
         /\ at \notin {"getparams"} /\ "params" \notin rdr.features /\ Unused => dd.par = "default"
    /\ at = "guard" => "pps" \notin rdr.features /\ "atrparse" \notin rdr.features
    /\ at = "pts-sent" => "pps" \notin rdr.features
    /\ at \in {"setparams", "params-set"} /\ Unused /\ dd.ta1 =>
         "pps" \in rdr.features \/ "params" \in rdr.features
    /\ op # None /\ op.kind = "reset" /\ at \in {"getparams", "guard", "pts"} => (icc # None => Unused)
    /\ op # None /\ op.kind = "reset" /\ Live /\ at \in CcidSelecting \ {"params-set"} =>
         ("params" \in rdr.features \/ "atrparse" \in rdr.features => rdr.proto = Head(icc.card.protos))
    /\ at = "params-set" => NeedsParams
    /\ at \in {"setparams", "params-set"} /\ Live /\ Decides =>
         /\ "pps" \notin rdr.features \/ (op.kind = "reset" /\ at = "setparams") => icc.proto = Wanted
         /\ "pps" \notin rdr.features /\ ~ByItself => icc.speed = CcidSpeed

CcidBuffer == at = "recv" => dd.sbuf = Bytes(op)

CcidInv ==
    driver = "ccid" =>
        /\ CcidStates /\ CcidKnows /\ CcidKinds /\ CcidCommands /\ CcidLine /\ CcidReply
        /\ CcidRan /\ CcidTries /\ CcidSelection /\ CcidBuffer

\* An answer is so late that its number has come round, and is the next command's.
Overdue == driver = "ccid" /\ \E m \in Coming : m.seq = link.seq

-----------------------------------------------------------------------------
(* Lemmas                                                                  *)

\* An answer is not a refusal.
LEMMA AnswerIsNoRefusal ==
    ASSUME NEW c, c.id \in Nat, c.le \in Nat
    PROVE  /\ Refusal(c) # AnswerTo(c)
           /\ Len(AnswerTo(c)) \in Nat
           /\ Len(Refusal(c)) \in Nat
<1> DEFINE n == c.le
           u == Units(c.id, n)
           t == <<<<c.id, 0>>>>
<1>1. u \in Seq(Nat \X Nat) /\ Len(u) = n
  BY SMT DEF Units
<1>2. t \in Seq(Nat \X Nat) /\ Len(t) = 1 /\ t[1] = <<c.id, 0>>
  BY SMT
<1> HIDE DEF u, t
<1>3. Len(u \o t) = n + 1 /\ (u \o t)[n + 1] = t[1]
  <2>1. /\ Len(u \o t) = Len(u) + Len(t)
        /\ \A i \in 1 .. Len(u) + Len(t) : (u \o t)[i] = IF i <= Len(u) THEN u[i] ELSE t[i - Len(u)]
    BY <1>1, <1>2, ConcatProperties, Zenon
  <2>2. \A i \in 1 .. n + 1 : (u \o t)[i] = IF i <= n THEN u[i] ELSE t[i - n]
    BY <1>1, <1>2, <2>1
  <2>3. (n + 1) \in 1 .. n + 1 /\ ~(n + 1 <= n) /\ n + 1 - n = 1
    BY SMT
  <2> QED
    BY <1>1, <1>2, <2>1, <2>2, <2>3
<1>4. Len(Refusal(c)) = 1 /\ Refusal(c)[1] = <<c.id, -1>>
  BY SMT DEF Refusal
<1>5. AnswerTo(c) = u \o t
  BY DEF AnswerTo, u, t
<1>6. <<c.id, 0>> # <<c.id, -1>>
  BY SMT
<1>7. Len(AnswerTo(c)) = n + 1 /\ AnswerTo(c)[n + 1] = <<c.id, 0>>
  BY <1>2, <1>3, <1>5
<1>8. n + 1 \in Nat
  OBVIOUS
<1>9. Len(AnswerTo(c)) \in Nat
  BY <1>7, <1>8
<1>10. Refusal(c) # AnswerTo(c)
  <2>1. SUFFICES ASSUME Refusal(c) = AnswerTo(c) PROVE FALSE
    OBVIOUS
  <2>2. n + 1 = 1
    BY <1>4, <1>7, <2>1, Zenon
  <2>3. <<c.id, -1>> = <<c.id, 0>>
    BY <1>4, <1>7, <2>1, <2>2, Zenon
  <2> QED
    BY <1>6, <2>3
<1>11. Len(Refusal(c)) \in Nat
  BY <1>4
<1> QED
  BY <1>9, <1>10, <1>11

-----------------------------------------------------------------------------
(* The steps of the user, the handler and the line                         *)

LEMMA CommonInit ==
    Init => OpInv /\ IccInv
<1> SUFFICES ASSUME Init PROVE OpInv /\ IccInv
  OBVIOUS
<1>1. /\ icc = None /\ op = [kind |-> "open"] /\ at = "open" /\ told = None
      /\ faults = 0 /\ work = 0 /\ slot = [atr |-> None, proto |-> None, status |-> "absent"]
  BY DEF Init, DriverInit
<1>2. op \in Operations
  BY <1>1, SMT DEF Operations
<1>3. op # None
  BY <1>2, DriverAssumption, Zenon
<1>4. slot.proto # "I2C"
  BY <1>1, DriverAssumption
<1>5. op.kind = "open"
  BY <1>1
<1> QED
  BY <1>1, <1>2, <1>3, <1>4, <1>5, SMT DEF OpInv, IccInv, Serves, SlotInv, SlotType, Atrs, Protos, Statuses

\* An operation begins.
LEMMA HandlerStarts ==
    ASSUME OpInv, IccInv, HandlerAsks
    PROVE  /\ op = None /\ op' \in Operations /\ op' # None /\ at' = op'.kind
           /\ op'.card = Here /\ Serves(op'.kind) /\ op'.kind # "open"
           /\ Lives
           /\ ran' = <<>> /\ work' = work + 1
           /\ UNCHANGED <<driver, icc, event, dd, told, linkvars, cmd, reply, faults>>
           /\ slot' = IF op'.kind = "reset" THEN [slot EXCEPT !.atr = None, !.proto = None] ELSE slot
           /\ op'.kind = "transact" => slot.proto # None
           /\ op'.kind \in {"read", "write"} => slot.proto = "I2C"
<1>1. Here \in Cards \cup {None}
  BY SMT DEF Here, IccInv, IccType
<1> DEFINE Start(o) ==
             /\ op = None /\ op' = o /\ at' = o.kind /\ Lives
             /\ ran' = <<>> /\ work' = work + 1
             /\ UNCHANGED <<driver, icc, event, dd, told, linkvars, cmd, reply, faults>>
<1>2. \A o : Starts(o) /\ Works => Start(o)
  BY DEF Starts, Works
<1> HIDE DEF Start
<1>3. ASSUME AskReset
      PROVE  /\ slot' = [slot EXCEPT !.atr = None, !.proto = None]
             /\ \E o \in Operations : o.kind = "reset" /\ o.card = Here /\ Start(o)
  <2>1. PICK w \in BOOLEAN : Starts([kind |-> "reset", wait |-> w, card |-> Here])
    BY <1>3 DEF AskReset
  <2>2. [kind |-> "reset", wait |-> w, card |-> Here] \in Operations
    BY <1>1, SMT DEF Operations
  <2> QED
    BY <1>2, <1>3, <2>1, <2>2 DEF AskReset
<1>4. ASSUME AskSelect
      PROVE  /\ slot' = slot
             /\ \E o \in Operations : o.kind = "select" /\ o.card = Here /\ Start(o)
  <2>1. PICK p \in {"T0", "T1"} : Starts([kind |-> "select", proto |-> p, card |-> Here])
    BY <1>4 DEF AskSelect
  <2>2. [kind |-> "select", proto |-> p, card |-> Here] \in Operations
    BY <1>1, SMT DEF Operations
  <2> QED
    BY <1>2, <1>4, <2>1, <2>2 DEF AskSelect
<1>5. ASSUME AskTransact
      PROVE  /\ slot' = slot /\ slot.proto # None
             /\ \E o \in Operations : o.kind = "transact" /\ o.card = Here /\ Start(o)
  <2>1. PICK s \in Shapes :
          Starts([kind |-> "transact", id |-> work, lc |-> s.lc, le |-> s.le, card |-> Here])
    BY <1>5 DEF AskTransact
  <2>2. s.lc \in Nat /\ s.le \in Nat /\ work \in Nat
    BY DriverAssumption, SMT DEF OpInv
  <2>3. [kind |-> "transact", id |-> work, lc |-> s.lc, le |-> s.le, card |-> Here] \in Operations
    BY <1>1, <2>2, SMT DEF Operations
  <2> QED
    BY <1>2, <1>5, <2>1, <2>3 DEF AskTransact
<1>6. ASSUME Poll
      PROVE  /\ slot' = slot
             /\ \E o \in Operations :
                  /\ o.kind \in {"poll", "status"} /\ Serves(o.kind) /\ o.card = Here /\ Start(o)
  <2>1. PICK k \in {"poll", "status"} :
          (k = "status" => driver \in Activated) /\ Starts([kind |-> k, card |-> Here])
    BY <1>6 DEF Poll
  <2>2. [kind |-> k, card |-> Here] \in Operations /\ Serves(k)
    BY <1>1, <2>1, SMT DEF Operations, Serves
  <2> QED
    BY <1>2, <1>6, <2>1, <2>2 DEF Poll
<1>7. ASSUME AskMemory
      PROVE  /\ slot' = slot /\ slot.proto = "I2C"
             /\ \E o \in Operations :
                  /\ o.kind \in {"read", "write"} /\ Serves(o.kind) /\ o.card = Here /\ Start(o)
  <2>0. driver \in MemoryReaders
    BY <1>7 DEF AskMemory, OpInv, SlotInv, SlotType, Atrs, Protos, Statuses
  <2>1. PICK k \in {"read", "write"}, n \in Lengths :
          Starts([kind |-> k, id |-> work, len |-> n, card |-> Here])
    BY <1>7 DEF AskMemory
  <2>2. n \in Nat /\ work \in Nat
    BY DriverAssumption, SMT DEF OpInv
  <2>3. [kind |-> k, id |-> work, len |-> n, card |-> Here] \in Operations
    BY <1>1, <2>2, SMT DEF Operations
  <2>4. Serves(k)
    BY <2>0, SMT DEF Serves
  <2> QED
    BY <1>2, <1>7, <2>1, <2>3, <2>4 DEF AskMemory
<1>8. ASSUME AskVerify
      PROVE  /\ slot' = slot
             /\ \E o \in Operations :
                  o.kind = "verify" /\ Serves(o.kind) /\ o.card = Here /\ Start(o)
  <2>1. PICK full \in BOOLEAN :
          Starts([kind |-> "verify", id |-> work, full |-> full, card |-> Here])
    BY <1>8 DEF AskVerify
  <2>2. work \in Nat
    BY DEF OpInv
  <2>3. [kind |-> "verify", id |-> work, full |-> full, card |-> Here] \in Operations
    BY <1>1, <2>2, SMT DEF Operations
  <2>4. Serves("verify")
    BY <1>8, SMT DEF AskVerify, Serves
  <2> QED
    BY <1>2, <1>8, <2>1, <2>3, <2>4 DEF AskVerify
<1>9. \A o \in Operations : o # None
  BY DriverAssumption, Zenon
<1> QED
  BY <1>3, <1>4, <1>5, <1>6, <1>7, <1>8, <1>9 DEF HandlerAsks, Serves, Start

\* What the user, the handler and the line leave true.
LEMMA CommonOutside ==
    ASSUME OpInv, IccInv, Insert \/ Draw \/ LateArrives \/ HandlerAsks
    PROVE  OpInv' /\ IccInv'
<1>1. CASE Insert
  <2>1. PICK c \in Cards :
          /\ c.size > 0 => driver \in MemoryReaders
          /\ icc' = [card |-> c, on |-> FALSE, proto |-> None, fresh |-> FALSE,
                     speed |-> "default", mem |-> [i \in 1 .. c.size |-> 0]]
    BY <1>1 DEF Insert
  <2>2. c.size \in Nat
    BY DriverAssumption
  <2>3. [i \in 1 .. c.size |-> 0] \in Seq(Nat)
    BY <2>2, SMT
  <2>4. icc' \in IccType /\ icc'.card = c
    BY <2>1, <2>3 DEF IccType
  <2>5. /\ op = None /\ work' = work + 1
        /\ UNCHANGED <<driver, slot, op, at, told, cmd, reply, faults>>
    BY <1>1 DEF Insert, opvars, Works
  <2> QED
    BY <2>1, <2>4, <2>5 DEF OpInv, IccInv, Serves, SlotInv, SlotType, Atrs, Protos, Statuses
<1>2. CASE Draw
  BY <1>2 DEF Draw, opvars, Works, OpInv, IccInv, Serves, SlotInv, SlotType, Atrs, Protos, Statuses
<1>3. CASE LateArrives
  BY <1>3 DEF LateArrives, opvars, OpInv, IccInv, Serves, SlotInv, SlotType, Atrs, Protos, Statuses
<1>4. CASE HandlerAsks
  <2>1. icc # None => op'.card = icc.card
    BY <1>4, HandlerStarts DEF Here
  <2>2. SlotInv'
    BY <1>4, HandlerStarts, DriverAssumption DEF OpInv, SlotInv, SlotType, Atrs, Protos, Statuses
  <2> QED
    BY <1>4, <2>1, <2>2, HandlerStarts DEF OpInv, IccInv, Serves, Operations
<1> QED
  BY <1>1, <1>2, <1>3, <1>4

LEMMA PromisesOutside ==
    ASSUME OpInv, IccInv, Promises, Insert \/ Draw \/ LateArrives \/ HandlerAsks
    PROVE  Promises'
<1> USE DEF Promises
<1>1. CASE Insert
  <2>1. /\ op = None
        /\ icc' # None => icc'.on = FALSE
        /\ UNCHANGED <<driver, slot, dd, op, told, ran, link, rdr, faults>>
    BY <1>1 DEF Insert, opvars, linkvars
  <2>2. AnswersOwn'
    BY <2>1 DEF AnswersOwn, Told, CutShort
  <2>3. RunsOnce'
    BY <2>1 DEF RunsOnce
  <2>4. ProtocolAgreed'
    BY <2>1 DEF ProtocolAgreed
  <2>5. ResetTrue'
    BY <2>1 DEF ResetTrue, Unready, MistakesSW
  <2>6. StatusTrue'
    BY <2>1 DEF StatusTrue, Told, Unwatched
  <2>7. MemoryKept'
    BY <2>1 DEF MemoryKept
  <2> QED
    BY <2>2, <2>3, <2>4, <2>5, <2>6, <2>7
<1>2. CASE Draw
  <2>1. icc' = None /\ UNCHANGED <<driver, slot, dd, op, told, ran, link, rdr, faults>>
    BY <1>2 DEF Draw, opvars, linkvars
  <2>2. AnswersOwn'
    BY <2>1 DEF AnswersOwn, Told, CutShort
  <2>3. RunsOnce'
    BY <2>1 DEF RunsOnce, Fragmented, OutOfStep
  <2>4. ProtocolAgreed'
    BY <2>1 DEF ProtocolAgreed
  <2>5. ResetTrue'
    BY <2>1 DEF ResetTrue, Unready, MistakesSW
  <2>6. StatusTrue'
    BY <2>1 DEF StatusTrue, Told, Unwatched
  <2>7. MemoryKept'
    BY <2>1 DEF MemoryKept
  <2> QED
    BY <2>2, <2>3, <2>4, <2>5, <2>6, <2>7
<1>3. CASE LateArrives
  <2>1. UNCHANGED <<driver, icc, slot, dd, op, told, ran, link, rdr, faults>>
    BY <1>3 DEF LateArrives, opvars
  <2>2. AnswersOwn'
    BY <2>1 DEF AnswersOwn, Told, CutShort
  <2>3. RunsOnce'
    BY <2>1 DEF RunsOnce, Fragmented, OutOfStep
  <2>4. ProtocolAgreed'
    BY <2>1 DEF ProtocolAgreed, Told, Agreed, CcidAgrees, Renegotiates, ByItself
  <2>5. ResetTrue'
    BY <2>1 DEF ResetTrue, Unready, MistakesSW
  <2>6. StatusTrue'
    BY <2>1 DEF StatusTrue, Told, Unwatched
  <2>7. MemoryKept'
    BY <2>1 DEF MemoryKept, Told
  <2> QED
    BY <2>2, <2>3, <2>4, <2>5, <2>6, <2>7
<1>4. CASE HandlerAsks
  <2>1. op' # None /\ ran' = <<>>
    BY <1>4, HandlerStarts
  <2>2. RunsOnce'
    BY <2>1 DEF RunsOnce
  <2> QED
    BY <2>1, <2>2 DEF AnswersOwn, ProtocolAgreed, ResetTrue, StatusTrue, MemoryKept, Told
<1> QED
  BY <1>1, <1>2, <1>3, <1>4

\* While an operation goes on nothing is told; what remains is what the card executes.
LEMMA PromisesUnderWay ==
    ASSUME op' # None, RunsOnce'
    PROVE  Promises'
BY DEF Promises, AnswersOwn, ProtocolAgreed, ResetTrue, StatusTrue, MemoryKept, Told

\* The driver's function returns.
Ends ==
    /\ op' = None /\ at' = "idle" /\ cmd' = None /\ reply' = None
    /\ told' = [op |-> op, ok |-> told'.ok, data |-> told'.data, in |-> icc # None]

LEMMA ReturnsEnds ==
    ASSUME NEW ok, NEW data, Returns(ok, data)
    PROVE  Ends /\ told'.ok = ok /\ told'.data = data /\ op' = None
BY DEF Returns, Ends

\* What a slot becomes.
LEMMA SlotGetsAtr ==
    ASSUME slot \in SlotType, NEW a \in Atrs, slot' = [slot EXCEPT !.atr = a]
    PROVE  slot' \in SlotType /\ slot'.atr = a /\ slot'.proto = slot.proto /\ slot'.status = slot.status
BY DEF SlotType

LEMMA SlotGetsProto ==
    ASSUME slot \in SlotType, NEW p \in Protos, slot' = [slot EXCEPT !.proto = p]
    PROVE  slot' \in SlotType /\ slot'.atr = slot.atr /\ slot'.proto = p /\ slot'.status = slot.status
BY DEF SlotType

LEMMA SlotGetsStatus ==
    ASSUME slot \in SlotType, NEW st \in Statuses, NEW a \in Atrs,
           slot' = [slot EXCEPT !.status = st, !.atr = a]
    PROVE  slot' \in SlotType /\ slot'.atr = a /\ slot'.proto = slot.proto /\ slot'.status = st
BY DEF SlotType

LEMMA StatusBecomes ==
    ASSUME SlotInv, NEW st \in Statuses, NEW changed \in BOOLEAN, HasStatus(st, changed)
    PROVE  /\ slot' \in SlotType /\ slot'.proto = slot.proto /\ slot'.status = st
           /\ slot'.atr = IF changed THEN None ELSE slot.atr
           /\ Ends /\ op' = None /\ told'.ok = TRUE
<1> DEFINE a == IF changed THEN None ELSE slot.atr
<1>1. a \in Atrs
  BY DEF SlotInv, SlotType, Atrs
<1>2. slot' = [slot EXCEPT !.status = st, !.atr = a] /\ Returns(TRUE, <<>>)
  BY DEF HasStatus
<1>3. slot \in SlotType
  BY DEF SlotInv
<1> HIDE DEF a
<1>4. slot' \in SlotType /\ slot'.proto = slot.proto /\ slot'.status = st /\ slot'.atr = a
  BY <1>1, <1>2, <1>3, SlotGetsStatus
<1>5. Ends /\ op' = None /\ told'.ok = TRUE
  BY <1>2, ReturnsEnds
<1> QED
  BY <1>4, <1>5 DEF a

LEMMA AtrBecomes ==
    ASSUME SlotInv, NEW c \in Atrs, HasAtr(c)
    PROVE  /\ slot' \in SlotType /\ slot'.proto = slot.proto /\ slot'.status = slot.status
           /\ slot'.atr = c /\ at' = "set_protocol"
           /\ UNCHANGED <<op, told, cmd, reply>>
<1>1. slot \in SlotType /\ slot' = [slot EXCEPT !.atr = c]
  BY DEF SlotInv, HasAtr
<1> QED
  BY <1>1, SlotGetsAtr DEF HasAtr, Goes, Stays

LEMMA ExecutesOne ==
    ASSUME ran = <<>>, NEW c, Executes(c)
    PROVE  ran' = <<c>>
BY SMT DEF Executes, MaxRan

LEMMA PinOutcomes ==
    ASSUME NEW st, NEW a \in PinAnswers(st)
    PROVE  \/ a.st = "9000" /\ a.run /\ a.pin = Pin("right")
           \/ a.st = st /\ a.run /\ a.pin = Pin("wrong")
           \/ a.st \in {"6400", "6401"} /\ ~a.run
<1>1. PICK s, o : /\ a = PinAnswer(s, o)
                  /\ \/ s = "9000" /\ o = "right"
                     \/ s = st /\ o = "wrong"
                     \/ s = "6401" /\ o = "cancel"
                     \/ s = "6400" /\ o = "timeout"
  BY DEF PinAnswers
<1>2. a.st = s /\ a.run = (o \in {"right", "wrong"}) /\ a.pin = Pin(o)
  BY <1>1 DEF PinAnswer
<1>3. o = "right" \/ o = "wrong" => a.run
  BY <1>2, Zenon
<1>4. o = "cancel" \/ o = "timeout" => ~a.run
  <2>1. o = "cancel" \/ o = "timeout" => ~(o \in {"right", "wrong"})
    OBVIOUS
  <2> QED
    BY <1>2, <2>1, Zenon
<1> QED
  BY <1>1, <1>2, <1>3, <1>4

\* A card that has executed nothing, or the command, has not executed it twice.
LEMMA RanOnce ==
    ASSUME op' # None => (op'.kind = "transact" => ran' \in {<<>>, <<Bytes(op')>>})
    PROVE  RunsOnce'
<1>1. \A c : Len(<<>>) = 0 /\ DOMAIN <<>> = {} /\ Len(<<c>>) = 1 /\ DOMAIN <<c>> = {1} /\ <<c>>[1] = c
  BY SMT
<1>2. ASSUME op' # None, op'.kind = "transact"
      PROVE  (\A i \in DOMAIN ran' : ran'[i] = Bytes(op')) /\ Len(ran') <= 1
  <2>1. CASE ran' = <<>>
    BY <2>1, <1>1
  <2>2. CASE ran' = <<Bytes(op')>>
    BY <2>2, <1>1
  <2> QED
    BY <1>2, <2>1, <2>2
<1> QED
  BY <1>2 DEF RunsOnce

\* What the steps of drivers and readers leave true.
LEMMA CommonStays ==
    ASSUME OpInv, IccInv, op # None, Stays, at' # "idle",
           UNCHANGED <<driver, icc, faults, work>>, SlotInv'
    PROVE  OpInv' /\ IccInv'
BY DEF OpInv, IccInv, Stays, Serves

LEMMA CommonEnds ==
    ASSUME OpInv, IccInv, op # None, Ends, UNCHANGED <<driver, icc, faults, work>>, SlotInv'
    PROVE  OpInv' /\ IccInv'
BY DEF OpInv, IccInv, Ends, Serves

LEMMA CommonReader ==
    ASSUME OpInv, IccInv, op # None, UNCHANGED <<driver, opvars, work>>, faults' \in Nat,
           icc' # None => icc # None /\ icc' \in IccType /\ icc'.card = icc.card
    PROVE  OpInv' /\ IccInv'
BY DEF OpInv, IccInv, Serves, opvars, SlotInv, SlotType, Atrs, Protos, Statuses

-----------------------------------------------------------------------------
(* cyberJack                                                               *)

\* The driver's data.
LEMMA CjObjects ==
    ASSUME CjStates
    PROVE  /\ [active |-> TRUE, spare |-> TRUE] \in [active : BOOLEAN, spare : BOOLEAN]
           /\ [dd EXCEPT !.spare = TRUE] \in [active : BOOLEAN, spare : BOOLEAN]
           /\ [dd EXCEPT !.spare = TRUE].spare = TRUE
<1>1. TRUE \in BOOLEAN
  OBVIOUS
<1>2. \A a, b \in BOOLEAN : [active |-> a, spare |-> b] \in [active : BOOLEAN, spare : BOOLEAN]
  BY Zenon
<1>3. \A b \in BOOLEAN :
        /\ [dd EXCEPT !.spare = b] \in [active : BOOLEAN, spare : BOOLEAN]
        /\ [dd EXCEPT !.spare = b].spare = b
  BY SMT DEF CjStates
<1> QED
  BY <1>1, <1>2, <1>3, Zenon

LEMMA CjPolledTells ==
    ASSUME OpInv, driver = "cyberjack", CjInv, CjPolled
    PROVE  /\ Ends
           /\ dd' \in [active : BOOLEAN, spare : BOOLEAN]
           /\ slot' \in SlotType /\ slot'.proto \in {None, "T1"}
           /\ told'.ok =>
                \/ slot'.status = "present" /\ op.card # None
                \/ slot'.status = "absent" /\ icc = None
<1>1. at = "polled" /\ cmd = None /\ reply # None
  BY DEF CjPolled, At
<1>2. SlotInv /\ slot \in SlotType /\ slot.proto \in {None, "T1"} /\ dd \in [active : BOOLEAN, spare : BOOLEAN]
  BY DEF OpInv, SlotInv, CjInv, CjStates
<1>3. CASE ~OK
  <2>1. Fails /\ slot' = slot /\ dd' = dd
    BY <1>3 DEF CjPolled, Fails, Returns, HasStatus, CjGood, OK
  <2>2. Ends /\ told'.ok = FALSE
    BY <2>1, ReturnsEnds DEF Fails
  <2> QED
    BY <1>2, <2>1, <2>2
<1>4. CASE OK
  <2>1. CjSays(reply.st, reply.data)
    BY <1>1, <1>4 DEF CjInv, CjReply
  <2>2. CASE reply.data = <<"present">>
    <3>1. HasStatus("present", FALSE) /\ dd' = dd
      BY <1>1, <1>4, <2>1, <2>2 DEF CjPolled, CjGood, CjSays
    <3>2. slot' \in SlotType /\ slot'.proto = slot.proto /\ slot'.status = "present" /\ Ends
      BY <1>2, <3>1, StatusBecomes DEF Statuses
    <3>3. op.card # None
      BY <1>1, <2>1, <2>2, Zenon DEF CjSays
    <3> QED
      BY <1>2, <3>1, <3>2, <3>3
  <2>3. CASE reply.data # <<"present">> /\ slot.proto = None
    <3>1. HasStatus("absent", FALSE) /\ dd' = dd
      BY <1>1, <1>4, <2>3 DEF CjPolled
    <3>2. slot' \in SlotType /\ slot'.proto = slot.proto /\ slot'.status = "absent" /\ Ends
      BY <1>2, <3>1, StatusBecomes DEF Statuses
    <3> QED
      BY <1>1, <1>2, <2>1, <2>3, <3>1, <3>2 DEF CjSays
  <2>4. CASE reply.data # <<"present">> /\ slot.proto # None
    <3>1. /\ dd' = [dd EXCEPT !.spare = TRUE]
          /\ slot' = [atr |-> None, proto |-> None, status |-> "absent"]
          /\ Ends
      BY <1>1, <1>4, <2>4, ReturnsEnds DEF CjPolled
    <3>2. slot' \in SlotType /\ slot'.proto = None /\ slot'.status = "absent"
      BY <3>1 DEF SlotType, Atrs, Protos, Statuses
    <3> QED
      BY <1>1, <2>1, <2>4, <3>1, <3>2, CjObjects DEF CjSays, CjInv
  <2> QED
    BY <2>2, <2>3, <2>4
<1> QED
  BY <1>3, <1>4

LEMMA CjDriverQuiet ==
    ASSUME OpInv, driver = "cyberjack", CjInv, CjDriver
    PROVE  /\ op # None /\ cmd = None /\ ~link.sent /\ CjLine'
           /\ UNCHANGED <<driver, icc, ran, link, ask, inbox, late, rdr, faults, work>>
<1>1. op # None
  BY DEF OpInv, CjDriver, At, CjActivates, CjSynced, CjReset, CjActivated, CjPolls, CjPolled, CjResets, CjHasReset, CjSelects, CjTransact, CjTransacted, CjVerifies, CjVerified
<1>2. cmd = None
  BY DEF CjInv, CjCommands, CjCalls, CjDriver, At, CjActivates, CjSynced, CjReset, CjActivated, CjPolls, CjPolled, CjResets, CjHasReset, CjSelects, CjTransact, CjTransacted, CjVerifies, CjVerified
<1>3. UNCHANGED <<driver, icc, ran, link, ask, inbox, late, rdr, faults, work>>
  BY DEF CjDriver, linkvars
<1> QED
  BY <1>1, <1>2, <1>3 DEF CjInv, CjLine

LEMMA CjDriverStep ==
    ASSUME OpInv, IccInv, driver = "cyberjack", CjInv, CjDriver
    PROVE  CjStates' /\ CjKinds' /\ CjCommands' /\ CjReply' /\ CjRan' /\ CjResetting'
<1> USE CjDriverQuiet, DriverAssumption DEF At, Call, Returns, Fails, Stays, Goes, Crashes, HasStatus, HasAtr, SelectFails
<1>1. CASE CjActivates
  BY <1>1 DEF CjActivates, CjInv, CjStates, CjKinds, CjCommands, CjCommand, CjCalls, CjReply, CjRan, CjResetting,
     CjSays, HasObject, OK, OpInv, SlotInv, SlotType, Atrs, Protos, Statuses
<1>2. CASE CjSynced
  BY <1>2 DEF CjSynced, CjInv, CjStates, CjKinds, CjCommands, CjCommand, CjCalls, CjReply, CjRan, CjResetting,
     CjSays, HasObject, OK, OpInv, SlotInv, SlotType, Atrs, Protos, Statuses
<1>3. CASE CjReset
  BY <1>3 DEF CjReset, CjInv, CjStates, CjKinds, CjCommands, CjCommand, CjCalls, CjReply, CjRan, CjResetting,
     CjSays, HasObject, OK, OpInv, SlotInv, SlotType, Atrs, Protos, Statuses
<1>4. CASE CjActivated
  <2>1. CASE ~OK
    BY <1>4, <2>1 DEF CjActivated, CjInv, CjStates, CjKinds, CjCommands, CjCommand, CjCalls, CjReply, CjRan, CjResetting,
     CjSays, HasObject, OK, OpInv, SlotInv, SlotType, Atrs, Protos, Statuses
  <2>2. CASE OK /\ op.kind = "open"
    BY <1>4, <2>2, CjObjects DEF CjActivated, CjInv, CjStates, CjKinds, CjCommands, CjCommand, CjCalls, CjReply, CjRan, CjResetting,
     CjSays, HasObject, OK, OpInv, SlotInv, SlotType, Atrs, Protos, Statuses
  <2>3. CASE OK /\ op.kind # "open"
    BY <1>4, <2>3, CjObjects DEF CjActivated, CjInv, CjStates, CjKinds, CjCommands, CjCommand, CjCalls, CjReply, CjRan, CjResetting,
     CjSays, HasObject, OK, OpInv, SlotInv, SlotType, Atrs, Protos, Statuses
  <2> QED
    BY <2>1, <2>2, <2>3
<1>5. CASE CjPolls
  BY <1>5 DEF CjPolls, CjInv, CjStates, CjKinds, CjCommands, CjCommand, CjCalls, CjReply, CjRan, CjResetting,
     CjSays, HasObject, OK, OpInv, SlotInv, SlotType, Atrs, Protos, Statuses
<1>6. CASE CjPolled
  <2>1. CjStates'
    BY <1>6, CjPolledTells DEF CjInv, CjStates
  <2> QED
    BY <1>6, <2>1, CjPolledTells DEF Ends, CjKinds, CjCommands, CjReply, CjRan, CjResetting
<1>7. CASE CjResets
  BY <1>7 DEF CjResets, CjInv, CjStates, CjKinds, CjCommands, CjCommand, CjCalls, CjReply, CjRan, CjResetting,
     CjSays, HasObject, OK, OpInv, SlotInv, SlotType, Atrs, Protos, Statuses
<1>8. CASE CjHasReset
  BY <1>8 DEF CjHasReset, CjInv, CjStates, CjKinds, CjCommands, CjCommand, CjCalls, CjReply, CjRan, CjResetting,
     CjSays, HasObject, OK, OpInv, SlotInv, SlotType, Atrs, Protos, Statuses
<1>9. CASE CjSelects
  BY <1>9 DEF CjSelects, CjInv, CjStates, CjKinds, CjCommands, CjCommand, CjCalls, CjReply, CjRan, CjResetting,
     CjSays, HasObject, OK, OpInv, SlotInv, SlotType, Atrs, Protos, Statuses
<1>10. CASE CjTransact
  BY <1>10 DEF CjTransact, CjInv, CjStates, CjKinds, CjCommands, CjCommand, CjCalls, CjReply, CjRan, CjResetting,
     CjSays, HasObject, OK, OpInv, SlotInv, SlotType, Atrs, Protos, Statuses
<1>11. CASE CjTransacted
  BY <1>11 DEF CjTransacted, CjInv, CjStates, CjKinds, CjCommands, CjCommand, CjCalls, CjReply, CjRan, CjResetting,
     CjSays, HasObject, OK, OpInv, SlotInv, SlotType, Atrs, Protos, Statuses
<1>12. CASE CjVerifies
  BY <1>12 DEF CjVerifies, CjInv, CjStates, CjKinds, CjCommands, CjCommand, CjCalls, CjReply, CjRan, CjResetting,
     CjSays, HasObject, OK, OpInv, SlotInv, SlotType, Atrs, Protos, Statuses
<1>13. CASE CjVerified
  BY <1>13 DEF CjVerified, CjInv, CjStates, CjKinds, CjCommands, CjCommand, CjCalls, CjReply, CjRan, CjResetting,
     CjSays, HasObject, OK, OpInv, SlotInv, SlotType, Atrs, Protos, Statuses
<1> QED
  BY <1>1, <1>2, <1>3, <1>4, <1>5, <1>6, <1>7, <1>8, <1>9, <1>10, <1>11, <1>12, <1>13 DEF CjDriver

LEMMA CjDriverCommon ==
    ASSUME OpInv, IccInv, driver = "cyberjack", CjInv, CjDriver
    PROVE  /\ OpInv' /\ IccInv'
           /\ op' = None => Ends
<1> USE CjDriverQuiet, DriverAssumption DEF At, Call, Returns, Fails, Stays, Goes, Crashes, HasStatus, HasAtr, SelectFails
<1>1. SlotInv' /\ (Ends \/ (Stays /\ at' # "idle"))
  <2>1. CASE CjActivates
    BY <2>1 DEF CjActivates, Ends, SlotInv, SlotType, Atrs, Protos, Statuses, OpInv
  <2>2. CASE CjSynced
    BY <2>2 DEF CjSynced, Ends, SlotInv, SlotType, Atrs, Protos, Statuses, OpInv
  <2>3. CASE CjReset
    BY <2>3 DEF CjReset, Ends, SlotInv, SlotType, Atrs, Protos, Statuses, OpInv
  <2>4. CASE CjActivated
    BY <2>4 DEF CjActivated, Ends, SlotInv, SlotType, Atrs, Protos, Statuses, OpInv
  <2>5. CASE CjPolls
    BY <2>5 DEF CjPolls, Ends, SlotInv, SlotType, Atrs, Protos, Statuses, OpInv
  <2>6. CASE CjPolled
    BY <2>6, CjPolledTells, DriverAssumption DEF SlotInv
  <2>7. CASE CjResets
    BY <2>7 DEF CjResets, Ends, SlotInv, SlotType, Atrs, Protos, Statuses, OpInv
  <2>8. CASE CjHasReset
    <3>1. CASE ~OK
      BY <2>8, <3>1 DEF CjHasReset, Ends, SlotInv, OpInv
    <3>2. CASE OK
      <4>1. reply.data \in {<<>>, <<op.card>>}
        BY <2>8, <3>2 DEF CjHasReset, CjInv, CjReply, CjSays
      <4>2. op.card \in Cards \cup {None}
        BY <2>8 DEF CjHasReset, CjInv, CjKinds, OpInv, Operations
      <4>3. \E c \in Atrs : HasAtr(c)
        <5>1. CASE reply.data = <<>>
          BY <2>8, <3>2, <5>1 DEF CjHasReset, Atrs
        <5>2. CASE reply.data = <<op.card>>
          BY <2>8, <3>2, <5>2, <4>2 DEF CjHasReset, Atrs
        <5> QED
          BY <4>1, <5>1, <5>2
      <4> QED
        BY <4>3, AtrBecomes DEF SlotInv, OpInv
    <3> QED
      BY <3>1, <3>2
  <2>9. CASE CjSelects
    BY <2>9 DEF CjSelects, Ends, SlotInv, SlotType, Atrs, Protos, Statuses, OpInv
  <2>10. CASE CjTransact
    BY <2>10 DEF CjTransact, Ends, SlotInv, SlotType, Atrs, Protos, Statuses, OpInv
  <2>11. CASE CjTransacted
    BY <2>11 DEF CjTransacted, Ends, SlotInv, SlotType, Atrs, Protos, Statuses, OpInv
  <2>12. CASE CjVerifies
    BY <2>12 DEF CjVerifies, Ends, SlotInv, SlotType, Atrs, Protos, Statuses, OpInv
  <2>13. CASE CjVerified
    BY <2>13 DEF CjVerified, Ends, SlotInv, SlotType, Atrs, Protos, Statuses, OpInv
  <2> QED
    BY <2>1, <2>2, <2>3, <2>4, <2>5, <2>6, <2>7, <2>8, <2>9, <2>10, <2>11, <2>12, <2>13 DEF CjDriver
<1>2. OpInv' /\ IccInv'
  BY <1>1, CommonEnds, CommonStays
<1>3. op' = None => Ends
  BY <1>1
<1> QED
  BY <1>2, <1>3

LEMMA CjDriverPromises ==
    ASSUME OpInv, IccInv, driver = "cyberjack", CjInv, CjDriver
    PROVE  Promises'
<1> DEFINE Calls == CjActivates \/ CjSynced \/ CjReset \/ CjActivated \/ CjPolls \/ CjPolled \/ CjResets \/ CjHasReset \/ CjSelects \/ CjTransact \/ CjTransacted \/ CjVerifies \/ CjVerified
<1>1. op # None /\ driver' = driver
  BY CjDriverQuiet
<1>2. RunsOnce'
  BY <1>1, CjDriverStep, RanOnce DEF CjRan
<1>3. CASE op' # None
  BY <1>2, <1>3, PromisesUnderWay
<1>4. CASE op' = None
  <2>1. Ends /\ told'.op = op /\ told'.in = (icc # None) /\ icc' = icc
    BY <1>4, CjDriverCommon, CjDriverQuiet DEF Ends
  <2>2. op.kind \notin {"read", "write"}
    BY <1>1 DEF OpInv, Serves, MemoryReaders
  <2>3. MemoryKept'
    BY <2>1, <2>2 DEF MemoryKept, Told
  <2>4. ProtocolAgreed'
    BY <1>1 DEF ProtocolAgreed, Agreed
  <2>5. AnswersOwn'
    <3>1. ASSUME op.kind = "transact", told'.ok
          PROVE  told'.data \in {AnswerTo(op), Refusal(op)} /\ (told'.data = AnswerTo(op) => ran' # <<>>)
      <4>1. at \in {"transact", "answered", "crashed"}
        BY <1>1, <3>1 DEF CjInv, CjKinds
      <4>2. CjTransacted
        BY <4>1, <1>4, <1>1 DEF CjDriver, At, Call, Stays, Crashes, CjActivates, CjSynced, CjReset, CjActivated, CjPolls, CjPolled, CjResets, CjHasReset, CjSelects, CjTransact, CjTransacted, CjVerifies, CjVerified
      <4>3. at = "answered" /\ reply # None /\ cmd = None /\ OK /\ told'.data = reply.data
        BY <3>1, <4>2 DEF CjTransacted, At, Returns, Fails
      <4> QED
        BY <4>3, CjDriverQuiet DEF CjInv, CjReply, CjSays
    <3>2. ASSUME op.kind = "verify"
          PROVE  /\ told'.data = <<"9000">> => ran' = <<Pin("right")>>
                 /\ told'.data = <<"wrong">> => ran' = <<Pin("wrong")>>
                 /\ told'.data \in {<<"cancel">>, <<"timeout">>} => ran' = <<>>
      <4>1. at \in {"verify", "verified", "crashed"}
        BY <1>1, <3>2 DEF CjInv, CjKinds
      <4>2. CjVerifies \/ CjVerified
        BY <4>1, <1>4, <1>1 DEF CjDriver, At, CjActivates, CjSynced, CjReset, CjActivated, CjPolls, CjPolled, CjResets, CjHasReset, CjSelects, CjTransact, CjTransacted, CjVerifies, CjVerified
      <4>3. CASE CjVerifies
        BY <4>3, <1>4, <1>1 DEF CjVerifies, Fails, Returns, Stays
      <4>4. CASE CjVerified
        <5>1. CASE ~OK
          BY <4>4, <5>1 DEF CjVerified, Fails, Returns
        <5>2. CASE OK
          <6>1. PICK a \in PinAnswers("63Cx") : reply.st = a.st /\ ran = IF a.run THEN <<a.pin>> ELSE <<>>
            BY <4>4, <5>2, CjDriverQuiet DEF CjVerified, At, CjInv, CjReply, CjSays
          <6>3. \/ reply.st = "9000" /\ ran = <<Pin("right")>>
                \/ reply.st = "63Cx" /\ ran = <<Pin("wrong")>>
                \/ reply.st \in {"6400", "6401"} /\ ran = <<>>
            BY <6>1, PinOutcomes
          <6>2. /\ reply.st = "6400" => told'.data = <<"timeout">>
                /\ reply.st = "6401" => told'.data = <<"cancel">>
                /\ reply.st = "63Cx" => told'.data = <<"wrong">>
                /\ reply.st = "9000" => told'.data = <<"9000">>
            BY <4>4, <5>2 DEF CjVerified, Returns
          <6> QED
            BY <6>2, <6>3, CjDriverQuiet
        <5> QED
          BY <5>1, <5>2
      <4> QED
        BY <4>2, <4>3, <4>4
    <3> QED
      BY <2>1, <3>1, <3>2 DEF AnswersOwn, Told, Pin
  <2>6. ResetTrue'
    <3>1. ASSUME op.kind = "reset"
          PROVE  /\ told'.ok => slot'.atr \in {op.card, StatusWord}
                 /\ ~told'.ok /\ faults = 0 => ~dd'.spare
      <4>1. at \in {"reset", "card_reset", "set_protocol", "crashed"}
        BY <1>1, <3>1 DEF CjInv, CjKinds
      <4>2. CjResets \/ CjHasReset \/ CjSelects
        BY <4>1, <1>4, <1>1 DEF CjDriver, At, CjActivates, CjSynced, CjReset, CjActivated, CjPolls, CjPolled, CjResets, CjHasReset, CjSelects, CjTransact, CjTransacted, CjVerifies, CjVerified
      <4>3. CASE CjResets
        BY <1>4, <1>1, <4>3 DEF CjResets, Fails, Returns, Call, Stays, Crashes, HasObject, CjInv, CjStates
      <4>4. CASE CjHasReset
        BY <1>4, <1>1, <4>4 DEF CjHasReset, Fails, Returns, HasAtr, Stays, At, CjInv, CjReply
      <4>5. CASE CjSelects
        BY <1>4, <1>1, <3>1, <4>5 DEF CjSelects, SelectFails, Returns, Stays, Crashes, CjInv, CjKinds, CjResetting, OpInv, SlotInv, SlotType, Atrs, Protos, Statuses
      <4> QED
        BY <4>2, <4>3, <4>4, <4>5
    <3> QED
      BY <1>1, <2>1, <3>1, CjDriverQuiet DEF ResetTrue, Unready, MistakesSW
  <2>7. StatusTrue'
    <3>1. ASSUME op.kind \in {"poll", "status"}, told'.ok
          PROVE  \/ slot'.status = "present" /\ op.card # None
                 \/ slot'.status = "absent" /\ icc = None
      <4>1. at \in {"poll", "polled", "open", "status", "synced", "ct_reset", "synced_again", "crashed"}
        BY <1>1, <3>1 DEF CjInv, CjKinds
      <4>2. CjSynced \/ CjReset \/ CjActivated \/ CjPolls \/ CjPolled
        BY <4>1, <1>4, <1>1 DEF CjDriver, At, Call, Stays, Crashes, CjActivates, CjSynced, CjReset, CjActivated, CjPolls, CjPolled, CjResets, CjHasReset, CjSelects, CjTransact, CjTransacted, CjVerifies, CjVerified
      <4>3. CjPolled
        BY <4>2, <3>1, <1>1, <1>4 DEF CjSynced, CjReset, CjActivated, CjPolls, Call, Stays, Goes, Fails, Returns
      <4> QED
        BY <3>1, <4>3, CjPolledTells
    <3> QED
      BY <2>1, <3>1 DEF StatusTrue, Told
  <2> QED
    BY <1>2, <2>3, <2>4, <2>5, <2>6, <2>7 DEF Promises
<1> QED
  BY <1>3, <1>4

LEMMA CjCommandNames ==
    ASSUME cmd # None, CjCommands
    PROVE  /\ cmd.name = "verify" <=> at = "verified"
           /\ cmd.name = "apdu" <=> at = "answered"
           /\ cmd.name = "request_icc" <=> at = "card_reset"
           /\ cmd.name = "status" <=> at = "polled"
           /\ at = "answered" => cmd.data = Bytes(op)
<1>1. \A n, d : Cj(n, d).name = n /\ Cj(n, d).data = d
  BY DEF Cj
<1> QED
  BY <1>1 DEF CjCommands, CjCommand, CjCalls

\* The driver has the answer, or the reason that there is none.
LEMMA CjGivenUp ==
    ASSUME NEW rc, NEW st, NEW data, CjGives(rc, st, data), inbox' = <<>>,
           driver = "cyberjack", CjInv, op # None, UNCHANGED <<opvars, ran, late>>,
           rc \in Int, rc >= 0 => CjSays(st, data)', faults' = 0 /\ at # "verified" => rc >= 0
    PROVE  CjStates' /\ CjCommands' /\ CjLine' /\ CjReply' /\ CjRan'
<1>1. /\ cmd' = None /\ reply' = [rc |-> rc, st |-> st, data |-> data]
      /\ link' = [sent |-> FALSE, tries |-> 0] /\ ask' = None /\ inbox' = <<>>
      /\ rdr' = [waits |-> FALSE, extends |-> 0]
  BY DEF CjGives
<1>2. UNCHANGED <<slot, dd, op, at, ran, late>>
  BY DEF opvars
<1>3. [sent |-> FALSE, tries |-> 0] \in [sent : BOOLEAN, tries : Nat] /\ ~[sent |-> FALSE, tries |-> 0].sent
  BY SMT
<1>4. [waits |-> FALSE, extends |-> 0] \in [waits : BOOLEAN, extends : Nat] /\ ~[waits |-> FALSE, extends |-> 0].waits
  BY SMT
<1>5. CjStates'
  BY <1>1, <1>2, <1>4 DEF CjInv, CjStates
<1>6. CjCommands'
  BY <1>1 DEF CjCommands
<1>7. CjLine'
  BY <1>1, <1>3, <1>4, Zenon DEF CjLine
<1>8. CjReply'
  BY <1>1, <1>2 DEF CjReply, OK
<1>9. CjRan'
  BY <1>1, <1>2 DEF CjInv, CjRan
<1> QED
  BY <1>5, <1>6, <1>7, <1>8, <1>9

LEMMA CjHostStep ==
    ASSUME OpInv, driver = "cyberjack", CjInv, CjHost
    PROVE  /\ op # None /\ faults' \in Nat
           /\ UNCHANGED <<driver, icc, opvars, ran, late, work>>
           /\ CjStates' /\ CjKinds' /\ CjCommands' /\ CjLine' /\ CjReply' /\ CjRan' /\ CjResetting'
<1>1. UNCHANGED <<driver, icc, opvars, slot, dd, op, at, told, ran, late, work>>
  BY DEF CjHost, opvars
<1>2. cmd # None /\ op # None
  BY DEF CjHost, CjSends, CjReceives, CjTimeout, CjInv, CjLine, OpInv
<1>3. CjKinds' /\ CjResetting'
  BY <1>1 DEF CjInv, CjKinds, CjResetting, HasObject
<1>4. ASSUME NEW st, NEW data PROVE CjSays(st, data)' <=> CjSays(st, data)
  <2>1. PinAnswers("63Cx")' = PinAnswers("63Cx")
    BY <1>1, Zenon DEF PinAnswers, PinAnswer, Pin
  <2> QED
    BY <1>1, <2>1 DEF CjSays
<1>5. link \in [sent : BOOLEAN, tries : Nat]
  BY DEF CjInv, CjLine
<1>6. CASE CjSends
  <2>1. UNCHANGED <<cmd, reply, inbox, rdr, faults>> /\ ask' = cmd /\ link' = [sent |-> TRUE, tries |-> MaxTries]
        /\ ~link.sent
    BY <1>6 DEF CjSends
  <2>2. CjCommands' /\ CjStates'
    BY <1>1, <2>1 DEF CjInv, CjCommands, CjCommand, CjStates
  <2>3. link' \in [sent : BOOLEAN, tries : Nat] /\ link'.sent
    BY <2>1, CjAssumption
  <2>4. CjLine'
    BY <1>2, <2>1, <2>3 DEF CjInv, CjLine
  <2>5. CjReply' /\ CjRan'
    BY <1>1, <1>2, <2>1 DEF CjInv, CjReply, CjRan
  <2> QED
    BY <1>1, <1>2, <1>3, <2>1, <2>2, <2>4, <2>5 DEF OpInv
<1>7. CASE CjReceives
  <2>1. inbox # <<>> /\ link.sent /\ inbox' = Tail(inbox) /\ faults' = faults
    BY <1>7 DEF CjReceives
  <2>2. CASE ask = cmd /\ rdr.waits /\ \E t \in {"wtx", "key"} : inbox = <<[type |-> t]>> /\ (t = "key" => at = "verified")
    <3>1. PICK t \in {"wtx", "key"} : inbox = <<[type |-> t]>> /\ (t = "key" => at = "verified")
      BY <2>2
    <3>2. Head(inbox).type = t /\ Interim(Head(inbox)) /\ inbox' = <<>>
      BY <2>1, <3>1 DEF Interim
    <3>3. CASE link.tries > 1 \/ t = "wtx"
      <4>1. rdr' = [rdr EXCEPT !.waits = FALSE] /\ UNCHANGED <<cmd, reply, ask>>
            /\ link' = [link EXCEPT !.tries = IF link.tries > 1 THEN link.tries - 1 ELSE MaxTries]
        BY <1>7, <3>2, <3>3 DEF CjReceives
      <4>2. link' \in [sent : BOOLEAN, tries : Nat] /\ link'.sent
        BY <1>5, <2>1, <4>1, CjAssumption
      <4>3. rdr' \in [waits : BOOLEAN, extends : Nat] /\ ~rdr'.waits
        BY <4>1 DEF CjInv, CjStates
      <4>4. CjStates' /\ CjCommands' /\ CjReply'
        BY <1>1, <1>2, <2>1, <4>1, <4>3 DEF CjInv, CjStates, CjCommands, CjCommand, CjReply
      <4>5. CjLine'
        BY <1>2, <2>2, <3>2, <4>1, <4>2, <4>3 DEF CjLine
      <4>6. CjRan'
        BY <1>1, <1>2, <2>1, <2>2, <4>1, <4>2 DEF CjInv, CjRan
      <4> QED
        BY <1>1, <1>2, <1>3, <2>1, <4>4, <4>5, <4>6 DEF OpInv
    <3>4. CASE ~(link.tries > 1) /\ t = "key"
      <4>1. CjGives(-1, "protocol", <<>>)
        BY <1>7, <3>2, <3>4 DEF CjReceives
      <4> QED
        BY <1>1, <1>2, <1>3, <2>1, <3>1, <3>2, <3>4, <4>1, CjGivenUp DEF OpInv
    <3> QED
      BY <3>3, <3>4
  <2>3. CASE /\ inbox = <<Head(inbox)>> /\ Head(inbox).type = "answer" /\ Len(Head(inbox).data) \in Nat
             /\ CjSays(Head(inbox).st, Head(inbox).data)
    <3>1. PICK m : m = Head(inbox)
      OBVIOUS
    <3>2. inbox = <<m>> /\ m.type = "answer" /\ Len(m.data) \in Nat /\ CjSays(m.st, m.data)
      BY <2>3, <3>1
    <3>3. ~Interim(m)
      BY <3>2 DEF Interim
    <3>4. CjGives(Len(m.data), m.st, m.data)
      BY <1>7, <3>1, <3>3 DEF CjReceives
    <3>5. inbox' = <<>>
      BY <2>1, <3>2
    <3>6. CjSays(m.st, m.data)'
      BY <1>4, <3>2
    <3>7. CjStates' /\ CjCommands' /\ CjLine' /\ CjReply' /\ CjRan'
      BY <1>1, <1>2, <3>2, <3>4, <3>5, <3>6, CjGivenUp
    <3> QED
      BY <1>1, <1>2, <1>3, <2>1, <3>7 DEF OpInv
  <2> QED
    BY <2>1, <2>2, <2>3 DEF CjInv, CjLine
<1>8. CASE CjTimeout
  <2>1. inbox' = <<>> /\ CjGives(-1, "timeout", <<>>) /\ link.sent
    BY <1>8 DEF CjTimeout
  <2>2. faults' \in Nat /\ (faults' > 0 \/ at = "verified")
    BY <1>2, <1>8, CjCommandNames DEF CjTimeout, Fault, Silent, CjInv, CjLine, OpInv
  <2> QED
    BY <1>1, <1>2, <1>3, <2>1, <2>2, CjGivenUp
<1> QED
  BY <1>6, <1>7, <1>8 DEF CjHost

\* The terminal has the command, and nothing is on its way.
LEMMA CjAsked ==
    ASSUME OpInv, CjInv, driver = "cyberjack", ask # None, ~rdr.waits
    PROVE  /\ cmd # None /\ op # None /\ ask = cmd /\ link.sent
           /\ inbox = <<>> /\ ran = <<>> /\ CjCommands
BY DEF OpInv, CjInv, CjLine, CjRan

LEMMA CjAnswers ==
    ASSUME OpInv, driver = "cyberjack", "cyberjack" \notin Late, CjInv, ask # None, ~rdr.waits,
           NEW st, NEW data, CjReplies(st, data), Len(data) \in Nat, CjSays(st, data)',
           UNCHANGED <<driver, opvars, cmd, reply, link>>,
           at \notin {"answered", "verified"} => ran' = ran,
           op.kind = "transact" => ran' \in {<<>>, <<Bytes(op)>>}
    PROVE  CjInv' /\ faults' \in Nat
<1>1. /\ cmd # None /\ op # None /\ ask = cmd /\ link.sent /\ inbox = <<>> /\ ran = <<>>
  BY CjAsked
<1>2. UNCHANGED <<slot, dd, op, at, told, rdr>>
  BY DEF opvars, CjReplies
<1>3. PICK a : a = [type |-> "answer", st |-> st, data |-> data]
  OBVIOUS
<1>4. a.type = "answer" /\ a.st = st /\ a.data = data
  BY <1>3
<1>5. /\ ask' = None
      /\ \/ inbox' = <<a>> /\ faults' = faults /\ late' = late
         \/ inbox' = <<>> /\ faults' = faults + 1 /\ late' = late
  BY <1>1, <1>3 DEF CjReplies, Answers, Fault
<1>6. faults \in Nat /\ faults' \in Nat
  BY <1>5 DEF OpInv
<1>7. CjLine'
  <2>1. CASE inbox' = <<a>>
    <3>1. inbox' # <<>> /\ inbox' = <<Head(inbox')>> /\ Head(inbox') = a
      BY <2>1
    <3>2. (ask = None /\ ~rdr.waits /\ inbox # <<>> /\ inbox = <<Head(inbox)>>
            /\ Head(inbox).type = "answer" /\ Len(Head(inbox).data) \in Nat
            /\ CjSays(Head(inbox).st, Head(inbox).data))'
      BY <1>2, <1>4, <1>5, <3>1 DEF CjSays
    <3> QED
      BY <1>1, <1>2, <3>2 DEF CjInv, CjLine
  <2>2. CASE inbox' = <<>> /\ faults' = faults + 1
    BY <1>1, <1>2, <1>5, <1>6, <2>2 DEF CjInv, CjLine
  <2> QED
    BY <1>5, <2>1, <2>2
<1>8. CjStates' /\ CjKinds' /\ CjCommands' /\ CjResetting'
  BY <1>2, <1>5 DEF CjInv, CjStates, CjKinds, CjCommands, CjCommand, CjResetting, HasObject
<1>9. CjReply' /\ CjRan'
  BY <1>1, <1>2, <1>5 DEF CjInv, CjReply, CjRan
<1> QED
  BY <1>6, <1>7, <1>8, <1>9 DEF CjInv

LEMMA CjTerminalStep ==
    ASSUME OpInv, IccInv, driver = "cyberjack", "cyberjack" \notin Late, CjInv, CjTerminal
    PROVE  OpInv' /\ IccInv' /\ CjInv' /\ op' # None
<1>1. /\ cmd # None /\ op # None /\ ask = cmd /\ link.sent /\ inbox = <<>> /\ ran = <<>> /\ CjCommands
      /\ ask # None /\ ~rdr.waits
  BY CjAsked DEF CjTerminal
<1>2. UNCHANGED <<driver, opvars, cmd, reply, link, work, slot, dd, op, at, told>>
  BY DEF CjTerminal, opvars
<1>3. /\ ask.name = "verify" <=> at = "verified"
      /\ ask.name = "apdu" <=> at = "answered"
      /\ ask.name = "request_icc" <=> at = "card_reset"
      /\ ask.name = "status" <=> at = "polled"
      /\ at = "answered" => ask.data = Bytes(op)
  BY <1>1, CjCommandNames
<1>4. CASE CjExtends
  <2>1. PICK t \in {"wtx", "key"} : inbox' = <<[type |-> t]>> /\ (t = "key" => at = "verified")
    BY <1>1, <1>3, <1>4 DEF CjExtends
  <2>2. /\ rdr' = [waits |-> TRUE, extends |-> rdr.extends + 1]
        /\ UNCHANGED <<icc, ran, ask, late, faults>>
    BY <1>4 DEF CjExtends
  <2>3. rdr' \in [waits : BOOLEAN, extends : Nat] /\ rdr'.waits
    <3>1. rdr.extends + 1 \in Nat
      BY DEF CjInv, CjStates
    <3> QED
      BY <2>2, <3>1, Zenon
  <2>4. CjStates' /\ CjKinds' /\ CjCommands' /\ CjResetting'
    BY <1>2, <2>2, <2>3 DEF CjInv, CjStates, CjKinds, CjCommands, CjCommand, CjResetting, HasObject
  <2>5. CjLine'
    BY <1>1, <1>2, <2>1, <2>2, <2>3 DEF CjInv, CjLine
  <2>6. CjReply' /\ CjRan'
    BY <1>1, <1>2, <2>2 DEF CjInv, CjReply, CjRan
  <2> QED
    BY <1>1, <1>2, <2>2, <2>4, <2>5, <2>6, CommonReader DEF CjInv, IccInv, OpInv
<1>5. CASE CjKeeps
  <2>1. PICK data : data = IF ask.name = "status" /\ icc # None THEN <<"present">> ELSE <<>>
    OBVIOUS
  <2>2. CjReplies("9000", data) /\ ran' = ran
    BY <1>5, <2>1 DEF CjKeeps
  <2>3. at \notin {"card_reset", "answered", "verified"}
    BY <1>3, <1>5 DEF CjKeeps
  <2>4. at = "polled" => icc' = icc
    BY <1>3, <1>5 DEF CjKeeps
  <2>5. Len(data) \in Nat
    BY <2>1
  <2>6. <<"present">> # <<>>
    OBVIOUS
  <2>7. at = "polled" =>
          /\ data = <<"present">> => op.card # None
          /\ data # <<"present">> => icc' = None
    <3>1. CASE icc = None
      BY <2>1, <2>4, <2>6, <3>1
    <3>2. CASE icc # None
      <4>1. op.card # None
        BY <1>1, <3>2, DriverAssumption DEF OpInv, IccInv, IccType
      <4> QED
        BY <1>3, <2>1, <3>2, <4>1
    <3> QED
      BY <3>1, <3>2
  <2>10. CjSays("9000", data)'
    BY <1>2, <2>3, <2>7, Zenon DEF CjSays
  <2>8. CjInv' /\ faults' \in Nat
    BY <1>1, <1>2, <2>2, <2>3, <2>5, <2>10, CjAnswers
  <2>9. icc' # None => icc # None /\ icc' \in IccType /\ icc'.card = icc.card
    BY <1>5 DEF CjKeeps, IccInv, IccType
  <2> QED
    BY <1>1, <1>2, <2>8, <2>9, CommonReader
<1>6. CASE CjPowersUp
  <2>1. at = "card_reset" /\ ran' = ran
    BY <1>3, <1>6 DEF CjPowersUp
  <2>2. CASE icc = None
    <3>1. CjReplies("6200", <<>>) /\ icc' = icc
      BY <1>6, <2>2 DEF CjPowersUp
    <3>2. CjSays("6200", <<>>)'
      BY <1>2, <2>1 DEF CjSays
    <3>3. Len(<<>>) \in Nat
      OBVIOUS
    <3>4. CjInv' /\ faults' \in Nat
      BY <1>1, <1>2, <2>1, <3>1, <3>2, <3>3, CjAnswers
    <3> QED
      BY <1>1, <1>2, <2>2, <3>1, <3>4, CommonReader
  <2>3. CASE icc # None
    <3>1. CjReplies("9001", <<icc.card>>) /\ icc' = [icc EXCEPT !.on = TRUE, !.proto = Head(icc.card.protos)]
      BY <1>6, <2>3 DEF CjPowersUp
    <3>2. icc.card = op.card /\ icc \in IccType
      BY <1>1, <2>3 DEF OpInv, IccInv
    <3>3. PICK data : data = <<icc.card>>
      OBVIOUS
    <3>4. CjSays("9001", data)' /\ Len(data) \in Nat
      BY <1>2, <2>1, <3>2, <3>3 DEF CjSays
    <3>5. CjInv' /\ faults' \in Nat
      BY <1>1, <1>2, <2>1, <3>1, <3>3, <3>4, CjAnswers
    <3>6. Head(icc.card.protos) \in {None, "T0", "T1", "I2C"}
      BY <3>2, DriverAssumption DEF IccType
    <3>7. icc' \in IccType /\ icc'.card = icc.card
      BY <3>1, <3>2, <3>6 DEF IccType
    <3> QED
      BY <1>1, <1>2, <2>3, <3>5, <3>7, CommonReader
  <2> QED
    BY <2>2, <2>3
<1>7. CASE CjRuns
  <2>1. at = "answered" /\ icc' = icc /\ op.kind = "transact"
    BY <1>1, <1>3, <1>7 DEF CjRuns, CjInv, CjKinds
  <2>2. op.id \in Nat /\ op.le \in Nat
    BY <1>1, <2>1 DEF OpInv, Operations
  <2>3. PICK st, data : /\ CjReplies(st, data)
                        /\ \/ data = AnswerTo(op) /\ Executes(ask.data)
                           \/ data = Refusal(op) /\ ran' = ran
    BY <1>7 DEF CjRuns
  <2>4. ran' \in {<<>>, <<Bytes(op)>>}
    BY <1>1, <1>3, <2>1, <2>3, ExecutesOne
  <2>5. data = AnswerTo(op) => ran' # <<>>
    <3>1. \A x : <<x>> # <<>>
      OBVIOUS
    <3> QED
      BY <1>1, <2>2, <2>3, <3>1, AnswerIsNoRefusal, ExecutesOne
  <2>6. Len(data) \in Nat
    BY <2>2, <2>3, AnswerIsNoRefusal
  <2>7. CjSays(st, data)'
    BY <1>2, <2>1, <2>3, <2>5 DEF CjSays
  <2>8. CjInv' /\ faults' \in Nat
    BY <1>1, <1>2, <2>1, <2>3, <2>4, <2>6, <2>7, CjAnswers
  <2> QED
    BY <1>1, <1>2, <2>1, <2>8, CommonReader DEF IccInv
<1>8. CASE CjVerifiesPin
  <2>1. at = "verified" /\ icc' = icc /\ op.kind = "verify"
    BY <1>1, <1>3, <1>8 DEF CjVerifiesPin, CjInv, CjKinds
  <2>2. PICK a \in PinAnswers("63Cx") :
          CjReplies(a.st, <<>>) /\ IF a.run THEN Executes(a.pin) ELSE ran' = ran
    BY <1>8 DEF CjVerifiesPin
  <2>3. ran' = IF a.run THEN <<a.pin>> ELSE <<>>
    BY <1>1, <2>2, ExecutesOne
  <2>4. PinAnswers("63Cx")' = PinAnswers("63Cx")
    BY <1>2, Zenon DEF PinAnswers, PinAnswer, Pin
  <2>5. CjSays(a.st, <<>>)'
    BY <1>2, <2>1, <2>2, <2>3, <2>4 DEF CjSays
  <2>6. Len(<<>>) \in Nat
    OBVIOUS
  <2>7. CjInv' /\ faults' \in Nat
    BY <1>1, <1>2, <2>1, <2>2, <2>5, <2>6, CjAnswers
  <2> QED
    BY <1>1, <1>2, <2>1, <2>7, CommonReader DEF IccInv
<1> QED
  BY <1>1, <1>2, <1>4, <1>5, <1>6, <1>7, <1>8 DEF CjTerminal

\* The user, the handler and the line.
LEMMA CjOutside ==
    ASSUME OpInv, IccInv, driver = "cyberjack", CjInv, Insert \/ Draw \/ LateArrives \/ HandlerAsks
    PROVE  CjInv'
<1>1. ~LateArrives
  BY DEF CjInv, CjStates, LateArrives
<1>2. CASE Insert
  <2>1. op = None /\ UNCHANGED <<driver, slot, dd, op, at, told, cmd, reply, ran, link, ask, inbox, late, rdr, faults>>
    BY <1>2 DEF Insert, opvars, linkvars
  <2>2. at = "idle" /\ cmd = None /\ reply = None
    BY <2>1 DEF OpInv
  <2> QED
    BY <2>1, <2>2 DEF CjInv, CjStates, CjKinds, CjCommands, CjLine, CjReply, CjRan, CjResetting
<1>3. CASE Draw
  <2>1. icc' = None /\ UNCHANGED <<driver, slot, dd, op, at, told, cmd, reply, ran, link, ask, inbox, late, rdr, faults>>
    BY <1>3 DEF Draw, opvars, linkvars
  <2>2. PinAnswers("63Cx")' = PinAnswers("63Cx")
    BY <2>1, Zenon DEF PinAnswers, PinAnswer, Pin
  <2>4. CjLine'
    <3>1. CjSays(Head(inbox).st, Head(inbox).data) => CjSays(Head(inbox).st, Head(inbox).data)'
      BY <2>1, <2>2 DEF CjSays
    <3> QED
      BY <2>1, <3>1 DEF CjInv, CjLine
  <2>5. CjReply'
    <3>1. CjSays(reply.st, reply.data) => CjSays(reply.st, reply.data)'
      BY <2>1, <2>2 DEF CjSays
    <3> QED
      BY <2>1, <3>1 DEF CjInv, CjReply, OK
  <2> QED
    BY <2>1, <2>4, <2>5 DEF CjInv, CjStates, CjKinds, CjCommands, CjCommand, CjRan, CjResetting, HasObject
<1>4. CASE HandlerAsks
  <2>1. /\ op = None /\ op' \in Operations /\ op' # None /\ at' = op'.kind /\ op'.kind # "open"
        /\ ran' = <<>> /\ Serves(op'.kind)
        /\ UNCHANGED <<driver, icc, dd, linkvars, cmd, reply, faults>>
        /\ slot' = IF op'.kind = "reset" THEN [slot EXCEPT !.atr = None, !.proto = None] ELSE slot
    BY <1>4, HandlerStarts
  <2>2. at = "idle" /\ cmd = None /\ reply = None
    BY <2>1 DEF OpInv
  <2>3. op'.kind \in {"reset", "select", "transact", "poll", "status", "verify"}
    BY <2>1 DEF Operations, Serves, MemoryReaders
  <2>4. slot'.proto \in {None, "T1"}
    BY <2>1 DEF OpInv, SlotInv, SlotType, CjInv, CjStates
  <2>5. CjStates' /\ CjCommands' /\ CjLine' /\ CjReply'
    BY <2>1, <2>2, <2>4 DEF linkvars, CjInv, CjStates, CjCommands, CjLine, CjReply
  <2>6. CjKinds' /\ CjRan' /\ CjResetting'
    BY <2>1, <2>2, <2>3 DEF CjKinds, CjRan, CjResetting
  <2> QED
    BY <2>5, <2>6 DEF CjInv
<1> QED
  BY <1>1, <1>2, <1>3, <1>4

LEMMA CjInit0 ==
    Init => CjInv
<1> SUFFICES ASSUME Init, driver = "cyberjack"
             PROVE  CjStates /\ CjKinds /\ CjCommands /\ CjLine /\ CjReply /\ CjRan /\ CjResetting
  BY DEF CjInv
<1>1. /\ op = [kind |-> "open"] /\ at = "open" /\ cmd = None /\ reply = None /\ ran = <<>> /\ slot.proto = None
      /\ ask = None /\ inbox = <<>> /\ late = <<>>
  BY DEF Init, DriverInit
<1>2. /\ link = [sent |-> FALSE, tries |-> 0] /\ dd = [active |-> FALSE, spare |-> FALSE]
      /\ rdr = [waits |-> FALSE, extends |-> 0]
  BY DEF Init, CjInit
<1>3. /\ dd \in [active : BOOLEAN, spare : BOOLEAN]
      /\ rdr \in [waits : BOOLEAN, extends : Nat] /\ ~rdr.waits
      /\ link \in [sent : BOOLEAN, tries : Nat] /\ link.sent = FALSE
  BY <1>2
<1> QED
  BY <1>1, <1>3 DEF CjStates, CjKinds, CjCommands, CjLine, CjReply, CjRan, CjResetting

-----------------------------------------------------------------------------
(* Kaan                                                                    *)

\* The driver's data.
Results == Seq(Nat) \cup {<<c>> : c \in Cards}

LEMMA KaanFields ==
    ASSUME NEW d \in KaanData
    PROVE  d.b1 \in BOOLEAN /\ d.frozen \in BOOLEAN /\ d.total \in Nat /\ d.res \in Results
BY DEF KaanData, Results

LEMMA KaanAwake ==
    ASSUME NEW d \in KaanData
    PROVE  /\ Awake(d) \in KaanData /\ ~Awake(d).frozen
           /\ Awake(d).b1 = d.b1 /\ Awake(d).proto = d.proto /\ Awake(d).then = d.then
           /\ Awake(d).total = d.total /\ Awake(d).res = d.res
<1>1. KaanData = [b1 : BOOLEAN, frozen : BOOLEAN, proto : {None, "T0", "T1", "I2C"},
                  then : {None, "read_status", "read_proto"}, total : Nat, res : Results]
  BY DEF KaanData, Results
<1> QED
  BY <1>1 DEF Awake

LEMMA KaanFrozenSet ==
    ASSUME NEW d \in KaanData, NEW e, e = [d EXCEPT !.frozen = TRUE]
    PROVE  /\ e \in KaanData /\ e.frozen
           /\ e.b1 = d.b1 /\ e.proto = d.proto /\ e.then = d.then /\ e.total = d.total /\ e.res = d.res
<1>1. KaanData = [b1 : BOOLEAN, frozen : BOOLEAN, proto : {None, "T0", "T1", "I2C"},
                  then : {None, "read_status", "read_proto"}, total : Nat, res : Results]
  BY DEF KaanData, Results
<1> QED
  BY <1>1

LEMMA KaanThenSet ==
    ASSUME NEW d \in KaanData, NEW e, NEW t \in {None, "read_status", "read_proto"},
           e = [d EXCEPT !.then = t]
    PROVE  /\ e \in KaanData /\ e.then = t
           /\ e.b1 = d.b1 /\ e.frozen = d.frozen /\ e.proto = d.proto /\ e.total = d.total /\ e.res = d.res
<1>1. KaanData = [b1 : BOOLEAN, frozen : BOOLEAN, proto : {None, "T0", "T1", "I2C"},
                  then : {None, "read_status", "read_proto"}, total : Nat, res : Results]
  BY DEF KaanData, Results
<1> QED
  BY <1>1

LEMMA KaanProtoSet ==
    ASSUME NEW d \in KaanData, NEW e, NEW p \in {None, "T0", "T1", "I2C"},
           e = [d EXCEPT !.proto = p]
    PROVE  /\ e \in KaanData /\ e.proto = p
           /\ e.b1 = d.b1 /\ e.frozen = d.frozen /\ e.then = d.then /\ e.total = d.total /\ e.res = d.res
<1>1. KaanData = [b1 : BOOLEAN, frozen : BOOLEAN, proto : {None, "T0", "T1", "I2C"},
                  then : {None, "read_status", "read_proto"}, total : Nat, res : Results]
  BY DEF KaanData, Results
<1> QED
  BY <1>1

LEMMA KaanResSet ==
    ASSUME NEW d \in KaanData, NEW e, NEW r \in Results,
           e = [d EXCEPT !.res = r]
    PROVE  /\ e \in KaanData /\ e.res = r
           /\ e.b1 = d.b1 /\ e.frozen = d.frozen /\ e.proto = d.proto /\ e.then = d.then /\ e.total = d.total
<1>1. KaanData = [b1 : BOOLEAN, frozen : BOOLEAN, proto : {None, "T0", "T1", "I2C"},
                  then : {None, "read_status", "read_proto"}, total : Nat, res : Results]
  BY DEF KaanData, Results
<1> QED
  BY <1>1

LEMMA KaanTotalSet ==
    ASSUME NEW d \in KaanData, NEW e, NEW t \in Nat,
           e = [d EXCEPT !.total = t]
    PROVE  /\ e \in KaanData /\ e.total = t
           /\ e.b1 = d.b1 /\ e.frozen = d.frozen /\ e.proto = d.proto /\ e.then = d.then /\ e.res = d.res
<1>1. KaanData = [b1 : BOOLEAN, frozen : BOOLEAN, proto : {None, "T0", "T1", "I2C"},
                  then : {None, "read_status", "read_proto"}, total : Nat, res : Results]
  BY DEF KaanData, Results
<1> QED
  BY <1>1

LEMMA KaanDriverQuiet ==
    ASSUME OpInv, driver = "kaan", KaanInv, KaanDriver
    PROVE  /\ op # None /\ cmd = None /\ KaanStates
           /\ UNCHANGED <<driver, icc, event, ran, link, ask, inbox, late, rdr, faults, work>>
<1>1. UNCHANGED <<driver, icc, event, ran, link, ask, inbox, late, rdr, faults, work>>
  BY DEF KaanDriver, linkvars
<1>2. at # "idle" /\ (at \in KaanCalls => cmd = None)
  BY DEF KaanCalls, Selecting, AfterFile, KaanDriver, At,
     KaanOpens, KaanResets, KaanUnits, KaanSelectsFile, KaanFreezes, KaanFrozen, KaanQuiet, KaanPolls, KaanPolled, KaanResetsCard, KaanHasReset, KaanSyncCard,
     KaanSelectsApp, KaanSelects, KaanSelected, KaanTransact, KaanTransacted, KaanVerifies, KaanVerified, KaanReads, KaanHasRead, KaanWrites, KaanHasWritten
<1>3. op # None
  BY <1>2 DEF OpInv
<1>4. cmd = None
  BY <1>2 DEF KaanInv, KaanCommands
<1> QED
  BY <1>1, <1>3, <1>4 DEF KaanInv

\* The operation has ended.
LEMMA KaanEnds ==
    ASSUME OpInv, driver = "kaan", KaanInv, Ends, dd' \in KaanData, rdr' = rdr, late' = late,
           slot'.proto \in {None, "I2C", "transparent"},
           dd'.frozen => dd.frozen /\ slot'.status = slot.status,
           dd'.total = 0, slot'.proto = "I2C" => dd'.res = <<>>
    PROVE  KaanInv'
<1>1. KaanStates'
  BY DEF KaanInv, KaanStates
<1>2. KaanKinds' /\ KaanCommands' /\ KaanReply' /\ KaanRan' /\ KaanResetting'
  BY DEF Ends, KaanKinds, KaanCommands, KaanReply, KaanRan, KaanResetting
<1>3. KaanWatch'
  BY DEF Ends, KaanInv, KaanWatch, Selecting
<1>4. KaanMemory'
  BY DEF Ends, KaanData, KaanMemory
<1> QED
  BY <1>1, <1>2, <1>3, <1>4 DEF KaanInv

\* The operation goes on with another command.
LEMMA KaanGoes ==
    ASSUME OpInv, driver = "kaan", KaanInv, op # None, Stays, UNCHANGED <<driver, slot, icc, rdr, late>>,
           dd' \in KaanData, dd'.total = dd.total, dd'.res = dd.res, reply' = None,
           KaanKinds', KaanCommands', KaanRan', KaanResetting', KaanWatch'
    PROVE  KaanInv' /\ SlotInv'
<1>1. KaanStates'
  BY DEF KaanInv, KaanStates
<1>2. KaanReply'
  BY DEF KaanReply
<1>3. KaanMemory'
  BY DEF Stays, KaanInv, KaanMemory
<1>4. SlotInv'
  BY DEF OpInv, SlotInv
<1> QED
  BY <1>1, <1>2, <1>3, <1>4 DEF KaanInv

\* The commands, and the operations they are sent in.
LEMMA KaanNames ==
    /\ \A n : Ct(n).name = n
    /\ \A n, d : CtData(n, d).name = n /\ CtData(n, d).data = d
    /\ \A n, a, d : CtFile(n, a, d).name = n /\ CtFile(n, a, d).addr = a /\ CtFile(n, a, d).data = d
BY DEF Ct, CtData, CtFile

LEMMA KaanKindsAt ==
    ASSUME op # None, KaanKinds
    PROVE  /\ at \in {"open", "resync", "reset_ct", "reset_ct_old", "units"} => op.kind = "open"
           /\ at \in {"poll", "frozen", "status"} => op.kind = "poll"
           /\ at \in {"reset", "card_reset", "set_protocol", "select_app"} => op.kind = "reset"
           /\ at = "select" => op.kind = "select"
           /\ at = "protocol_set" => op.kind \in {"reset", "select"}
           /\ at \in {"transact", "apdu", "get_response"} => op.kind = "transact"
           /\ at \in {"read", "reading"} => op.kind = "read"
           /\ at \in {"write", "written"} => op.kind = "write"
           /\ at \in {"verify", "verified"} => op.kind = "verify"
BY DEF KaanKinds, Selecting

LEMMA KaanRanAt ==
    ASSUME op # None, KaanRan, at \notin {"apdu", "get_response", "verified"}
    PROVE  ran = <<>>
BY DEF KaanRan

\* A chunk goes on where the last ended.
LEMMA ChunkJoins ==
    ASSUME NEW m \in Seq(Nat), NEW t \in Nat, t <= Len(m), NEW l \in Nat,
           NEW e, e = Least(Len(m), t + Least(l, FileMax))
    PROVE  /\ e \in t .. Len(m)
           /\ SubSeq(m, t + 1, e) \in Seq(Nat) /\ Len(SubSeq(m, t + 1, e)) = e - t
           /\ SubSeq(m, 1, t) \o SubSeq(m, t + 1, e) = SubSeq(m, 1, e)
<1>1. e \in t .. Len(m)
  BY KaanAssumption DEF Least
<1>2. \A i \in t + 1 .. e : m[i] \in Nat
  BY <1>1
<1>3. t + 1 \in Int /\ e \in Int
  BY <1>1
<1>4. /\ SubSeq(m, t + 1, e) \in Seq(Nat)
      /\ Len(SubSeq(m, t + 1, e)) = IF t + 1 <= e THEN e - (t + 1) + 1 ELSE 0
  BY <1>2, <1>3, SubSeqProperties
<1>5. 1 \in 1 .. Len(m) + 1 /\ t \in 1 - 1 .. Len(m)
  OBVIOUS
<1>6. SubSeq(m, 1, t) \o SubSeq(m, t + 1, e) = SubSeq(m, 1, e)
  BY <1>1, <1>5, ConcatAdjacentSubSeq
<1>7. Len(SubSeq(m, t + 1, e)) = e - t
  BY <1>1, <1>4
<1> QED
  BY <1>1, <1>4, <1>6, <1>7

LEMMA KaanDriverStep ==
    ASSUME OpInv, IccInv, driver = "kaan", KaanInv, KaanDriver
    PROVE  KaanInv' /\ SlotInv' /\ (Ends \/ (Stays /\ at' # "idle"))
<1>0. /\ SlotInv /\ slot \in SlotType /\ dd \in KaanData
      /\ op # None /\ op \in Operations
      /\ slot.proto \in {None, "I2C", "transparent"}
      /\ op.kind # "read" => dd.total = 0 /\ (slot.proto = "I2C" => dd.res = <<>>)
      /\ cmd = None /\ dd.total = dd.total /\ dd.res = dd.res
      /\ UNCHANGED <<driver, icc, ran, late, rdr, faults, work>>
  BY KaanDriverQuiet DEF OpInv, SlotInv, KaanStates, KaanInv, KaanMemory
<1>e. ASSUME Ends, slot' = slot, dd' = dd, op.kind # "read"
      PROVE  KaanInv' /\ SlotInv'
  BY <1>0, <1>e, KaanEnds DEF SlotInv
<1>1. CASE KaanOpens
  <2>1. CASE Fails
    BY <1>0, <1>e, <1>1, <2>1, ReturnsEnds DEF KaanOpens, Fails, KaanInv, KaanKinds
  <2>2. CASE Stays
    <3>f. /\ at = "open" /\ at' \in {"resync", "reset_ct"} /\ op.kind = "open" /\ ran = <<>>
          /\ cmd'.name = at' /\ UNCHANGED <<slot, op, told>> /\ dd' = dd /\ reply' = None
      BY <1>0, <1>1, <2>2, KaanNames, KaanKindsAt, KaanRanAt DEF KaanOpens, Fails, Returns, Call, Stays, KaanInv
    <3>k. KaanKinds'
      BY <1>0, <3>f DEF KaanKinds, Selecting
    <3>c. KaanCommands'
      BY <1>0, <3>f DEF KaanCommands, KaanName, KaanCalls, Selecting
    <3>r. KaanRan'
      BY <1>0, <3>f DEF KaanInv, KaanRan
    <3>s. KaanResetting'
      BY <1>0, <3>f DEF KaanInv, KaanResetting, Selecting, KaanFresh
    <3>w. KaanWatch'
      BY <1>0, <3>f DEF KaanInv, KaanWatch, Selecting
    <3> QED
      BY <1>0, <3>f, <3>k, <3>c, <3>r, <3>s, <3>w, KaanGoes DEF Stays
  <2> QED
    BY <1>1, <2>1, <2>2 DEF KaanOpens
<1>2. CASE KaanResets
  <2>1. CASE Fails
    BY <1>0, <1>e, <1>2, <2>1, ReturnsEnds DEF KaanResets, Fails, At, KaanInv, KaanKinds
  <2>2. CASE Stays
    <3>f. /\ at \in {"resync", "reset_ct", "reset_ct_old"} /\ at' \in {"reset_ct", "reset_ct_old", "units"}
          /\ op.kind = "open" /\ ran = <<>> /\ cmd'.name = at' /\ UNCHANGED <<slot, op, told>> /\ dd' = dd /\ reply' = None
      BY <1>0, <1>2, <2>2, KaanNames, KaanKindsAt, KaanRanAt DEF KaanResets, Fails, Returns, Call, Stays, At, KaanInv
    <3>k. KaanKinds'
      BY <1>0, <3>f DEF KaanKinds, Selecting
    <3>c. KaanCommands'
      BY <1>0, <3>f DEF KaanCommands, KaanName, KaanCalls, Selecting
    <3>r. KaanRan'
      BY <1>0, <3>f DEF KaanInv, KaanRan
    <3>s. KaanResetting'
      BY <1>0, <3>f DEF KaanInv, KaanResetting, Selecting, KaanFresh
    <3>w. KaanWatch'
      BY <1>0, <3>f DEF KaanInv, KaanWatch, Selecting
    <3> QED
      BY <1>0, <3>f, <3>k, <3>c, <3>r, <3>s, <3>w, KaanGoes DEF Stays
  <2> QED
    BY <1>2, <2>1, <2>2 DEF KaanResets
<1>3. CASE KaanUnits
  BY <1>0, <1>e, <1>3, ReturnsEnds DEF KaanUnits, Fails, At, KaanInv, KaanKinds
<1>4. CASE KaanSelectsFile
  <2>1. CASE Fails
    BY <1>0, <1>e, <1>4, <2>1, ReturnsEnds DEF KaanSelectsFile, AfterFile, Fails, At, KaanInv, KaanKinds, Selecting
  <2>2. CASE Stays
    <3>1. at \in {"select_mf", "select_df", "select_ef"} /\ slot' = slot /\ dd' = dd
      BY <1>4 DEF KaanSelectsFile, AfterFile
    <3>2. Good
      BY <1>0, <1>4, <2>2 DEF KaanSelectsFile, Fails, Returns, Stays
    <3>3. /\ at = "select_mf" => AfterFile[at] = "select_df"
          /\ at = "select_df" => AfterFile[at] = "select_ef"
          /\ at = "select_ef" => AfterFile[at] = "read_ef"
      BY <3>1 DEF AfterFile
    <3>4. Call(AfterFile[at], Ct(IF at = "select_ef" THEN dd.then ELSE "select_file"))
      BY <1>4, <3>2 DEF KaanSelectsFile
    <3>5. /\ op.kind \in {"poll", "reset"}
          /\ (op.kind = "poll" /\ dd.then = "read_status") \/ (op.kind = "reset" /\ dd.then = "read_proto")
      BY <1>0, <3>1 DEF KaanInv, KaanKinds, Selecting
    <3>6. ran = <<>>
      BY <1>0, <3>1, KaanRanAt DEF KaanInv
    <3>f. /\ at \in {"select_mf", "select_df", "select_ef"} /\ at' \in {"select_df", "select_ef", "read_ef"}
          /\ op.kind \in {"poll", "reset"} /\ ran = <<>> /\ cmd'.name = (IF at' = "read_ef" THEN dd.then ELSE "select_file")
          /\ (op.kind = "poll" /\ dd.then = "read_status") \/ (op.kind = "reset" /\ dd.then = "read_proto")
          /\ UNCHANGED <<slot, op, told>> /\ dd' = dd /\ reply' = None
      BY <1>0, <2>2, <3>1, <3>3, <3>4, <3>5, <3>6, KaanNames DEF Call, Stays
    <3>k. KaanKinds'
      BY <1>0, <3>f DEF KaanKinds, Selecting
    <3>c. KaanCommands'
      BY <1>0, <3>f DEF KaanCommands, KaanName, KaanCalls, Selecting
    <3>r. KaanRan'
      BY <1>0, <3>f DEF KaanInv, KaanRan
    <3>s. KaanResetting'
      BY <1>0, <3>f DEF KaanInv, KaanResetting, Selecting, KaanFresh
    <3>w. KaanWatch'
      BY <1>0, <3>f DEF KaanInv, KaanWatch, Selecting
    <3> QED
      BY <1>0, <3>f, <3>k, <3>c, <3>r, <3>s, <3>w, KaanGoes DEF Stays
  <2> QED
    BY <1>4, <2>1, <2>2 DEF KaanSelectsFile
<1>5. CASE KaanFreezes
  <2>f. /\ at = "poll" /\ at' = "frozen" /\ op.kind = "poll" /\ ran = <<>> /\ ~dd.frozen
        /\ cmd'.name = "freeze" /\ cmd'.data = <<slot.status # "absent">> /\ UNCHANGED <<slot, op, told>> /\ dd' = dd /\ reply' = None
    BY <1>0, <1>5, KaanNames, KaanKindsAt, KaanRanAt DEF KaanFreezes, Call, Stays, KaanInv
  <2>k. KaanKinds'
    BY <1>0, <2>f DEF KaanKinds, Selecting
  <2>c. KaanCommands'
    BY <1>0, <2>f DEF KaanCommands, KaanName, KaanCalls, Selecting
  <2>r. KaanRan'
    BY <1>0, <2>f DEF KaanInv, KaanRan
  <2>s. KaanResetting'
    BY <1>0, <2>f DEF KaanInv, KaanResetting, Selecting, KaanFresh
  <2>w. KaanWatch'
    BY <1>0, <2>f DEF KaanInv, KaanWatch, Selecting
  <2> QED
    BY <1>0, <2>f, <2>k, <2>c, <2>r, <2>s, <2>w, KaanGoes DEF Stays
<1>6. CASE KaanFrozen
  <2>1. CASE Fails /\ dd' = dd
    BY <1>0, <1>e, <1>6, <2>1, ReturnsEnds DEF KaanFrozen, Fails, At, KaanInv, KaanKinds
  <2>2. CASE Good /\ dd' = [dd EXCEPT !.frozen = TRUE] /\ Goes("poll") /\ Stays
    <3>1. /\ at = "frozen" /\ at' = "poll" /\ op.kind = "poll" /\ ran = <<>> /\ reply # None
          /\ UNCHANGED <<slot, op, told, cmd, reply>>
      BY <1>0, <1>6, <2>2, KaanKindsAt, KaanRanAt DEF KaanFrozen, Goes, Stays, At, KaanInv
    <3>2. dd' \in KaanData /\ dd'.total = dd.total /\ dd'.res = dd.res
      BY <1>0, <2>2, KaanFrozenSet
    <3>3. rdr.known = (slot.status # "absent")
      BY <1>0, <2>2, <3>1 DEF Good, SW, KaanInv, KaanReply, KaanSays
    <3>4. KaanKinds' /\ KaanCommands' /\ KaanRan' /\ KaanResetting'
      BY <1>0, <3>1 DEF KaanInv, KaanKinds, KaanCommands, KaanRan, KaanResetting, Selecting
    <3>5. KaanReply'
      BY <1>0, <3>1 DEF KaanInv, KaanReply, KaanSays, OK
    <3>6. KaanStates'
      BY <1>0, <3>1, <3>2 DEF KaanInv, KaanStates
    <3>7. KaanWatch'
      BY <1>0, <3>1, <3>3 DEF KaanWatch, Selecting
    <3>8. KaanMemory'
      BY <1>0, <3>1, <3>2 DEF KaanInv, KaanMemory
    <3> QED
      BY <1>0, <2>2, <3>1, <3>4, <3>5, <3>6, <3>7, <3>8 DEF KaanInv, SlotInv
  <2> QED
    BY <1>6, <2>1, <2>2 DEF KaanFrozen
<1>7. CASE KaanQuiet
  BY <1>0, <1>e, <1>7, ReturnsEnds DEF KaanQuiet, KaanInv, KaanKinds
<1>8. CASE KaanPolls
  <2>1. PICK d : d = Awake(dd)
    OBVIOUS
  <2>2. d \in KaanData /\ ~d.frozen /\ d.total = dd.total /\ d.res = dd.res
    BY <1>0, <2>1, KaanAwake
  <2>3. /\ dd' \in KaanData /\ ~dd'.frozen /\ dd'.total = dd.total /\ dd'.res = dd.res
        /\ \/ at' = "status" /\ cmd'.name = "read_status"
           \/ at' = "select_mf" /\ dd'.then = "read_status" /\ cmd'.name = "select_file"
    <3>1. CASE Call("select_mf", Ct("select_file")) /\ dd' = [d EXCEPT !.then = "read_status"]
      BY <2>2, <3>1, KaanThenSet DEF Call, Ct
    <3>2. CASE Call("status", Ct("read_status")) /\ dd' = d
      BY <2>2, <3>2 DEF Call, Ct
    <3> QED
      BY <1>8, <2>1, <3>1, <3>2 DEF KaanPolls
  <2>f. /\ at = "poll" /\ op.kind = "poll" /\ ran = <<>> /\ UNCHANGED <<slot, op, told>> /\ reply' = None
        /\ dd' \in KaanData /\ ~dd'.frozen /\ dd'.total = dd.total /\ dd'.res = dd.res
        /\ \/ at' = "status" /\ cmd'.name = "read_status"
           \/ at' = "select_mf" /\ dd'.then = "read_status" /\ cmd'.name = "select_file"
    BY <1>0, <1>8, <2>3, KaanNames, KaanKindsAt, KaanRanAt DEF KaanPolls, Call, Stays, KaanInv
  <2>k. KaanKinds'
    BY <1>0, <2>f DEF KaanKinds, Selecting
  <2>c. KaanCommands'
    BY <1>0, <2>f DEF KaanCommands, KaanName, KaanCalls, Selecting
  <2>r. KaanRan'
    BY <1>0, <2>f DEF KaanInv, KaanRan
  <2>s. KaanResetting'
    BY <1>0, <2>f DEF KaanInv, KaanResetting, Selecting, KaanFresh
  <2>w. KaanWatch'
    BY <1>0, <2>f DEF KaanInv, KaanWatch, Selecting
  <2> QED
    BY <1>0, <2>f, <2>k, <2>c, <2>r, <2>s, <2>w, KaanGoes DEF Stays
<1>9. CASE KaanPolled
  <2>0. op.kind = "poll" /\ ~dd.frozen /\ cmd = None /\ reply # None
    BY <1>0, <1>9 DEF KaanPolled, At, KaanInv, KaanKinds, KaanWatch, Selecting
  <2>1. CASE Fails /\ slot' = slot
    BY <1>0, <1>e, <1>9, <2>0, <2>1, ReturnsEnds DEF KaanPolled, Fails
  <2>2. CASE Good /\ HasStatus(Head(reply.data), FALSE) /\ dd' = dd
    <3>1. PICK st : st = Head(reply.data)
      OBVIOUS
    <3>2. st \in Statuses
      BY <1>9, <2>0, <2>2, <3>1 DEF KaanPolled, At, Good, SW, KaanInv, KaanReply, KaanSays, Statuses
    <3>3. slot' \in SlotType /\ slot'.proto = slot.proto /\ slot'.atr = slot.atr /\ Ends
      BY <1>0, <2>2, <3>1, <3>2, StatusBecomes
    <3> QED
      BY <1>0, <2>0, <2>2, <3>3, KaanEnds DEF SlotInv
  <2> QED
    BY <1>9, <2>1, <2>2 DEF KaanPolled
<1>10. CASE KaanResetsCard
  <2>1. PICK x : x = None
    OBVIOUS
  <2>2. /\ dd' \in KaanData /\ dd'.frozen = dd.frozen /\ dd'.total = dd.total /\ dd'.res = dd.res
    BY <1>0, <1>10, KaanProtoSet DEF KaanResetsCard
  <2>3. cmd'.name = "reset_icc"
    BY <1>10 DEF KaanResetsCard, Call, Ct
  <2>f. /\ at = "reset" /\ at' = "card_reset" /\ op.kind = "reset" /\ ran = <<>> /\ UNCHANGED <<slot, op, told>>
        /\ reply' = None /\ cmd'.name = "reset_icc"
        /\ dd' \in KaanData /\ dd'.frozen = dd.frozen /\ dd'.total = dd.total /\ dd'.res = dd.res
    BY <1>0, <1>10, <2>2, <2>3, KaanNames, KaanKindsAt, KaanRanAt DEF KaanResetsCard, Call, Stays, KaanInv
  <2>k. KaanKinds'
    BY <1>0, <2>f DEF KaanKinds, Selecting
  <2>c. KaanCommands'
    BY <1>0, <2>f DEF KaanCommands, KaanName, KaanCalls, Selecting
  <2>r. KaanRan'
    BY <1>0, <2>f DEF KaanInv, KaanRan
  <2>s. KaanResetting'
    BY <1>0, <2>f DEF KaanInv, KaanResetting, Selecting, KaanFresh
  <2>w. KaanWatch'
    BY <1>0, <2>f DEF KaanInv, KaanWatch, Selecting
  <2> QED
    BY <1>0, <2>f, <2>k, <2>c, <2>r, <2>s, <2>w, KaanGoes DEF Stays
<1>11. CASE KaanHasReset
  <2>0. at = "card_reset" /\ op.kind = "reset" /\ cmd = None /\ reply # None /\ slot.proto = None /\ ran = <<>>
    BY <1>0, <1>11 DEF KaanHasReset, At, KaanInv, KaanKinds, KaanResetting, KaanRan
  <2>1. OK => KaanSays(reply.st, reply.data)
    BY <2>0 DEF KaanInv, KaanReply
  <2>2. PICK d \in KaanData : d = Awake(dd) /\ ~d.frozen /\ d.total = dd.total
    BY <1>0, KaanAwake
  <2>3. CASE SW("9001")
    <3>1. HasAtr(Head(reply.data)) /\ dd' = d
      <4>1. reply.st # "9000"
        BY <2>3 DEF SW
      <4> QED
        BY <1>11, <2>2, <2>3, <4>1 DEF KaanHasReset, SW, HasAtr
    <3>2. reply.data = <<op.card>> /\ op.card \in Cards /\ KaanFresh /\ reply.st # "9000"
      BY <2>0, <2>1, <2>3 DEF SW, KaanSays
    <3>4. HasAtr(op.card) /\ op.card \in Atrs
      BY <3>1, <3>2 DEF Atrs
    <3>5. /\ slot' \in SlotType /\ slot'.proto = None /\ slot'.status = slot.status
          /\ slot'.atr = op.card /\ at' = "set_protocol"
          /\ UNCHANGED <<op, told, cmd, reply>>
      BY <1>0, <2>0, <3>4, AtrBecomes
    <3>6. dd' \in KaanData /\ ~dd'.frozen /\ dd'.total = dd.total
      BY <2>2, <3>1
    <3>7. None # "I2C"
      BY DriverAssumption
    <3>k. KaanKinds'
      BY <1>0, <2>0, <3>2, <3>5, <3>6, <3>7 DEF KaanKinds, Selecting
    <3>c. KaanCommands'
      BY <1>0, <2>0, <3>2, <3>5, <3>6, <3>7 DEF KaanCommands, KaanName, KaanCalls, Selecting
    <3>r. KaanRan'
      BY <1>0, <2>0, <3>2, <3>5, <3>6, <3>7 DEF KaanInv, KaanRan
    <3>s. KaanResetting'
      BY <1>0, <2>0, <3>2, <3>5, <3>6, <3>7 DEF KaanInv, KaanResetting, Selecting, KaanFresh
    <3>w. KaanWatch'
      BY <1>0, <2>0, <3>2, <3>5, <3>6, <3>7 DEF KaanInv, KaanWatch, Selecting
    <3>p. KaanReply'
      BY <1>0, <2>0, <3>2, <3>5, <3>6, <3>7 DEF KaanInv, KaanReply, KaanSays, OK
    <3>t. KaanStates'
      BY <1>0, <2>0, <3>2, <3>5, <3>6, <3>7 DEF KaanInv, KaanStates
    <3>m. KaanMemory'
      BY <1>0, <2>0, <3>2, <3>5, <3>6, <3>7 DEF KaanInv, KaanMemory
    <3> QED
      BY <1>0, <2>0, <3>2, <3>5, <3>6, <3>7, <3>k, <3>c, <3>r, <3>s, <3>w, <3>p, <3>t, <3>m DEF KaanInv, SlotInv, Stays, MemoryReaders
  <2>4. CASE SW("9000")
    <3>1. /\ at' = "select_mf" /\ cmd' = Ct("select_file") /\ reply' = None /\ UNCHANGED <<slot, op, told>>
          /\ dd' = [d EXCEPT !.then = "read_proto", !.res = reply.data]
      BY <1>11, <2>2, <2>4 DEF KaanHasReset, SW, Call, Stays
    <3>2. reply.data = <<op.card>> /\ op.card \in Cards /\ KaanFresh /\ IsSync(op.card)
      BY <2>0, <2>1, <2>4 DEF SW, KaanSays
    <3>3. reply.data \in Results
      BY <3>2 DEF Results
    <3>4. /\ dd' \in KaanData /\ ~dd'.frozen /\ dd'.total = dd.total /\ dd'.then = "read_proto"
          /\ dd'.res = <<op.card>>
      <4>1. PICK e : e = [d EXCEPT !.then = "read_proto"]
        OBVIOUS
      <4>2. e \in KaanData /\ e.then = "read_proto" /\ ~e.frozen /\ e.total = dd.total
        BY <2>2, <4>1, KaanThenSet
      <4>3. dd' = [e EXCEPT !.res = reply.data]
        BY <3>1, <4>1, Zenon
      <4> QED
        BY <3>2, <3>3, <4>2, <4>3, KaanResSet
    <3>5. cmd'.name = "select_file"
      BY <3>1 DEF Ct
    <3>7. None # "I2C"
      BY DriverAssumption
    <3>k. KaanKinds'
      BY <1>0, <2>0, <3>1, <3>2, <3>4, <3>5, <3>7 DEF KaanKinds, Selecting
    <3>c. KaanCommands'
      BY <1>0, <2>0, <3>1, <3>2, <3>4, <3>5, <3>7 DEF KaanCommands, KaanName, KaanCalls, Selecting
    <3>r. KaanRan'
      BY <1>0, <2>0, <3>1, <3>2, <3>4, <3>5, <3>7 DEF KaanInv, KaanRan
    <3>s. KaanResetting'
      BY <1>0, <2>0, <3>1, <3>2, <3>4, <3>5, <3>7 DEF KaanInv, KaanResetting, Selecting, KaanFresh
    <3>w. KaanWatch'
      BY <1>0, <2>0, <3>1, <3>2, <3>4, <3>5, <3>7 DEF KaanInv, KaanWatch, Selecting
    <3>p. KaanReply'
      BY <1>0, <2>0, <3>1, <3>2, <3>4, <3>5, <3>7 DEF KaanInv, KaanReply, KaanSays, OK
    <3>t. KaanStates'
      BY <1>0, <2>0, <3>1, <3>2, <3>4, <3>5, <3>7 DEF KaanInv, KaanStates
    <3>m. KaanMemory'
      BY <1>0, <2>0, <3>1, <3>2, <3>4, <3>5, <3>7 DEF KaanInv, KaanMemory
    <3> QED
      BY <1>0, <2>0, <3>1, <3>2, <3>4, <3>5, <3>7, <3>k, <3>c, <3>r, <3>s, <3>w, <3>p, <3>t, <3>m DEF KaanInv, SlotInv, Stays, MemoryReaders
  <2>5. CASE Fails /\ dd' = IfAnswered(dd) /\ slot' = slot
    <3>1. dd' \in KaanData /\ (dd'.frozen => dd.frozen) /\ dd'.total = 0
      BY <1>0, <2>0, <2>2, <2>5 DEF IfAnswered
    <3>2. slot.proto # "I2C"
      BY <2>0, DriverAssumption
    <3> QED
      BY <1>0, <2>0, <2>5, <3>1, <3>2, ReturnsEnds, KaanEnds DEF Fails, SlotInv
  <2> QED
    BY <1>11, <2>3, <2>4, <2>5 DEF KaanHasReset
<1>12. CASE KaanSyncCard
  <2>0. /\ at = "read_ef" /\ op.kind = "reset" /\ cmd = None /\ reply # None /\ dd.then = "read_proto"
        /\ slot.proto = None /\ ran = <<>> /\ dd.res = <<op.card>> /\ op.card \in Cards /\ IsSync(op.card) /\ KaanFresh
    BY <1>0, <1>12 DEF KaanSyncCard, At, KaanInv, KaanKinds, KaanResetting, KaanRan, Selecting
  <2>1. OK => KaanSays(reply.st, reply.data)
    BY <2>0 DEF KaanInv, KaanReply
  <2>2. <<>> \in Results
    BY DEF Results
  <2>3. CASE Good
    <3>1. Head(reply.data) = "I2C"
      BY <2>0, <2>1, <2>3 DEF Good, SW, KaanSays
    <3>0. Head(dd.res) = op.card
      BY <2>0
    <3>2. /\ slot' = [slot EXCEPT !.atr = op.card, !.proto = "I2C"]
          /\ dd' = [dd EXCEPT !.proto = "I2C", !.res = <<>>]
      BY <1>12, <2>3, <3>0, <3>1 DEF KaanSyncCard
    <3>3. /\ dd' \in KaanData /\ dd'.frozen = dd.frozen /\ dd'.total = dd.total /\ dd'.res = <<>>
          /\ dd'.proto = "I2C"
      <4>1. PICK e : e = [dd EXCEPT !.proto = "I2C"]
        OBVIOUS
      <4>2. e \in KaanData /\ e.proto = "I2C" /\ e.frozen = dd.frozen /\ e.total = dd.total
        BY <1>0, <4>1, KaanProtoSet
      <4>3. dd' = [e EXCEPT !.res = <<>>]
        BY <3>2, <4>1, Zenon
      <4> QED
        BY <2>2, <4>2, <4>3, KaanResSet
    <3>5. slot' \in SlotType /\ slot'.proto = "I2C" /\ slot'.atr = op.card /\ slot'.status = slot.status
      BY <1>0, <2>0, <3>2 DEF SlotType, Atrs, Protos
    <3>6. dd.total = 0
      BY <1>0, <2>0
    <3>7. CASE Returns(TRUE, <<>>)
      BY <1>0, <2>0, <3>3, <3>5, <3>6, <3>7, ReturnsEnds, KaanEnds DEF SlotInv, MemoryReaders
    <3>8. CASE Call("select_app", Ct("select_file")) /\ Stays
      <4>1. at' = "select_app" /\ cmd'.name = "select_file" /\ reply' = None /\ UNCHANGED <<op, told>>
        BY <3>8, KaanNames DEF Call, Stays
      <4>2. icc # None => icc.proto = "I2C"
        BY <1>0, <2>0 DEF KaanFresh, IsSync, OpInv
      <4>k. KaanKinds'
        BY <1>0, <2>0, <3>3, <3>5, <3>6, <4>1, <4>2 DEF KaanKinds, Selecting
      <4>c. KaanCommands'
        BY <1>0, <2>0, <3>3, <3>5, <3>6, <4>1, <4>2 DEF KaanCommands, KaanName, KaanCalls, Selecting
      <4>r. KaanRan'
        BY <1>0, <2>0, <3>3, <3>5, <3>6, <4>1, <4>2 DEF KaanInv, KaanRan
      <4>s. KaanResetting'
        BY <1>0, <2>0, <3>3, <3>5, <3>6, <4>1, <4>2 DEF KaanInv, KaanResetting, Selecting, KaanFresh
      <4>w. KaanWatch'
        BY <1>0, <2>0, <3>3, <3>5, <3>6, <4>1, <4>2 DEF KaanInv, KaanWatch, Selecting
      <4>p. KaanReply'
        BY <1>0, <2>0, <3>3, <3>5, <3>6, <4>1, <4>2 DEF KaanInv, KaanReply, KaanSays, OK
      <4>t. KaanStates'
        BY <1>0, <2>0, <3>3, <3>5, <3>6, <4>1, <4>2 DEF KaanInv, KaanStates
      <4>m. KaanMemory'
        BY <1>0, <2>0, <3>3, <3>5, <3>6, <4>1, <4>2 DEF KaanInv, KaanMemory
      <4> QED
        BY <1>0, <2>0, <3>3, <3>5, <3>6, <4>1, <4>2, <4>k, <4>c, <4>r, <4>s, <4>w, <4>p, <4>t, <4>m DEF KaanInv, SlotInv, Stays, MemoryReaders
    <3> QED
      BY <1>12, <2>3, <3>7, <3>8 DEF KaanSyncCard
  <2>4. CASE ~Good
    <3>1. Fails /\ dd' = [dd EXCEPT !.res = <<>>] /\ slot' = slot
      BY <1>12, <2>4 DEF KaanSyncCard
    <3>2. dd' \in KaanData /\ dd'.frozen = dd.frozen /\ dd'.total = dd.total
      BY <1>0, <2>2, <3>1, KaanResSet
    <3>3. slot.proto # "I2C"
      BY <2>0, DriverAssumption
    <3> QED
      BY <1>0, <2>0, <3>1, <3>2, <3>3, ReturnsEnds, KaanEnds DEF Fails, SlotInv
  <2> QED
    BY <2>3, <2>4
<1>13. CASE KaanSelectsApp
  BY <1>0, <1>e, <1>13, ReturnsEnds DEF KaanSelectsApp, At, KaanInv, KaanKinds
<1>14. CASE KaanSelects
  <2>1. at \in {"set_protocol", "select"} /\ at' = "protocol_set" /\ reply' = None
        /\ UNCHANGED <<slot, dd, op, told>> /\ cmd' = CtData("set_proto", <<Wanted>>)
    BY <1>14 DEF KaanSelects, Call, Stays
  <2>2. cmd'.name = "set_proto" /\ cmd'.data = <<Wanted>>
    BY <2>1 DEF CtData, Ct
  <2>3. Wanted' = Wanted
    BY <2>1 DEF Wanted
  <2>4. op.kind \in {"reset", "select"} /\ ran = <<>> /\ (at = "select" => op.kind = "select")
    BY <1>0, <2>1 DEF KaanInv, KaanKinds, KaanRan
  <2>k. KaanKinds'
    BY <1>0, <2>1, <2>2, <2>3, <2>4 DEF KaanKinds, Selecting
  <2>c. KaanCommands'
    BY <1>0, <2>1, <2>2, <2>3, <2>4 DEF KaanCommands, KaanName, KaanCalls, Selecting
  <2>r. KaanRan'
    BY <1>0, <2>1, <2>2, <2>3, <2>4 DEF KaanInv, KaanRan
  <2>s. KaanResetting'
    BY <1>0, <2>1, <2>2, <2>3, <2>4 DEF KaanInv, KaanResetting, Selecting, KaanFresh
  <2>w. KaanWatch'
    BY <1>0, <2>1, <2>2, <2>3, <2>4 DEF KaanInv, KaanWatch, Selecting
  <2> QED
    BY <1>0, <2>1, <2>k, <2>c, <2>r, <2>s, <2>w, KaanGoes DEF Stays
<1>15. CASE KaanSelected
  <2>0. at = "protocol_set" /\ op.kind \in {"reset", "select"} /\ cmd = None /\ reply # None
    BY <1>0, <1>15 DEF KaanSelected, At, KaanInv, KaanKinds
  <2>1. PICK d \in KaanData : d = Awake(dd) /\ ~d.frozen /\ d.total = dd.total /\ d.res = dd.res
    BY <1>0, KaanAwake
  <2>2. CASE Good \/ SW("6985")
    <3>1. /\ slot' = [slot EXCEPT !.proto = "transparent"]
          /\ dd' = [d EXCEPT !.proto = Wanted]
          /\ Returns(TRUE, <<>>)
      BY <1>15, <2>1, <2>2 DEF KaanSelected
    <3>2. Wanted \in {None, "T0", "T1", "I2C"}
      <4>1. CASE op.kind = "select"
        BY <1>0, <4>1 DEF Wanted, Operations
      <4>2. CASE op.kind = "reset"
        <5>1. slot.atr \in Cards
          BY <1>0, <2>0, <4>2 DEF KaanInv, KaanResetting
        <5> QED
          BY <4>2, <5>1, DriverAssumption DEF Wanted
      <4> QED
        BY <2>0, <4>1, <4>2
    <3>3. dd' \in KaanData /\ ~dd'.frozen /\ dd'.total = dd.total
      BY <2>1, <3>1, <3>2, KaanProtoSet
    <3>4. slot' \in SlotType /\ slot'.proto = "transparent" /\ slot'.atr = slot.atr
      BY <1>0, <3>1, SlotGetsProto DEF Protos
    <3> QED
      BY <1>0, <2>0, <3>1, <3>3, <3>4, ReturnsEnds, KaanEnds DEF SlotInv
  <2>3. CASE SelectFails /\ dd' = IfAnswered(dd) /\ slot' = slot
    <3>1. dd' \in KaanData /\ (dd'.frozen => dd.frozen) /\ dd'.total = dd.total /\ dd'.res = dd.res
      BY <1>0, <2>1, <2>3 DEF IfAnswered
    <3> QED
      BY <1>0, <2>0, <2>3, <3>1, ReturnsEnds, KaanEnds DEF SelectFails, SlotInv
  <2> QED
    BY <1>15, <2>2, <2>3 DEF KaanSelected
<1>16. CASE KaanTransact
  <2>1. CASE Fails
    BY <1>0, <1>e, <1>16, <2>1, ReturnsEnds DEF KaanTransact, Fails, KaanInv, KaanKinds
  <2>2. CASE Call("apdu", CtData("apdu", Bytes(op))) /\ Stays
    <3>1. cmd'.name = "apdu" /\ cmd'.data = Bytes(op)
      BY <2>2 DEF Call, CtData, Ct
    <3>f. /\ at = "transact" /\ at' = "apdu" /\ op.kind = "transact" /\ ran = <<>>
          /\ cmd'.name = "apdu" /\ cmd'.data = Bytes(op) /\ UNCHANGED <<slot, op, told>> /\ dd' = dd /\ reply' = None
      BY <1>0, <1>16, <2>2, <3>1, KaanNames, KaanKindsAt, KaanRanAt DEF KaanTransact, Call, Stays, KaanInv
    <3>k. KaanKinds'
      BY <1>0, <3>f DEF KaanKinds, Selecting
    <3>c. KaanCommands'
      BY <1>0, <3>f DEF KaanCommands, KaanName, KaanCalls, Selecting
    <3>r. KaanRan'
      BY <1>0, <3>f DEF KaanInv, KaanRan
    <3>s. KaanResetting'
      BY <1>0, <3>f DEF KaanInv, KaanResetting, Selecting, KaanFresh
    <3>w. KaanWatch'
      BY <1>0, <3>f DEF KaanInv, KaanWatch, Selecting
    <3> QED
      BY <1>0, <3>f, <3>k, <3>c, <3>r, <3>s, <3>w, KaanGoes DEF Stays
  <2> QED
    BY <1>16, <2>1, <2>2 DEF KaanTransact
<1>17. CASE KaanTransacted
  <2>1. CASE Fails \/ Returns(TRUE, reply.data)
    BY <1>0, <1>e, <1>17, <2>1, ReturnsEnds DEF KaanTransacted, Fails, At, KaanInv, KaanKinds
  <2>2. CASE Asks /\ Call("get_response", Ct("get_response")) /\ Stays
    <3>1. at = "apdu" /\ OK /\ reply.st = "61xx" /\ reply # None
      BY <1>17, <2>2 DEF KaanTransacted, Asks, SW, At
    <3>2. ran # <<>>
      BY <1>0, <3>1 DEF KaanInv, KaanReply, KaanSays
    <3>f. /\ at = "apdu" /\ at' = "get_response" /\ op.kind = "transact" /\ ran # <<>>
          /\ cmd'.name = "get_response" /\ UNCHANGED <<slot, op, told>> /\ dd' = dd /\ reply' = None
      BY <1>0, <1>17, <2>2, <3>1, <3>2, KaanNames, KaanKindsAt DEF KaanTransacted, Call, Stays, KaanInv
    <3>k. KaanKinds'
      BY <1>0, <3>f DEF KaanKinds, Selecting
    <3>c. KaanCommands'
      BY <1>0, <3>f DEF KaanCommands, KaanName, KaanCalls, Selecting
    <3>r. KaanRan'
      BY <1>0, <3>f DEF KaanInv, KaanRan
    <3>s. KaanResetting'
      BY <1>0, <3>f DEF KaanInv, KaanResetting, Selecting, KaanFresh
    <3>w. KaanWatch'
      BY <1>0, <3>f DEF KaanInv, KaanWatch, Selecting
    <3> QED
      BY <1>0, <3>f, <3>k, <3>c, <3>r, <3>s, <3>w, KaanGoes DEF Stays
  <2> QED
    BY <1>17, <2>1, <2>2 DEF KaanTransacted
<1>18. CASE KaanVerifies
  <2>1. CASE Fails \/ Returns(TRUE, <<>>)
    BY <1>0, <1>e, <1>18, <2>1, ReturnsEnds DEF KaanVerifies, Fails, KaanInv, KaanKinds
  <2>2. CASE Call("verified", Ct("verify")) /\ Stays
    <3>f. /\ at = "verify" /\ at' = "verified" /\ op.kind = "verify" /\ ran = <<>>
          /\ cmd'.name = "verify" /\ UNCHANGED <<slot, op, told>> /\ dd' = dd /\ reply' = None
      BY <1>0, <1>18, <2>2, KaanNames, KaanKindsAt, KaanRanAt DEF KaanVerifies, Call, Stays, KaanInv
    <3>k. KaanKinds'
      BY <1>0, <3>f DEF KaanKinds, Selecting
    <3>c. KaanCommands'
      BY <1>0, <3>f DEF KaanCommands, KaanName, KaanCalls, Selecting
    <3>r. KaanRan'
      BY <1>0, <3>f DEF KaanInv, KaanRan
    <3>s. KaanResetting'
      BY <1>0, <3>f DEF KaanInv, KaanResetting, Selecting, KaanFresh
    <3>w. KaanWatch'
      BY <1>0, <3>f DEF KaanInv, KaanWatch, Selecting
    <3> QED
      BY <1>0, <3>f, <3>k, <3>c, <3>r, <3>s, <3>w, KaanGoes DEF Stays
  <2> QED
    BY <1>18, <2>1, <2>2 DEF KaanVerifies
<1>19. CASE KaanVerified
  <2>0. op.kind = "verify" /\ slot' = slot
    <3>1. at = "verified" /\ slot' = slot
      BY <1>19 DEF KaanVerified, At
    <3> QED
      BY <1>0, <3>1 DEF KaanInv, KaanKinds, Selecting
  <2>1. Awake(dd) \in KaanData /\ ~Awake(dd).frozen /\ Awake(dd).total = dd.total /\ Awake(dd).res = dd.res
    BY <1>0, KaanAwake
  <2>2. dd' = Awake(dd) \/ dd' = dd
    BY <1>19 DEF KaanVerified
  <2>3. Ends
    BY <1>19, ReturnsEnds DEF KaanVerified, Fails
  <2> QED
    BY <1>0, <2>0, <2>1, <2>2, <2>3, KaanEnds DEF SlotInv
<1>20. CASE KaanReads
  <2>1. PICK c : c = CtFile("read", NextByte, <<Least(op.len, FileMax)>>)
    OBVIOUS
  <2>2. c.name = "read" /\ c.addr = dd.total /\ c.data = <<Least(op.len, FileMax)>>
    BY <2>1 DEF CtFile, Ct, NextByte
  <2>f. /\ at = "read" /\ at' = "reading" /\ op.kind = "read" /\ ran = <<>> /\ UNCHANGED <<slot, op, told>> /\ dd' = dd /\ reply' = None
        /\ cmd'.name = "read" /\ cmd'.addr = dd.total /\ cmd'.data = <<Least(op.len, FileMax)>>
    BY <1>0, <1>20, <2>1, <2>2, KaanNames, KaanKindsAt, KaanRanAt DEF KaanReads, Call, Stays, KaanInv
  <2>k. KaanKinds'
    BY <1>0, <2>f DEF KaanKinds, Selecting
  <2>c. KaanCommands'
    BY <1>0, <2>f DEF KaanCommands, KaanName, KaanCalls, Selecting
  <2>r. KaanRan'
    BY <1>0, <2>f DEF KaanInv, KaanRan
  <2>s. KaanResetting'
    BY <1>0, <2>f DEF KaanInv, KaanResetting, Selecting, KaanFresh
  <2>w. KaanWatch'
    BY <1>0, <2>f DEF KaanInv, KaanWatch, Selecting
  <2> QED
    BY <1>0, <2>f, <2>k, <2>c, <2>r, <2>s, <2>w, KaanGoes DEF Stays
<1>21. CASE KaanHasRead
  <2>0. at = "reading" /\ op.kind = "read" /\ cmd = None /\ reply # None /\ slot' = slot
    BY <1>0, <1>21, KaanKindsAt DEF KaanHasRead, At, KaanInv
  <2>1. /\ ran = <<>> /\ slot.proto = "I2C" /\ dd.total \in Nat /\ dd.res \in Seq(Nat)
        /\ icc # None => dd.total <= Len(icc.mem) /\ dd.res = SubSeq(icc.mem, 1, dd.total)
    BY <1>0, <2>0 DEF KaanInv, KaanRan, KaanMemory
  <2>2. OK => KaanSays(reply.st, reply.data)
    BY <2>0 DEF KaanInv, KaanReply
  <2>3. PICK n : n = Len(reply.data)
    OBVIOUS
  <2>4. CASE /\ dd' = [dd EXCEPT !.total = 0, !.res = <<>>]
             /\ Fails \/ Returns(TRUE, dd.res \o reply.data)
    <3>1. <<>> \in Results
      BY DEF Results
    <3>2. dd' \in KaanData /\ dd'.total = 0 /\ dd'.res = <<>> /\ dd'.frozen = dd.frozen
      <4>1. PICK e : e = [dd EXCEPT !.total = 0]
        OBVIOUS
      <4>2. e \in KaanData /\ e.total = 0 /\ e.frozen = dd.frozen
        BY <1>0, <4>1, KaanTotalSet
      <4>3. dd' = [e EXCEPT !.res = <<>>]
        BY <2>4, <4>1, Zenon
      <4> QED
        BY <3>1, <4>2, <4>3, KaanResSet
    <3> QED
      BY <1>0, <2>0, <2>4, <3>2, ReturnsEnds, KaanEnds DEF Fails, SlotInv
  <2>5. CASE /\ Good /\ Goes("read") /\ Stays
             /\ dd' = [dd EXCEPT !.total = dd.total + n, !.res = dd.res \o reply.data]
    <3>1. /\ reply.data \in Seq(Nat)
          /\ icc # None => reply.data = Chunk(icc.mem)
      BY <2>0, <2>2, <2>5 DEF Good, SW, KaanSays
    <3>2. PICK t, r : t = dd.total + n /\ r = dd.res \o reply.data
      OBVIOUS
    <3>3. t \in Nat /\ r \in Seq(Nat)
      BY <2>1, <2>3, <3>1, <3>2, ConcatProperties
    <3>4. dd' \in KaanData /\ dd'.total = t /\ dd'.res = r /\ dd'.frozen = dd.frozen
      <4>1. PICK e : e = [dd EXCEPT !.total = t]
        OBVIOUS
      <4>2. e \in KaanData /\ e.total = t /\ e.frozen = dd.frozen
        BY <1>0, <3>3, <4>1, KaanTotalSet
      <4>3. dd' = [e EXCEPT !.res = r]
        BY <2>5, <3>2, <4>1, Zenon
      <4>4. r \in Results
        BY <3>3 DEF Results
      <4> QED
        BY <4>2, <4>3, <4>4, KaanResSet
    <3>5. icc # None => t <= Len(icc.mem) /\ r = SubSeq(icc.mem, 1, t)
      <4>1. SUFFICES ASSUME icc # None PROVE t <= Len(icc.mem) /\ r = SubSeq(icc.mem, 1, t)
        OBVIOUS
      <4>2. icc.mem \in Seq(Nat)
        BY <4>1 DEF IccInv, IccType
      <4>3. op.len \in Nat
        BY <1>0, <2>0 DEF Operations
      <4>4. PICK e : e = Least(Len(icc.mem), dd.total + Least(op.len, FileMax))
        OBVIOUS
      <4>5. reply.data = SubSeq(icc.mem, dd.total + 1, e)
        BY <3>1, <4>1, <4>4 DEF Chunk
      <4>6. /\ e \in dd.total .. Len(icc.mem) /\ Len(reply.data) = e - dd.total
            /\ SubSeq(icc.mem, 1, dd.total) \o reply.data = SubSeq(icc.mem, 1, e)
        <5>1. dd.total <= Len(icc.mem)
          BY <2>1, <4>1
        <5>2. /\ e \in dd.total .. Len(icc.mem)
              /\ Len(SubSeq(icc.mem, dd.total + 1, e)) = e - dd.total
              /\ SubSeq(icc.mem, 1, dd.total) \o SubSeq(icc.mem, dd.total + 1, e) = SubSeq(icc.mem, 1, e)
          <6>1. dd.total \in Nat
            BY <2>1
          <6> HIDE DEF Least
          <6> QED
            BY <4>2, <4>3, <4>4, <5>1, <6>1, ChunkJoins
        <5> QED
          BY <4>5, <5>2
      <4>7. t = e
        BY <2>1, <2>3, <3>2, <4>6
      <4>8. e <= Len(icc.mem)
        BY <4>6
      <4> QED
        BY <2>1, <3>2, <4>1, <4>6, <4>7, <4>8, Zenon
    <3>6. at' = "read" /\ UNCHANGED <<slot, op, told, cmd, reply>>
      BY <2>0, <2>5 DEF Goes, Stays
    <3>k. KaanKinds'
      BY <1>0, <2>0, <2>1, <3>3, <3>4, <3>5, <3>6 DEF KaanKinds, Selecting
    <3>c. KaanCommands'
      BY <1>0, <2>0, <2>1, <3>3, <3>4, <3>5, <3>6 DEF KaanCommands, KaanName, KaanCalls, Selecting
    <3>r. KaanRan'
      BY <1>0, <2>0, <2>1, <3>3, <3>4, <3>5, <3>6 DEF KaanInv, KaanRan
    <3>s. KaanResetting'
      BY <1>0, <2>0, <2>1, <3>3, <3>4, <3>5, <3>6 DEF KaanInv, KaanResetting, Selecting, KaanFresh
    <3>w. KaanWatch'
      BY <1>0, <2>0, <2>1, <3>3, <3>4, <3>5, <3>6 DEF KaanInv, KaanWatch, Selecting
    <3>p. KaanReply'
      BY <1>0, <2>0, <2>1, <3>3, <3>4, <3>5, <3>6 DEF KaanInv, KaanReply, KaanSays, OK
    <3>t. KaanStates'
      BY <1>0, <2>0, <2>1, <3>3, <3>4, <3>5, <3>6 DEF KaanInv, KaanStates
    <3>m. KaanMemory'
      BY <1>0, <2>0, <2>1, <3>3, <3>4, <3>5, <3>6 DEF KaanInv, KaanMemory
    <3> QED
      BY <1>0, <2>0, <2>1, <3>3, <3>4, <3>5, <3>6, <3>k, <3>c, <3>r, <3>s, <3>w, <3>p, <3>t, <3>m DEF KaanInv, SlotInv, Stays, MemoryReaders
  <2> QED
    BY <1>21, <2>3, <2>4, <2>5 DEF KaanHasRead
<1>22. CASE KaanWrites
  <2>1. PICK c : c = CtFile("update", 0, [i \in 1 .. Least(op.len, FileMax) |-> op.id])
    OBVIOUS
  <2>2. c.name = "update" /\ c.addr = 0 /\ c.data = [i \in 1 .. Least(op.len, FileMax) |-> op.id]
    BY <2>1 DEF CtFile, Ct
  <2>f. /\ at = "write" /\ at' = "written" /\ op.kind = "write" /\ ran = <<>> /\ UNCHANGED <<slot, op, told>> /\ dd' = dd /\ reply' = None
        /\ cmd'.name = "update" /\ cmd'.addr = 0 /\ cmd'.data = [i \in 1 .. Least(op.len, FileMax) |-> op.id]
    BY <1>0, <1>22, <2>1, <2>2, KaanNames, KaanKindsAt, KaanRanAt DEF KaanWrites, Call, Stays, KaanInv
  <2>k. KaanKinds'
    BY <1>0, <2>f DEF KaanKinds, Selecting
  <2>c. KaanCommands'
    BY <1>0, <2>f DEF KaanCommands, KaanName, KaanCalls, Selecting
  <2>r. KaanRan'
    BY <1>0, <2>f DEF KaanInv, KaanRan
  <2>s. KaanResetting'
    BY <1>0, <2>f DEF KaanInv, KaanResetting, Selecting, KaanFresh
  <2>w. KaanWatch'
    BY <1>0, <2>f DEF KaanInv, KaanWatch, Selecting
  <2> QED
    BY <1>0, <2>f, <2>k, <2>c, <2>r, <2>s, <2>w, KaanGoes DEF Stays
<1>23. CASE KaanHasWritten
  BY <1>0, <1>e, <1>23, ReturnsEnds DEF KaanHasWritten, Fails, At, KaanInv, KaanKinds
<1> QED
  BY <1>1, <1>2, <1>3, <1>4, <1>5, <1>6, <1>7, <1>8, <1>9, <1>10, <1>11, <1>12, <1>13, <1>14, <1>15, <1>16, <1>17, <1>18, <1>19, <1>20, <1>21, <1>22, <1>23 DEF KaanDriver

\* Which step is taken where.
LEMMA KaanActs ==
    ASSUME op # None, KaanKinds, KaanDriver
    PROVE  /\ op.kind = "transact" => KaanTransact \/ KaanTransacted
           /\ op.kind = "verify" => KaanVerifies \/ KaanVerified
           /\ op.kind = "read" => KaanReads \/ KaanHasRead
           /\ op.kind = "write" => KaanWrites \/ KaanHasWritten
           /\ op.kind = "reset" =>
                \/ KaanResetsCard \/ KaanHasReset \/ KaanSelectsFile \/ KaanSyncCard
                \/ KaanSelectsApp \/ KaanSelects \/ KaanSelected
           /\ op.kind = "poll" =>
                \/ KaanFreezes \/ KaanFrozen \/ KaanQuiet \/ KaanPolls \/ KaanSelectsFile \/ KaanPolled
<1>1. KaanOpens => at = "open"
  BY DEF KaanOpens, At
<1>2. KaanResets => at \in {"resync", "reset_ct", "reset_ct_old"}
  BY DEF KaanResets, At
<1>3. KaanUnits => at = "units"
  BY DEF KaanUnits, At
<1>4. KaanSelectsFile => at \in {"select_mf", "select_df", "select_ef"}
  BY DEF KaanSelectsFile, At, AfterFile
<1>5. KaanFreezes => at = "poll"
  BY DEF KaanFreezes, At
<1>6. KaanFrozen => at = "frozen"
  BY DEF KaanFrozen, At
<1>7. KaanQuiet => at = "poll"
  BY DEF KaanQuiet, At
<1>8. KaanPolls => at = "poll"
  BY DEF KaanPolls, At
<1>9. KaanPolled => at = "status" \/ (at = "read_ef" /\ dd.then = "read_status")
  BY DEF KaanPolled, At
<1>10. KaanResetsCard => at = "reset"
  BY DEF KaanResetsCard, At
<1>11. KaanHasReset => at = "card_reset"
  BY DEF KaanHasReset, At
<1>12. KaanSyncCard => at = "read_ef" /\ dd.then = "read_proto"
  BY DEF KaanSyncCard, At
<1>13. KaanSelectsApp => at = "select_app"
  BY DEF KaanSelectsApp, At
<1>14. KaanSelects => at \in {"set_protocol", "select"}
  BY DEF KaanSelects, At
<1>15. KaanSelected => at = "protocol_set"
  BY DEF KaanSelected, At
<1>16. KaanTransact => at = "transact"
  BY DEF KaanTransact, At
<1>17. KaanTransacted => at \in {"apdu", "get_response"}
  BY DEF KaanTransacted, At
<1>18. KaanVerifies => at = "verify"
  BY DEF KaanVerifies, At
<1>19. KaanVerified => at = "verified"
  BY DEF KaanVerified, At
<1>20. KaanReads => at = "read"
  BY DEF KaanReads, At
<1>21. KaanHasRead => at = "reading"
  BY DEF KaanHasRead, At
<1>22. KaanWrites => at = "write"
  BY DEF KaanWrites, At
<1>23. KaanHasWritten => at = "written"
  BY DEF KaanHasWritten, At
<1>24. at \in Selecting => op.kind \in {"poll", "reset"} /\ (dd.then = "read_status" <=> op.kind = "poll")
  BY DEF KaanKinds, Selecting
<1> QED
  BY KaanKindsAt, <1>1, <1>2, <1>3, <1>4, <1>5, <1>6, <1>7, <1>8, <1>9, <1>10, <1>11, <1>12, <1>13, <1>14, <1>15, <1>16, <1>17, <1>18, <1>19, <1>20, <1>21, <1>22, <1>23, <1>24 DEF KaanDriver, Selecting

\* What a read returns is the beginning of what the card holds.
LEMMA PrefixRead ==
    ASSUME NEW m \in Seq(Nat), NEW k \in 0 .. Len(m), NEW l \in Nat, NEW d, d = SubSeq(m, 1, k)
    PROVE  IsPrefix(SubSeq(d, 1, Least(Len(d), l)), m)
<1> DEFINE n == Least(Len(d), l)
           s == SubSeq(d, 1, n)
<1>1. \A i \in 1 .. k : m[i] \in Nat
  OBVIOUS
<1>2. d \in Seq(Nat) /\ Len(d) = k /\ \A i \in 1 .. k : d[i] = m[i]
  BY <1>1, SubSeqProperties
<1>3. n \in 0 .. k
  BY <1>2 DEF Least
<1> HIDE DEF n
<1>4. \A i \in 1 .. n : d[i] \in Nat /\ m[i] \in Nat
  BY <1>1, <1>2, <1>3
<1>5. s \in Seq(Nat) /\ Len(s) = n /\ \A i \in 1 .. n : s[i] = m[i]
  BY <1>2, <1>3, <1>4, SubSeqProperties
<1> HIDE DEF s
<1>6. \A i \in 1 .. n : s[i] \in Nat
  BY <1>5
<1>7. /\ SubSeq(s, 1, n) \in Seq(Nat) /\ Len(SubSeq(s, 1, n)) = n
      /\ \A i \in 1 .. n : SubSeq(s, 1, n)[i] = s[i]
  BY <1>3, <1>6, SubSeqProperties
<1>8. /\ SubSeq(m, 1, n) \in Seq(Nat) /\ Len(SubSeq(m, 1, n)) = n
      /\ \A i \in 1 .. n : SubSeq(m, 1, n)[i] = m[i]
  BY <1>3, <1>4, SubSeqProperties
<1>9. SubSeq(s, 1, n) = SubSeq(m, 1, n)
  <2>1. \A i \in 1 .. n : SubSeq(s, 1, n)[i] = SubSeq(m, 1, n)[i]
    BY <1>5, <1>7, <1>8
  <2> QED
    BY <1>7, <1>8, <2>1, SeqEqual
<1>10. Len(s) <= Len(m)
  BY <1>3, <1>5
<1>11. IsPrefix(s, m)
  BY <1>5, <1>9, <1>10 DEF IsPrefix
<1> QED
  BY <1>11 DEF s, n

LEMMA KaanDriverPromises ==
    ASSUME OpInv, IccInv, driver = "kaan", KaanInv, KaanDriver
    PROVE  OpInv' /\ IccInv' /\ Promises'
<1>1. /\ op # None /\ cmd = None /\ op \in Operations /\ dd \in KaanData
      /\ UNCHANGED <<driver, icc, ran, rdr, late, faults, work>>
      /\ Serves(op.kind) /\ (icc # None => op.card = icc.card)
  BY KaanDriverQuiet DEF OpInv, KaanStates
<1>2. KaanInv' /\ SlotInv' /\ (Ends \/ (Stays /\ at' # "idle"))
  BY KaanDriverStep
<1>3. OpInv' /\ IccInv'
  BY <1>1, <1>2, CommonEnds, CommonStays
<1>4. RunsOnce'
  BY <1>1, <1>2, RanOnce DEF KaanInv, KaanRan
<1>5. CASE op' # None
  BY <1>3, <1>4, <1>5, PromisesUnderWay
<1>6. CASE op' = None
  <2>0. KaanKinds /\ KaanStates /\ KaanResetting /\ KaanWatch
    BY <1>1 DEF KaanInv
  <2>1. /\ Ends /\ told'.op = op /\ told'.in = (icc # None)
        /\ ~Stays /\ ~(\E c : Call(at', c) /\ Stays)
    BY <1>1, <1>2, <1>6 DEF Ends, Stays
  <2>2. reply # None => /\ OK => KaanSays(reply.st, reply.data)
                        /\ faults = 0 => OK
    BY <1>1 DEF KaanInv, KaanReply
  <2>3. AnswersOwn'
    <3>1. ASSUME op.kind = "transact", told'.ok
          PROVE  told'.data \in {AnswerTo(op), Refusal(op)} /\ (told'.data = AnswerTo(op) => ran' # <<>>)
      <4>1. KaanTransact \/ KaanTransacted
        BY <1>1, <2>0, <3>1, KaanActs
      <4>2. ~KaanTransact
        BY <2>1, <3>1 DEF KaanTransact, Fails, Returns
      <4>3. /\ at \in {"apdu", "get_response"} /\ reply # None /\ ~Asks /\ OK
            /\ told'.data = reply.data
        BY <2>1, <3>1, <4>1, <4>2 DEF KaanTransacted, At, Fails, Returns
      <4>4. KaanSays(reply.st, reply.data)
        BY <2>2, <4>3
      <4>5. CASE at = "apdu"
        BY <1>1, <4>3, <4>4, <4>5 DEF KaanSays, Asks, SW
      <4>6. CASE at = "get_response"
        BY <1>1, <4>3, <4>4, <4>6 DEF KaanSays, KaanInv, KaanRan
      <4> QED
        BY <4>3, <4>5, <4>6
    <3>2. ASSUME op.kind = "verify"
          PROVE  /\ told'.data = <<"9000">> => ran' = <<Pin("right")>>
                 /\ told'.data = <<"wrong">> => ran' = <<Pin("wrong")>>
                 /\ told'.data \in {<<"cancel">>, <<"timeout">>} => ran' = <<>>
      <4>1. KaanVerifies \/ KaanVerified
        BY <1>1, <2>0, <3>2, KaanActs
      <4>2. CASE KaanVerifies
        BY <2>1, <4>2 DEF KaanVerifies, Fails, Returns
      <4>3. CASE KaanVerified
        <5>1. at = "verified" /\ reply # None
          BY <4>3 DEF KaanVerified, At
        <5>2. CASE ~OK
          BY <4>3, <5>2 DEF KaanVerified, SW, Fails, Returns
        <5>3. CASE OK
          <6>1. PICK a \in PinAnswers("6402") : reply.st = a.st /\ ran = IF a.run THEN <<a.pin>> ELSE <<>>
            BY <2>2, <5>1, <5>3 DEF KaanSays
          <6>2. \/ reply.st = "9000" /\ ran = <<Pin("right")>>
                \/ reply.st = "6402" /\ ran = <<Pin("wrong")>>
                \/ reply.st \in {"6400", "6401"} /\ ran = <<>>
            BY <6>1, PinOutcomes
          <6>3. /\ reply.st = "6400" => told'.data = <<"timeout">>
                /\ reply.st = "6401" => told'.data = <<"cancel">>
                /\ reply.st = "6402" => told'.data = <<"wrong">>
                /\ reply.st = "9000" => told'.data = <<"9000">>
            BY <4>3, <5>3 DEF KaanVerified, SW, Returns
          <6> QED
            BY <1>1, <6>2, <6>3
        <5> QED
          BY <5>2, <5>3
      <4> QED
        BY <4>1, <4>2, <4>3
    <3> QED
      BY <2>1, <3>1, <3>2 DEF AnswersOwn, Told, Pin
  <2>4. ASSUME op.kind = "reset"
        PROVE  /\ told'.ok => slot'.atr = op.card
               /\ ~told'.ok /\ faults = 0 => icc = None
               /\ told'.ok /\ slot'.proto # None /\ icc # None => dd'.proto = icc.proto
    <3>1. \/ KaanHasReset \/ KaanSelectsFile \/ KaanSyncCard
          \/ KaanSelectsApp \/ KaanSelected
      BY <1>1, <1>6, <2>0, <2>4, KaanActs DEF KaanResetsCard, KaanSelects, Stays
    <3>2. CASE KaanHasReset
      <4>1. at = "card_reset" /\ reply # None /\ Fails /\ ~SW("9001") /\ ~SW("9000")
        BY <1>1, <1>6, <3>2 DEF KaanHasReset, At, HasAtr, Stays
      <4>2. told'.ok = FALSE
        BY <4>1 DEF Fails, Returns
      <4>3. faults = 0 => icc = None
        BY <2>2, <4>1 DEF KaanSays, SW
      <4> QED
        BY <4>2, <4>3
    <3>3. CASE KaanSelectsFile
      <4>1. at \in {"select_mf", "select_df", "select_ef"} /\ reply # None /\ ~Good /\ Fails
        BY <1>1, <1>6, <3>3 DEF KaanSelectsFile, AfterFile, At, Stays
      <4>2. told'.ok = FALSE
        BY <4>1 DEF Fails, Returns
      <4>3. faults # 0
        BY <2>2, <4>1 DEF KaanSays, Good, SW
      <4> QED
        BY <4>2, <4>3
    <3>4. CASE KaanSyncCard
      <4>1. at = "read_ef" /\ dd.then = "read_proto" /\ reply # None
        BY <3>4 DEF KaanSyncCard, At
      <4>2. dd.res = <<op.card>> /\ op.card \in Cards /\ IsSync(op.card) /\ KaanFresh
        BY <1>1, <2>0, <2>4, <4>1 DEF KaanResetting, Selecting
      <4>3. CASE Good
        <5>1. /\ slot' = [slot EXCEPT !.atr = Head(dd.res), !.proto = Head(reply.data)]
              /\ dd' = [dd EXCEPT !.proto = Head(reply.data), !.res = <<>>]
              /\ Returns(TRUE, <<>>)
          BY <1>1, <1>6, <3>4, <4>3 DEF KaanSyncCard, Stays
        <5>2. Head(reply.data) = "I2C" /\ Head(dd.res) = op.card
          BY <2>2, <4>1, <4>2, <4>3 DEF Good, SW, KaanSays
        <5>3. slot'.atr = op.card
          BY <5>1, <5>2 DEF OpInv, SlotInv, SlotType
        <5>4. dd'.proto = "I2C"
          BY <1>1, <5>1, <5>2 DEF KaanData
        <5>5. icc # None => icc.proto = "I2C"
          BY <1>1, <4>2 DEF KaanFresh, IsSync
        <5>6. told'.ok
          BY <5>1 DEF Returns
        <5> QED
          BY <5>3, <5>4, <5>5, <5>6
      <4>4. CASE ~Good
        <5>1. told'.ok = FALSE
          BY <3>4, <4>4 DEF KaanSyncCard, Fails, Returns
        <5>2. faults = 0 => icc = None
          BY <2>2, <4>1, <4>4 DEF KaanSays, Good, SW
        <5> QED
          BY <5>1, <5>2
      <4> QED
        BY <4>3, <4>4
    <3>5. CASE KaanSelectsApp
      <4>1. at = "select_app" /\ told'.ok = TRUE /\ slot' = slot /\ dd' = dd
        BY <3>5 DEF KaanSelectsApp, At, Returns
      <4> QED
        BY <1>1, <2>0, <2>4, <4>1 DEF KaanResetting
    <3>6. CASE KaanSelected
      <4>0. at = "protocol_set" /\ reply # None /\ (Returns(TRUE, <<>>) \/ Returns(op.kind = "reset", <<>>))
        BY <3>6 DEF KaanSelected, At, SelectFails
      <4>1. at = "protocol_set" /\ reply # None /\ told'.ok
        BY <2>4, <4>0, ReturnsEnds, Zenon
      <4>2. slot.atr = op.card /\ op.card \in Cards /\ slot.proto = None
        BY <1>1, <2>0, <2>4, <4>1 DEF KaanResetting
      <4>3. CASE Good \/ SW("6985")
        <5>1. slot' = [slot EXCEPT !.proto = "transparent"] /\ dd' = [Awake(dd) EXCEPT !.proto = Wanted]
          BY <3>6, <4>3 DEF KaanSelected
        <5>2. slot'.atr = op.card
          BY <4>2, <5>1 DEF OpInv, SlotInv, SlotType
        <5>3. dd'.proto = Wanted
          BY <1>1, <5>1, KaanAwake DEF KaanData
        <5>4. icc # None => icc.proto = Wanted
          BY <1>1, <2>2, <2>4, <4>1, <4>3 DEF KaanSays, Good, SW
        <5> QED
          BY <4>1, <5>2, <5>3, <5>4
      <4>4. CASE slot' = slot
        BY <4>1, <4>2, <4>4
      <4> QED
        BY <3>6, <4>3, <4>4 DEF KaanSelected
    <3> QED
      BY <3>1, <3>2, <3>3, <3>4, <3>5, <3>6
  <2>5. ResetTrue'
    BY <1>1, <2>1, <2>4 DEF ResetTrue
  <2>6. ProtocolAgreed'
    BY <1>1, <2>1, <2>4 DEF ProtocolAgreed, Told, Agreed
  <2>7. StatusTrue'
    <3>1. ASSUME op.kind = "poll", told'.ok
          PROVE  \/ (slot'.status # "absent") \in {icc # None, op.card # None}
                 \/ dd'.frozen /\ ~rdr.frozen
      <4>1. KaanFrozen \/ KaanQuiet \/ KaanSelectsFile \/ KaanPolled
        BY <1>1, <1>6, <2>0, <3>1, KaanActs DEF KaanFreezes, KaanPolls, Stays
      <4>2. ~KaanFrozen
        BY <1>1, <1>6, <3>1 DEF KaanFrozen, Fails, Returns, Goes, Stays
      <4>3. ~KaanSelectsFile
        BY <1>1, <1>6, <3>1 DEF KaanSelectsFile, Fails, Returns, Stays
      <4>4. CASE KaanQuiet
        <5>1. dd.frozen /\ ~Dsr /\ slot' = slot /\ dd' = dd
          BY <4>4 DEF KaanQuiet
        <5>2. rdr.known = (slot.status # "absent")
          BY <2>0, <5>1 DEF KaanWatch
        <5>3. rdr.frozen => (icc # None) = rdr.known
          BY <5>1, Zenon DEF Dsr
        <5> QED
          BY <5>1, <5>2, <5>3, Zenon
      <4>5. CASE KaanPolled
        <5>1. /\ Good /\ HasStatus(Head(reply.data), FALSE) /\ reply # None
              /\ at = "status" \/ (at = "read_ef" /\ dd.then = "read_status")
          <6>1. ~Fails
            BY <3>1 DEF Fails, Returns
          <6> QED
            BY <4>5, <6>1 DEF KaanPolled, At
        <5>2. \/ Head(reply.data) = "present" /\ op.card # None
              \/ Head(reply.data) = "absent" /\ icc = None
          BY <2>2, <5>1 DEF Good, SW, KaanSays
        <5>3. slot'.status = Head(reply.data)
          <6>1. PICK st : st = Head(reply.data)
            OBVIOUS
          <6>2. st \in Statuses /\ SlotInv
            BY <5>2, <6>1 DEF Statuses, OpInv
          <6> QED
            BY <5>1, <6>1, <6>2, StatusBecomes
        <5>4. \/ slot'.status # "absent" /\ op.card # None
              \/ slot'.status = "absent" /\ icc = None
          BY <5>2, <5>3
        <5> QED
          BY <5>4, Zenon
      <4> QED
        BY <4>1, <4>2, <4>3, <4>4, <4>5
    <3>2. op.kind # "status"
      BY <1>1, <2>0 DEF KaanKinds
    <3> QED
      BY <1>1, <2>1, <3>1, <3>2, Zenon DEF StatusTrue, Told, Unwatched
  <2>8. MemoryKept'
    <3>1. ASSUME op.kind = "write", told'.ok, icc # None, op.len <= FileMax
          PROVE  \A i \in DOMAIN icc.mem \cap 1 .. op.len : icc.mem[i] = op.id
      <4>1. KaanHasWritten
        BY <1>1, <1>6, <2>0, <3>1, KaanActs DEF KaanWrites, Stays
      <4>2. at = "written" /\ reply # None /\ Good
        BY <3>1, <4>1 DEF KaanHasWritten, At, Fails, Returns
      <4>3. op.len \in Nat
        BY <1>1, <3>1 DEF Operations
      <4>4. Least(op.len, FileMax) = op.len
        BY <3>1, <4>3, KaanAssumption DEF Least
      <4> QED
        BY <2>2, <3>1, <4>2, <4>4 DEF Good, SW, KaanSays
    <3>2. ASSUME op.kind = "read", told'.ok, icc # None
          PROVE  IsPrefix(SubSeq(told'.data, 1, Least(Len(told'.data), op.len)), icc.mem)
      <4>1. KaanHasRead
        BY <1>1, <1>6, <2>0, <3>2, KaanActs DEF KaanReads, Stays
      <4>2. /\ at = "reading" /\ reply # None /\ (Good \/ SW("6282") \/ SW("6b00"))
            /\ told'.data = dd.res \o reply.data
        <5>1. ~Fails /\ ~Stays
          BY <1>1, <1>6, <3>2 DEF Fails, Returns, Stays
        <5>2. Good \/ SW("6282") \/ SW("6b00")
          BY <4>1, <5>1 DEF KaanHasRead
        <5>3. Returns(TRUE, dd.res \o reply.data)
          BY <4>1, <5>1 DEF KaanHasRead
        <5> QED
          BY <4>1, <5>2, <5>3 DEF KaanHasRead, At, Returns
      <4>3. reply.data = Chunk(icc.mem)
        BY <2>2, <3>2, <4>2 DEF Good, SW, KaanSays
      <4>4. dd.total \in Nat /\ dd.total <= Len(icc.mem) /\ dd.res = SubSeq(icc.mem, 1, dd.total)
        BY <1>1, <3>2 DEF KaanInv, KaanMemory
      <4>5. icc.mem \in Seq(Nat) /\ op.len \in Nat
        BY <1>1, <3>2 DEF IccInv, IccType, Operations
      <4>6. PICK e : e = Least(Len(icc.mem), dd.total + Least(op.len, FileMax))
        OBVIOUS
      <4>7. /\ e \in dd.total .. Len(icc.mem)
            /\ SubSeq(icc.mem, 1, dd.total) \o SubSeq(icc.mem, dd.total + 1, e) = SubSeq(icc.mem, 1, e)
        BY <4>4, <4>5, <4>6, ChunkJoins
      <4>8. told'.data = SubSeq(icc.mem, 1, e)
        BY <4>2, <4>3, <4>4, <4>6, <4>7 DEF Chunk
      <4>9. e \in 0 .. Len(icc.mem)
        BY <4>4, <4>7
      <4> QED
        BY <4>5, <4>8, <4>9, PrefixRead
    <3> QED
      BY <1>1, <2>1, <3>1, <3>2 DEF MemoryKept, Told
  <2> QED
    BY <1>3, <1>4, <2>3, <2>5, <2>6, <2>7, <2>8 DEF Promises
<1> QED
  BY <1>3, <1>5, <1>6

\* What an exchange leaves true.
LEMMA KaanExchanged ==
    ASSUME OpInv, IccInv, driver = "kaan", KaanInv, cmd # None,
           UNCHANGED <<driver, opvars, late, work>>,
           rdr' \in [frozen : BOOLEAN, known : BOOLEAN, old : BOOLEAN, keypad : BOOLEAN],
           at # "frozen" => rdr'.known = rdr.known,
           NEW st, NEW data,
           \/ TerminalAnswers(st, data) /\ Len(data) \in Nat /\ KaanSays(st, data)'
           \/ Fault /\ cmd' = None /\ reply' = [rc |-> -1, st |-> None, data |-> <<>>],
           at \notin {"apdu", "verified"} => ran' = ran,
           op.kind = "transact" => ran' \in {<<>>, <<Bytes(op)>>},
           icc' # None => icc # None /\ icc' \in IccType /\ icc'.card = icc.card,
           at \notin {"card_reset", "protocol_set", "apdu", "written"} => icc' = icc
    PROVE  KaanInv' /\ OpInv' /\ IccInv' /\ op' # None /\ Promises'
<1>1. op # None /\ UNCHANGED <<slot, dd, op, at, told>> /\ faults \in Nat
  BY DEF OpInv, opvars
<1>2. /\ cmd' = None /\ faults' \in Nat
      /\ \/ reply'.rc = Len(data) /\ reply'.st = st /\ reply'.data = data /\ Len(data) \in Nat
            /\ KaanSays(st, data)'
         \/ reply'.rc = -1 /\ faults' # 0
  <2>1. CASE reply' = [rc |-> -1, st |-> None, data |-> <<>>] /\ Fault /\ cmd' = None
    BY <1>1, <2>1 DEF Fault
  <2>2. CASE reply' = [rc |-> Len(data), st |-> st, data |-> data] /\ faults' = faults /\ cmd' = None
             /\ Len(data) \in Nat /\ KaanSays(st, data)'
    BY <1>1, <2>2
  <2> QED
    BY <2>1, <2>2 DEF TerminalAnswers
<1>3. OpInv' /\ IccInv'
  BY <1>1, <1>2, CommonReader
<1>4. KaanStates' /\ KaanKinds' /\ KaanCommands'
  BY <1>1, <1>2 DEF KaanInv, KaanStates, KaanKinds, KaanCommands
<1>5. KaanReply'
  BY <1>2 DEF KaanReply, OK
<1>6. KaanRan'
  BY <1>1, <1>2 DEF KaanInv, KaanRan
<1>7. KaanResetting'
  BY <1>1, <1>2 DEF KaanInv, KaanResetting, KaanFresh, Selecting, KaanCommands, KaanCalls
<1>8. KaanWatch'
  BY <1>1 DEF KaanInv, KaanWatch
<1>9. KaanMemory'
  BY <1>1 DEF KaanInv, KaanMemory, KaanKinds
<1>10. Promises'
  BY <1>1, <1>6, RanOnce, PromisesUnderWay DEF KaanRan
<1> QED
  BY <1>1, <1>3, <1>4, <1>5, <1>6, <1>7, <1>8, <1>9, <1>10 DEF KaanInv

LEMMA KaanCommandNames ==
    ASSUME op # None, cmd # None, KaanCommands, KaanKinds
    PROVE  /\ cmd.name = "freeze" <=> at = "frozen"
           /\ cmd.name = "reset_icc" <=> at = "card_reset"
           /\ cmd.name = "set_proto" <=> at = "protocol_set"
           /\ cmd.name = "apdu" <=> at = "apdu"
           /\ cmd.name = "get_response" <=> at = "get_response"
           /\ cmd.name = "read" <=> at = "reading"
           /\ cmd.name = "update" <=> at = "written"
           /\ cmd.name = "verify" <=> at = "verified"
           /\ cmd.name = "read_proto" <=> (at = "read_ef" /\ dd.then = "read_proto")
           /\ cmd.name = "read_status" <=> (at = "status" \/ (at = "read_ef" /\ dd.then = "read_status"))
           /\ cmd.name = "select_file" <=> at \in {"select_mf", "select_df", "select_ef", "select_app"}
<1>1. at \in KaanCalls /\ cmd.name = KaanName
  BY DEF KaanCommands
<1>2. at = "read_ef" => dd.then \in {"read_status", "read_proto"}
  BY DEF KaanKinds, Selecting
<1> QED
  BY <1>1, <1>2 DEF KaanName, KaanCalls, Selecting

LEMMA KaanTerminalStep ==
    ASSUME OpInv, IccInv, driver = "kaan", KaanInv, Terminal
    PROVE  KaanInv' /\ OpInv' /\ IccInv' /\ op' # None /\ Promises'
<1>1. /\ op # None /\ cmd # None /\ op \in Operations
      /\ UNCHANGED <<driver, opvars, late, work, slot, dd, op, at, told>>
      /\ icc # None => op.card = icc.card /\ icc \in IccType
  BY DEF Terminal, OpInv, IccInv, opvars
<1>2. /\ KaanStates /\ KaanCommands /\ KaanKinds /\ KaanRan /\ KaanResetting /\ KaanWatch
      /\ op.kind = "transact" => ran \in {<<>>, <<Bytes(op)>>}
  BY <1>1 DEF KaanInv, KaanRan
<1>3. /\ rdr \in [frozen : BOOLEAN, known : BOOLEAN, old : BOOLEAN, keypad : BOOLEAN]
      /\ Wakes => /\ rdr' \in [frozen : BOOLEAN, known : BOOLEAN, old : BOOLEAN, keypad : BOOLEAN]
                  /\ rdr'.known = rdr.known
  BY <1>2 DEF KaanStates, Wakes
<1>4. /\ cmd.name = "freeze" <=> at = "frozen"
      /\ cmd.name = "reset_icc" <=> at = "card_reset"
      /\ cmd.name = "set_proto" <=> at = "protocol_set"
      /\ cmd.name = "apdu" <=> at = "apdu"
      /\ cmd.name = "get_response" <=> at = "get_response"
      /\ cmd.name = "read" <=> at = "reading"
      /\ cmd.name = "update" <=> at = "written"
      /\ cmd.name = "verify" <=> at = "verified"
      /\ cmd.name = "read_proto" <=> (at = "read_ef" /\ dd.then = "read_proto")
      /\ cmd.name = "read_status" <=> (at = "status" \/ (at = "read_ef" /\ dd.then = "read_status"))
      /\ cmd.name = "select_file" <=> at \in {"select_mf", "select_df", "select_ef", "select_app"}
  BY <1>1, <1>2, KaanCommandNames
<1>5. \A x : Len(<<x>>) \in Nat /\ Head(<<x>>) = x
  OBVIOUS
<1>6. Len(<<>>) \in Nat
  OBVIOUS
<1>7. CASE NeverCame
  <2>1. /\ Fault /\ cmd' = None /\ reply' = [rc |-> -1, st |-> None, data |-> <<>>]
        /\ UNCHANGED <<rdr, icc, ran>>
    BY <1>7 DEF NeverCame
  <2> QED
    BY <1>1, <1>2, <1>3, <2>1, KaanExchanged
<1>8. CASE Keeping
  <2>1. /\ UNCHANGED <<icc, ran>> /\ (rdr' = rdr \/ Wakes)
        /\ at \notin {"frozen", "card_reset", "protocol_set", "apdu", "get_response", "reading", "written", "verified"}
        /\ ~(at = "read_ef" /\ dd.then = "read_proto")
    BY <1>4, <1>8 DEF Keeping
  <2>2. /\ rdr' \in [frozen : BOOLEAN, known : BOOLEAN, old : BOOLEAN, keypad : BOOLEAN]
        /\ rdr'.known = rdr.known
    BY <1>3, <2>1
  <2>3. CASE cmd.name = "read_status"
    <3>1. PICK x : x = IF icc = None THEN "absent" ELSE "present"
      OBVIOUS
    <3>2. TerminalAnswers("9000", <<x>>)
      BY <1>8, <2>3, <3>1 DEF Keeping
    <3>3. at = "status" \/ at = "read_ef"
      BY <1>4, <2>3
    <3>4. \/ x = "present" /\ op.card # None
          \/ x = "absent" /\ icc' = None
      <4>1. CASE icc = None
        BY <2>1, <3>1, <4>1
      <4>2. CASE icc # None
        <5>1. op.card = icc.card /\ icc.card \in Cards
          BY <1>1, <4>2 DEF IccType
        <5>2. op.card # None
          BY <5>1, DriverAssumption
        <5> QED
          BY <3>1, <4>2, <5>2
      <4> QED
        BY <4>1, <4>2
    <3>5. KaanSays("9000", <<x>>)'
      BY <1>1, <2>1, <3>3, <3>4 DEF KaanSays
    <3> QED
      BY <1>1, <1>2, <1>5, <2>1, <2>2, <3>2, <3>5, KaanExchanged
  <2>4. CASE cmd.name # "read_status"
    <3>1. PICK st : TerminalAnswers(st, <<>>) /\ (at \in {"select_mf", "select_df", "select_ef", "select_app"} => st = "9000")
      BY <1>4, <1>8, <2>4 DEF Keeping
    <3>2. at # "status" /\ at # "read_ef"
      <4>1. cmd.name = KaanName /\ at \in KaanCalls
        BY <1>1, <1>2 DEF KaanCommands
      <4>2. at = "read_ef" => dd.then \in {"read_status", "read_proto"}
        BY <1>1, <1>2 DEF KaanKinds, Selecting
      <4> QED
        BY <1>4, <2>1, <2>4, <4>2
    <3>3. KaanSays(st, <<>>)'
      BY <1>1, <2>1, <3>1, <3>2 DEF KaanSays
    <3> QED
      BY <1>1, <1>2, <1>6, <2>1, <2>2, <3>1, <3>3, KaanExchanged
  <2> QED
    BY <2>3, <2>4
<1>9. CASE Freezes
  <2>1. at = "frozen" /\ cmd.data = <<slot.status # "absent">> /\ UNCHANGED <<icc, ran>>
        /\ rdr' = [rdr EXCEPT !.frozen = TRUE, !.known = Head(cmd.data)] /\ TerminalAnswers("9000", <<>>)
    BY <1>1, <1>2, <1>4, <1>9 DEF Freezes, KaanCommands
  <2>2. PICK k \in BOOLEAN : k = (slot.status # "absent")
    BY Zenon
  <2>3. Head(cmd.data) = k
    BY <2>1, <2>2, <1>5, Zenon
  <2>4. /\ rdr' \in [frozen : BOOLEAN, known : BOOLEAN, old : BOOLEAN, keypad : BOOLEAN]
        /\ rdr'.known = k
    BY <1>3, <2>1, <2>3
  <2>5. rdr'.known = (slot'.status # "absent")
    BY <1>1, <2>2, <2>4, Zenon
  <2>6. KaanSays("9000", <<>>)'
    BY <1>1, <2>1, <2>5 DEF KaanSays
  <2> QED
    BY <1>1, <1>2, <1>6, <2>1, <2>4, <2>6, KaanExchanged
<1>10. CASE ResetsIcc
  <2>1. at = "card_reset" /\ Wakes /\ ran' = ran /\ op.kind = "reset"
    BY <1>1, <1>2, <1>4, <1>10, KaanKindsAt DEF ResetsIcc
  <2>2. CASE icc = None
    <3>1. TerminalAnswers("6200", <<>>) /\ icc' = icc
      BY <1>10, <2>2 DEF ResetsIcc
    <3>2. KaanSays("6200", <<>>)'
      BY <1>1, <2>1, <2>2, <3>1 DEF KaanSays
    <3> QED
      BY <1>1, <1>2, <1>3, <1>6, <2>1, <2>2, <3>1, <3>2, KaanExchanged
  <2>3. CASE icc # None
    <3>1. icc' = [icc EXCEPT !.on = TRUE, !.proto = Head(icc.card.protos), !.fresh = TRUE]
      BY <1>10, <2>3 DEF ResetsIcc
    <3>2. Head(icc.card.protos) \in {None, "T0", "T1", "I2C"}
      BY <1>1, <2>3, DriverAssumption DEF IccType
    <3>3. /\ icc' \in IccType /\ icc'.card = icc.card /\ icc'.on /\ icc'.fresh
          /\ icc'.proto = Head(icc.card.protos)
      BY <1>1, <2>3, <3>1, <3>2 DEF IccType
    <3>4. PICK st, data : /\ TerminalAnswers(st, data) /\ data = <<icc.card>>
                          /\ st = IF IsSync(icc.card) THEN "9000" ELSE "9001"
      BY <1>10, <2>3 DEF ResetsIcc
    <3>5. op.card = icc.card /\ op.card \in Cards
      BY <1>1, <2>3 DEF IccType
    <3>6. KaanSays(st, data)'
      BY <1>1, <2>1, <3>3, <3>4, <3>5 DEF KaanSays, KaanFresh
    <3>7. Len(data) \in Nat
      BY <1>5, <3>4
    <3> QED
      BY <1>1, <1>2, <1>3, <2>1, <2>3, <3>3, <3>4, <3>6, <3>7, KaanExchanged
  <2> QED
    BY <2>2, <2>3
<1>11. CASE TellsProto
  <2>1. at = "read_ef" /\ dd.then = "read_proto" /\ UNCHANGED <<rdr, icc, ran>>
    BY <1>4, <1>11 DEF TellsProto
  <2>2. icc # None => IsSync(icc.card)
    BY <1>1, <1>2, <2>1 DEF KaanKinds, KaanResetting, Selecting
  <2>3. PICK st, data : TerminalAnswers(st, data) /\ (\/ st = "9000" /\ data = <<"I2C">>
                                                      \/ st = "6a82" /\ icc = None /\ data = <<>>)
    BY <1>11, <2>2 DEF TellsProto
  <2>4. KaanSays(st, data)'
    BY <1>1, <2>1, <2>3 DEF KaanSays
  <2>5. Len(data) \in Nat
    BY <1>5, <1>6, <2>3
  <2> QED
    BY <1>1, <1>2, <1>3, <2>1, <2>3, <2>4, <2>5, KaanExchanged
<1>12. CASE SetsProto
  <2>1. at = "protocol_set" /\ Wakes /\ ran' = ran /\ Head(cmd.data) = Wanted /\ op.kind \in {"reset", "select"}
    BY <1>1, <1>2, <1>4, <1>5, <1>12, KaanKindsAt DEF SetsProto, KaanCommands
  <2>2. op.kind = "reset" /\ icc # None =>
          icc.on /\ icc.fresh /\ Wanted = Head(icc.card.protos) /\ Wanted \in ToSet(icc.card.protos)
    <3>1. SUFFICES ASSUME op.kind = "reset", icc # None
                   PROVE  icc.on /\ icc.fresh /\ Wanted = Head(icc.card.protos) /\ Wanted \in ToSet(icc.card.protos)
      OBVIOUS
    <3>2. slot.atr = op.card /\ KaanFresh /\ icc.card \in Cards /\ op.card = icc.card
      BY <1>1, <1>2, <2>1, <3>1 DEF KaanResetting, IccType
    <3>3. icc.card.protos \in Seq({"T0", "T1", "I2C"}) /\ icc.card.protos # <<>>
      BY <3>2, DriverAssumption
    <3>4. Head(icc.card.protos) \in ToSet(icc.card.protos)
      BY <3>3 DEF ToSet
    <3> QED
      BY <3>1, <3>2, <3>4 DEF KaanFresh, Wanted
  <2>3. CASE icc' = [icc EXCEPT !.proto = Head(cmd.data), !.fresh = FALSE] /\ icc # None
             /\ Head(cmd.data) \in ToSet(icc.card.protos) /\ TerminalAnswers("9000", <<>>)
    <3>1. Wanted \in {None, "T0", "T1", "I2C"}
      <4>1. icc.card.protos \in Seq({"T0", "T1", "I2C"})
        BY <1>1, <2>3, DriverAssumption DEF IccType
      <4> QED
        BY <2>1, <2>3, <4>1 DEF ToSet
    <3>2. icc' \in IccType /\ icc'.card = icc.card /\ icc'.proto = Wanted
      BY <1>1, <2>1, <2>3, <3>1 DEF IccType
    <3>3. KaanSays("9000", <<>>)'
      <4>1. Wanted' = Wanted
        BY <1>1 DEF Wanted
      <4> QED
        BY <1>1, <2>1, <3>2, <4>1 DEF KaanSays
    <3> QED
      BY <1>1, <1>2, <1>3, <1>6, <2>1, <2>3, <3>2, <3>3, KaanExchanged
  <2>4. CASE icc' = icc /\ (\E st \in {"6985", "6a80"} : TerminalAnswers(st, <<>>))
             /\ ~(icc # None /\ icc.on /\ Head(cmd.data) \in ToSet(icc.card.protos)
                  /\ (icc.fresh \/ icc.proto = Head(cmd.data)))
    <3>1. PICK st \in {"6985", "6a80"} : TerminalAnswers(st, <<>>)
      BY <2>4
    <3>2. op.kind = "reset" => icc = None
      BY <2>1, <2>2, <2>4
    <3>3. KaanSays(st, <<>>)'
      BY <1>1, <2>1, <2>4, <3>1, <3>2 DEF KaanSays
    <3> QED
      BY <1>1, <1>2, <1>3, <1>6, <2>1, <2>4, <3>1, <3>3, KaanExchanged
  <2> QED
    BY <1>12, <2>3, <2>4 DEF SetsProto
<1>13. CASE Runs
  <2>1. /\ at = "apdu" /\ op.kind = "transact" /\ ran = <<>> /\ cmd.data = Bytes(op) /\ rdr' = rdr
        /\ op.id \in Nat /\ op.le \in Nat
    BY <1>1, <1>2, <1>4, <1>13, KaanKindsAt DEF Runs, KaanCommands, KaanRan, Operations
  <2>2. \A x : <<x>> # <<>>
    OBVIOUS
  <2>3. CASE icc # None /\ Executes(cmd.data) /\ icc' = [icc EXCEPT !.fresh = FALSE]
             /\ \/ IsCase4 /\ TerminalAnswers("61xx", <<<<op.id, 0>>>>)
                \/ TerminalAnswers("9000", AnswerTo(op))
    <3>1. ran' = <<Bytes(op)>>
      BY <2>1, <2>3, ExecutesOne
    <3>2. icc' \in IccType /\ icc'.card = icc.card
      BY <1>1, <2>3 DEF IccType
    <3>3. PICK st, data : /\ TerminalAnswers(st, data)
                          /\ \/ st = "61xx" /\ data = <<<<op.id, 0>>>> /\ IsCase4
                             \/ st = "9000" /\ data = AnswerTo(op)
      BY <2>3
    <3>4. KaanSays(st, data)'
      BY <1>1, <2>1, <2>2, <3>1, <3>3 DEF KaanSays, IsCase4
    <3>5. Len(data) \in Nat
      BY <1>5, <2>1, <3>3, AnswerIsNoRefusal
    <3> QED
      BY <1>1, <1>2, <1>3, <2>1, <2>3, <3>1, <3>2, <3>3, <3>4, <3>5, KaanExchanged
  <2>4. CASE TerminalAnswers("6400", Refusal(op)) /\ UNCHANGED <<icc, ran>>
    <3>1. PICK data : data = Refusal(op)
      OBVIOUS
    <3>2. Len(data) \in Nat /\ data # AnswerTo(op)
      BY <2>1, <3>1, AnswerIsNoRefusal
    <3>3. KaanSays("6400", data)'
      BY <1>1, <2>1, <3>1, <3>2 DEF KaanSays
    <3> QED
      BY <1>1, <1>2, <1>3, <2>1, <2>4, <3>1, <3>2, <3>3, KaanExchanged
  <2> QED
    BY <1>13, <2>3, <2>4 DEF Runs
<1>14. CASE GivesResponse
  <2>1. at = "get_response" /\ op.kind = "transact" /\ UNCHANGED <<rdr, icc, ran>> /\ op.id \in Nat /\ op.le \in Nat
    BY <1>1, <1>2, <1>4, <1>14, KaanKindsAt DEF GivesResponse, Operations
  <2>2. PICK data \in {AnswerTo(op), Refusal(op)} : TerminalAnswers("9000", data)
    BY <1>14 DEF GivesResponse
  <2>3. Len(data) \in Nat
    BY <2>1, <2>2, AnswerIsNoRefusal
  <2>4. KaanSays("9000", data)'
    BY <1>1, <2>1, <2>2 DEF KaanSays
  <2> QED
    BY <1>1, <1>2, <1>3, <2>1, <2>2, <2>3, <2>4, KaanExchanged
<1>15. CASE Reads
  <2>1. /\ at = "reading" /\ op.kind = "read" /\ UNCHANGED <<rdr, icc, ran>>
        /\ cmd.addr = dd.total /\ cmd.data = <<Least(op.len, FileMax)>>
        /\ op.len \in Nat /\ dd.total \in Nat
    BY <1>1, <1>2, <1>4, <1>15, KaanKindsAt DEF Reads, KaanCommands, Operations, KaanStates, KaanData
  <2>2. CASE icc # None /\ icc.on
    <3>1. PICK e : e = Least(Len(icc.mem), dd.total + Least(op.len, FileMax))
      OBVIOUS
    <3>2. Least(Len(icc.mem), cmd.addr + Head(cmd.data)) = e
      BY <1>5, <2>1, <3>1, Zenon
    <3>3. PICK st : TerminalAnswers(st, SubSeq(icc.mem, dd.total + 1, e))
      BY <1>15, <2>1, <2>2, <3>2 DEF Reads
    <3>4. dd.total <= Len(icc.mem) /\ icc.mem \in Seq(Nat)
      BY <1>1, <2>1, <2>2 DEF KaanInv, KaanMemory, IccType
    <3>5. PICK data : data = SubSeq(icc.mem, dd.total + 1, e)
      OBVIOUS
    <3>6. data \in Seq(Nat) /\ Len(data) \in Nat
      <4>1. SubSeq(icc.mem, dd.total + 1, e) \in Seq(Nat)
        BY <2>1, <3>1, <3>4, ChunkJoins
      <4> QED
        BY <3>5, <4>1
    <3>7. data = Chunk(icc.mem)'
      BY <1>1, <2>1, <3>1, <3>5 DEF Chunk
    <3>8. KaanSays(st, data)'
      BY <1>1, <2>1, <3>6, <3>7 DEF KaanSays
    <3> QED
      BY <1>1, <1>2, <1>3, <2>1, <3>3, <3>5, <3>6, <3>8, KaanExchanged
  <2>3. CASE ~(icc # None /\ icc.on)
    <3>1. TerminalAnswers("6400", <<>>)
      BY <1>15, <2>3 DEF Reads
    <3>2. <<>> \in Seq(Nat)
      OBVIOUS
    <3>3. KaanSays("6400", <<>>)'
      BY <1>1, <2>1, <3>2 DEF KaanSays
    <3> QED
      BY <1>1, <1>2, <1>3, <1>6, <2>1, <3>1, <3>3, KaanExchanged
  <2> QED
    BY <2>2, <2>3
<1>16. CASE Updates
  <2>1. /\ at = "written" /\ op.kind = "write" /\ UNCHANGED <<rdr, ran>>
        /\ cmd.addr = 0 /\ cmd.data = [i \in 1 .. Least(op.len, FileMax) |-> op.id]
        /\ op.len \in Nat /\ op.id \in Nat
    BY <1>1, <1>2, <1>4, <1>16, KaanKindsAt DEF Updates, KaanCommands, Operations
  <2>2. CASE icc # None /\ TerminalAnswers("9000", <<>>)
             /\ icc' = [icc EXCEPT !.mem = [i \in DOMAIN @ |->
                          IF i \in cmd.addr + 1 .. cmd.addr + Len(cmd.data)
                          THEN cmd.data[i - cmd.addr] ELSE @[i]]]
    <3>1. PICK n \in Nat : n = Least(op.len, FileMax)
      BY <2>1, KaanAssumption DEF Least
    <3>2. Len(cmd.data) = n /\ \A i \in 1 .. n : cmd.data[i] = op.id
      BY <2>1, <3>1
    <3>3. PICK m : m = [i \in DOMAIN icc.mem |->
                          IF i \in cmd.addr + 1 .. cmd.addr + Len(cmd.data)
                          THEN cmd.data[i - cmd.addr] ELSE icc.mem[i]]
      OBVIOUS
    <3>4. icc.mem \in Seq(Nat)
      BY <1>1, <2>2 DEF IccType
    <3>5. /\ DOMAIN m = DOMAIN icc.mem
          /\ \A i \in DOMAIN m : m[i] = IF i \in 1 .. n THEN op.id ELSE icc.mem[i]
      <4>1. DOMAIN m = DOMAIN icc.mem
        BY <3>3
      <4>2. ASSUME NEW i \in DOMAIN m
            PROVE  m[i] = IF i \in 1 .. n THEN op.id ELSE icc.mem[i]
        <5>1. m[i] = IF i \in cmd.addr + 1 .. cmd.addr + Len(cmd.data)
                     THEN cmd.data[i - cmd.addr] ELSE icc.mem[i]
          BY <3>3, <4>1, <4>2
        <5>2. i \in Nat
          BY <3>4, <4>1, <4>2
        <5>3. cmd.addr + 1 .. cmd.addr + Len(cmd.data) = 1 .. n
          <6>1. cmd.addr + 1 = 1 /\ cmd.addr + Len(cmd.data) = n
            <7>1. cmd.addr = 0 /\ Len(cmd.data) = n /\ n \in Nat
              BY <2>1, <3>1, <3>2
            <7> QED
              BY <7>1
          <6> QED
            BY <6>1, Zenon
        <5>4. i - cmd.addr = i
          BY <2>1, <5>2
        <5> QED
          BY <3>2, <5>1, <5>3, <5>4, Zenon
      <4> QED
        BY <4>1, <4>2
    <3>6. m \in Seq(Nat)
      <4>1. m \in [1 .. Len(icc.mem) -> Nat]
        <5>1. DOMAIN m = 1 .. Len(icc.mem) /\ m = [i \in DOMAIN m |-> m[i]]
          BY <3>3, <3>4
        <5>2. \A i \in DOMAIN m : m[i] \in Nat
          <6>1. \A i \in 1 .. Len(icc.mem) : icc.mem[i] \in Nat
            BY <3>4
          <6> QED
            BY <2>1, <3>5, <5>1, <6>1
        <5> QED
          BY <5>1, <5>2, Zenon
      <4> QED
        BY <3>4, <4>1
    <3>7. icc' \in IccType /\ icc'.card = icc.card /\ icc'.mem = m
      <4>1. icc' = [icc EXCEPT !.mem = m]
        BY <2>2, <3>3
      <4> QED
        BY <1>1, <2>2, <3>6, <4>1 DEF IccType
    <3>8. \A i \in DOMAIN icc'.mem \cap 1 .. Least(op.len, FileMax) : icc'.mem[i] = op.id
      BY <3>1, <3>5, <3>7
    <3>9. KaanSays("9000", <<>>)'
      BY <1>1, <2>1, <3>8 DEF KaanSays
    <3> QED
      BY <1>1, <1>2, <1>3, <1>6, <2>1, <2>2, <3>7, <3>9, KaanExchanged
  <2>3. CASE TerminalAnswers("6400", <<>>) /\ icc' = icc
    <3>1. KaanSays("6400", <<>>)'
      BY <1>1, <2>1 DEF KaanSays
    <3> QED
      BY <1>1, <1>2, <1>3, <1>6, <2>1, <2>3, <3>1, KaanExchanged
  <2> QED
    BY <1>16, <2>2, <2>3 DEF Updates
<1>17. CASE VerifiesPin
  <2>1. at = "verified" /\ op.kind = "verify" /\ Wakes /\ icc' = icc /\ ran = <<>>
    BY <1>1, <1>2, <1>4, <1>17, KaanKindsAt DEF VerifiesPin, KaanRan
  <2>2. PICK a \in PinAnswers("6402") :
          TerminalAnswers(a.st, <<>>) /\ IF a.run THEN Executes(a.pin) ELSE ran' = ran
    BY <1>17 DEF VerifiesPin
  <2>3. ran' = IF a.run THEN <<a.pin>> ELSE <<>>
    BY <2>1, <2>2, ExecutesOne
  <2>4. PinAnswers("6402")' = PinAnswers("6402")
    BY <1>1, Zenon DEF PinAnswers, PinAnswer, Pin
  <2>5. KaanSays(a.st, <<>>)'
    BY <1>1, <2>1, <2>2, <2>3, <2>4 DEF KaanSays
  <2> QED
    BY <1>1, <1>2, <1>3, <1>6, <2>1, <2>2, <2>5, KaanExchanged
<1> QED
  BY <1>7, <1>8, <1>9, <1>10, <1>11, <1>12, <1>13, <1>14, <1>15, <1>16, <1>17 DEF Terminal

LEMMA KaanOutside ==
    ASSUME OpInv, IccInv, driver = "kaan", KaanInv, Insert \/ Draw \/ LateArrives \/ HandlerAsks
    PROVE  KaanInv'
<1>1. ~LateArrives
  BY DEF KaanInv, KaanStates, LateArrives
<1>2. CASE Insert
  <2>1. op = None /\ UNCHANGED <<driver, slot, dd, op, at, told, cmd, reply, ran, late, rdr, faults>>
    BY <1>2 DEF Insert, opvars, linkvars
  <2>2. at = "idle" /\ cmd = None /\ reply = None
    BY <2>1 DEF OpInv
  <2> QED
    BY <2>1, <2>2 DEF KaanInv, KaanStates, KaanKinds, KaanCommands, KaanReply, KaanRan, KaanResetting, KaanWatch, KaanMemory
<1>3. CASE Draw
  <2>1. icc' = None /\ UNCHANGED <<driver, slot, dd, op, at, told, cmd, reply, ran, late, rdr, faults>>
    BY <1>3 DEF Draw, opvars, linkvars
  <2>2. PinAnswers("6402")' = PinAnswers("6402") /\ Wanted' = Wanted
    BY <2>1, Zenon DEF PinAnswers, PinAnswer, Pin, Wanted
  <2>3. KaanReply'
    <3>1. KaanSays(reply.st, reply.data) => KaanSays(reply.st, reply.data)'
      BY <2>1, <2>2 DEF KaanSays, IsCase4, KaanFresh
    <3> QED
      BY <2>1, <3>1 DEF KaanInv, KaanReply, OK
  <2>4. KaanCommands'
    BY <2>1, <2>2 DEF KaanInv, KaanCommands, KaanName
  <2>5. KaanStates' /\ KaanKinds' /\ KaanRan' /\ KaanResetting' /\ KaanWatch' /\ KaanMemory'
    BY <2>1 DEF KaanInv, KaanStates, KaanKinds, KaanRan, KaanResetting, KaanWatch, KaanMemory, KaanFresh
  <2> QED
    BY <2>3, <2>4, <2>5 DEF KaanInv
<1>4. CASE HandlerAsks
  <2>1. /\ op = None /\ op' \in Operations /\ op' # None /\ at' = op'.kind /\ op'.kind # "open"
        /\ ran' = <<>> /\ Serves(op'.kind) /\ op'.card = Here
        /\ UNCHANGED <<driver, icc, dd, cmd, reply, late, rdr, faults>>
        /\ slot' = IF op'.kind = "reset" THEN [slot EXCEPT !.atr = None, !.proto = None] ELSE slot
        /\ op'.kind \in {"read", "write"} => slot.proto = "I2C"
    BY <1>4, HandlerStarts DEF linkvars
  <2>2. at = "idle" /\ cmd = None /\ reply = None
    BY <2>1 DEF OpInv
  <2>3. op'.kind \in {"reset", "select", "transact", "poll", "verify", "read", "write"}
    BY <2>1 DEF Operations, Serves, Activated
  <2>4. /\ slot'.proto \in {None, slot.proto} /\ slot'.status = slot.status
        /\ op'.kind = "reset" => slot'.proto = None
        /\ op'.kind # "reset" => slot'.proto = slot.proto
    BY <2>1 DEF OpInv, SlotInv, SlotType
  <2>5. None # "I2C"
    BY DriverAssumption
  <2>6. KaanStates' /\ KaanCommands' /\ KaanReply' /\ KaanWatch'
    BY <2>1, <2>2, <2>3, <2>4 DEF KaanInv, KaanStates, KaanCommands, KaanReply, KaanWatch, Selecting
  <2>7. KaanKinds' /\ KaanRan' /\ KaanResetting'
    BY <2>1, <2>2, <2>3, <2>4 DEF KaanKinds, KaanRan, KaanResetting, Selecting
  <2>8. KaanMemory'
    <3>1. dd.total = 0 /\ (slot.proto = "I2C" => dd.res = <<>>)
      BY <2>1 DEF KaanInv, KaanMemory
    <3>2. ASSUME icc # None PROVE Len(icc.mem) \in Nat /\ SubSeq(icc.mem, 1, 0) = <<>>
      BY <3>2, SubSeqEmpty DEF IccInv, IccType
    <3>3. <<>> \in Seq(Nat)
      OBVIOUS
    <3>4. CASE slot'.proto # "I2C"
      <4>1. ~(op'.kind \in {"read", "write"})
        BY <2>1, <2>4, <3>4
      <4>2. op'.kind # "read"
        BY <4>1
      <4> QED
        BY <2>1, <3>1, <3>4, <4>2 DEF KaanMemory
    <3>5. CASE slot'.proto = "I2C"
      <4>1. slot.proto = "I2C"
        BY <2>4, <2>5, <3>5
      <4>2. dd'.total = 0 /\ dd'.res = <<>> /\ icc' = icc
        BY <2>1, <3>1, <4>1
      <4>3. CASE op'.kind = "read"
        <5>1. icc' # None => dd'.total <= Len(icc'.mem) /\ dd'.res = SubSeq(icc'.mem, 1, dd'.total)
          BY <3>2, <4>2
        <5> QED
          BY <2>1, <3>3, <3>5, <4>2, <4>3, <5>1 DEF KaanMemory
      <4>4. CASE op'.kind # "read"
        BY <2>1, <4>2, <4>4 DEF KaanMemory
      <4> QED
        BY <4>3, <4>4
    <3> QED
      BY <3>4, <3>5
  <2> QED
    BY <2>6, <2>7, <2>8 DEF KaanInv
<1> QED
  BY <1>1, <1>2, <1>3, <1>4

LEMMA KaanInit0 ==
    Init => KaanInv
<1> SUFFICES ASSUME Init, driver = "kaan"
             PROVE  KaanStates /\ KaanKinds /\ KaanCommands /\ KaanReply /\ KaanRan /\ KaanResetting /\ KaanWatch /\ KaanMemory
  BY DEF KaanInv
<1>1. /\ op = [kind |-> "open"] /\ at = "open" /\ cmd = None /\ reply = None /\ ran = <<>> /\ late = <<>>
      /\ slot.proto = None
  BY DEF Init, DriverInit
<1>2. rdr \in [frozen : {FALSE}, known : {FALSE}, old : BOOLEAN, keypad : BOOLEAN]
  BY DEF Init, KaanInit
<1>3. PICK b \in BOOLEAN :
        dd = [b1 |-> b, frozen |-> FALSE, proto |-> None, then |-> None, total |-> 0, res |-> <<>>]
  BY DEF Init, KaanInit
<1>4. rdr \in [frozen : BOOLEAN, known : BOOLEAN, old : BOOLEAN, keypad : BOOLEAN]
  BY <1>2
<1>5. <<>> \in Seq(Nat) \cup {<<c>> : c \in Cards}
  OBVIOUS
<1>6. dd \in KaanData /\ ~dd.frozen /\ dd.total = 0 /\ dd.res = <<>>
  BY <1>3, <1>5 DEF KaanData
<1>7. op.kind = "open"
  BY <1>1
<1> QED
  BY <1>1, <1>4, <1>6, <1>7 DEF KaanStates, KaanKinds, KaanCommands, KaanReply, KaanRan, KaanResetting, KaanWatch, KaanMemory, Selecting

-----------------------------------------------------------------------------
(* CCID: queues of answers, the driver's data                              *)

LEMMA QueueAppend ==
    ASSUME NEW q, Queue(q), NEW m
    PROVE  /\ Queue(Append(q, m)) /\ Append(q, m) # <<>>
           /\ ToSet(Append(q, m)) = ToSet(q) \cup {m}
<1> DEFINE S == ToSet(q) \cup {m}
           r == Append(q, m)
<1>1. q \in Seq(S) /\ m \in S
  BY DEF Queue
<1>2. /\ r \in Seq(S) /\ r # <<>> /\ Len(r) = Len(q) + 1
      /\ \A i \in 1 .. Len(q) : r[i] = q[i]
      /\ r[Len(q) + 1] = m
  BY <1>1, AppendProperties
<1>3. Len(q) \in Nat /\ DOMAIN q = 1 .. Len(q) /\ DOMAIN r = 1 .. Len(r)
  BY <1>1, <1>2, LenProperties
<1> HIDE DEF r
<1>4. ToSet(r) = S
  <2>1. DOMAIN r = (DOMAIN q) \cup {Len(q) + 1}
    BY <1>2, <1>3
  <2> QED
    BY <1>2, <1>3, <2>1 DEF ToSet
<1>5. Queue(r)
  BY <1>2, <1>4 DEF Queue
<1> QED
  BY <1>2, <1>4, <1>5 DEF r

LEMMA QueueHead ==
    ASSUME NEW q, Queue(q), q # <<>>
    PROVE  /\ Queue(Tail(q))
           /\ Head(q) \in ToSet(q)
           /\ ToSet(q) = {Head(q)} \cup ToSet(Tail(q))
<1> DEFINE S == ToSet(q)
           r == Tail(q)
<1>1. q \in Seq(S)
  BY DEF Queue
<1>2. Head(q) \in S /\ r \in Seq(S) /\ Len(r) = Len(q) - 1 /\ \A i \in 1 .. Len(r) : r[i] = q[i + 1]
  BY <1>1, HeadTailProperties
<1>3. Len(q) \in Nat /\ DOMAIN q = 1 .. Len(q) /\ DOMAIN r = 1 .. Len(r) /\ Len(r) \in Nat
  BY <1>1, <1>2, LenProperties
<1>4. Head(q) = q[1]
  BY <1>1
<1>5. Len(q) # 0
  BY <1>1, EmptySeq
<1> HIDE DEF r
<1>6. ToSet(q) = {Head(q)} \cup ToSet(r)
  <2>1. \A i \in DOMAIN q : i = 1 \/ ((i - 1) \in DOMAIN r /\ q[i] = r[i - 1])
    BY <1>2, <1>3
  <2>2. \A i \in DOMAIN r : (i + 1) \in DOMAIN q /\ r[i] = q[i + 1]
    BY <1>2, <1>3
  <2>3. 1 \in DOMAIN q
    BY <1>3, <1>5
  <2> QED
    BY <1>4, <2>1, <2>2, <2>3 DEF ToSet
<1>7. Queue(r)
  <2>1. r \in [1 .. Len(r) -> S]
    BY <1>2, LenProperties
  <2>2. \A i \in 1 .. Len(r) : r[i] \in ToSet(r)
    BY <1>3 DEF ToSet
  <2>3. r \in [1 .. Len(r) -> ToSet(r)]
    BY <2>1, <2>2
  <2> QED
    BY <1>3, <2>3, SMT DEF Queue
<1> QED
  BY <1>2, <1>6, <1>7 DEF r

LEMMA QueueEmpty ==
    Queue(<<>>) /\ ToSet(<<>>) = {}
<1>1. ToSet(<<>>) = {}
  BY SMT DEF ToSet
<1> QED
  BY <1>1, EmptySeq DEF Queue

\* A reader that asks for time answers twice.
LEMMA QueueTwo ==
    ASSUME NEW q, Queue(q), NEW a, NEW b
    PROVE  /\ Queue(q \o <<a, b>>)
           /\ ToSet(q \o <<a, b>>) = ToSet(q) \cup {a, b}
<1> DEFINE S == ToSet(q) \cup {a, b}
           t == <<a, b>>
           r == q \o t
<1>1. q \in Seq(S)
  BY DEF Queue
<1>2. t \in Seq(S) /\ Len(t) = 2 /\ t[1] = a /\ t[2] = b
  OBVIOUS
<1> HIDE DEF S, t
<1>3. /\ r \in Seq(S) /\ Len(r) = Len(q) + 2
      /\ \A i \in 1 .. Len(q) + 2 : r[i] = IF i <= Len(q) THEN q[i] ELSE t[i - Len(q)]
  <2>1. /\ r \in Seq(S) /\ Len(r) = Len(q) + Len(t)
        /\ \A i \in 1 .. Len(q) + Len(t) : r[i] = IF i <= Len(q) THEN q[i] ELSE t[i - Len(q)]
    BY <1>1, <1>2, ConcatProperties, Zenon
  <2> QED
    BY <1>2, <2>1
<1>4. Len(q) \in Nat /\ DOMAIN q = 1 .. Len(q) /\ DOMAIN r = 1 .. Len(q) + 2
  BY <1>1, <1>3, LenProperties
<1> HIDE DEF r
<1>5. r[Len(q) + 1] = a /\ r[Len(q) + 2] = b /\ \A i \in 1 .. Len(q) : r[i] = q[i]
  <2>1. Len(q) + 1 - Len(q) = 1 /\ Len(q) + 2 - Len(q) = 2
    BY <1>4
  <2>2. r[Len(q) + 1] = t[Len(q) + 1 - Len(q)] /\ r[Len(q) + 2] = t[Len(q) + 2 - Len(q)]
    BY <1>3, <1>4
  <2> QED
    BY <1>2, <1>3, <1>4, <2>1, <2>2
<1>6. ToSet(r) = S
  <2>1. DOMAIN r = (DOMAIN q) \cup {Len(q) + 1, Len(q) + 2}
    BY <1>4
  <2> QED
    BY <1>4, <1>5, <2>1 DEF ToSet, S
<1> QED
  BY <1>3, <1>6 DEF Queue, r, S, t

\* What the driver learns of its reader when it opens it.
CcidStill == dd'.type = dd.type /\ dd'.flags = dd.flags /\ dd'.protos = dd.protos /\ dd'.volts = dd.volts

LEMMA CcidSeenSet ==
    ASSUME CcidShape, NEW x, dd' = [dd EXCEPT !.seen = x]
    PROVE  /\ CcidShape' /\ CcidStill /\ dd'.seen = x
           /\ dd'.proto = dd.proto /\ dd'.par = dd.par /\ dd'.ta1 = dd.ta1 /\ dd'.sbuf = dd.sbuf
<1> DEFINE d == dd
<1>1. d = [type |-> d.type, flags |-> d.flags, protos |-> d.protos, volts |-> d.volts, seen |-> d.seen,
           proto |-> d.proto, par |-> d.par, ta1 |-> d.ta1, sbuf |-> d.sbuf]
  BY DEF CcidShape
<1>2. dd' = [type |-> d.type, flags |-> d.flags, protos |-> d.protos, volts |-> d.volts, seen |-> x, proto |-> d.proto, par |-> d.par, ta1 |-> d.ta1, sbuf |-> d.sbuf]
  BY <1>1
<1> QED
  BY <1>2 DEF CcidShape, CcidStill

LEMMA CcidProtoSet ==
    ASSUME CcidShape, NEW x, dd' = [dd EXCEPT !.proto = x]
    PROVE  /\ CcidShape' /\ CcidStill /\ dd'.proto = x
           /\ dd'.seen = dd.seen /\ dd'.par = dd.par /\ dd'.ta1 = dd.ta1 /\ dd'.sbuf = dd.sbuf
<1> DEFINE d == dd
<1>1. d = [type |-> d.type, flags |-> d.flags, protos |-> d.protos, volts |-> d.volts, seen |-> d.seen,
           proto |-> d.proto, par |-> d.par, ta1 |-> d.ta1, sbuf |-> d.sbuf]
  BY DEF CcidShape
<1>2. dd' = [type |-> d.type, flags |-> d.flags, protos |-> d.protos, volts |-> d.volts, seen |-> d.seen, proto |-> x, par |-> d.par, ta1 |-> d.ta1, sbuf |-> d.sbuf]
  BY <1>1
<1> QED
  BY <1>2 DEF CcidShape, CcidStill

LEMMA CcidParSet ==
    ASSUME CcidShape, NEW x, dd' = [dd EXCEPT !.par = x]
    PROVE  /\ CcidShape' /\ CcidStill /\ dd'.par = x
           /\ dd'.seen = dd.seen /\ dd'.proto = dd.proto /\ dd'.ta1 = dd.ta1 /\ dd'.sbuf = dd.sbuf
<1> DEFINE d == dd
<1>1. d = [type |-> d.type, flags |-> d.flags, protos |-> d.protos, volts |-> d.volts, seen |-> d.seen,
           proto |-> d.proto, par |-> d.par, ta1 |-> d.ta1, sbuf |-> d.sbuf]
  BY DEF CcidShape
<1>2. dd' = [type |-> d.type, flags |-> d.flags, protos |-> d.protos, volts |-> d.volts, seen |-> d.seen, proto |-> d.proto, par |-> x, ta1 |-> d.ta1, sbuf |-> d.sbuf]
  BY <1>1
<1> QED
  BY <1>2 DEF CcidShape, CcidStill

LEMMA CcidTa1Set ==
    ASSUME CcidShape, NEW x, dd' = [dd EXCEPT !.ta1 = x]
    PROVE  /\ CcidShape' /\ CcidStill /\ dd'.ta1 = x
           /\ dd'.seen = dd.seen /\ dd'.proto = dd.proto /\ dd'.par = dd.par /\ dd'.sbuf = dd.sbuf
<1> DEFINE d == dd
<1>1. d = [type |-> d.type, flags |-> d.flags, protos |-> d.protos, volts |-> d.volts, seen |-> d.seen,
           proto |-> d.proto, par |-> d.par, ta1 |-> d.ta1, sbuf |-> d.sbuf]
  BY DEF CcidShape
<1>2. dd' = [type |-> d.type, flags |-> d.flags, protos |-> d.protos, volts |-> d.volts, seen |-> d.seen, proto |-> d.proto, par |-> d.par, ta1 |-> x, sbuf |-> d.sbuf]
  BY <1>1
<1> QED
  BY <1>2 DEF CcidShape, CcidStill

LEMMA CcidSbufSet ==
    ASSUME CcidShape, NEW x, dd' = [dd EXCEPT !.sbuf = x]
    PROVE  /\ CcidShape' /\ CcidStill /\ dd'.sbuf = x
           /\ dd'.seen = dd.seen /\ dd'.proto = dd.proto /\ dd'.par = dd.par /\ dd'.ta1 = dd.ta1
<1> DEFINE d == dd
<1>1. d = [type |-> d.type, flags |-> d.flags, protos |-> d.protos, volts |-> d.volts, seen |-> d.seen,
           proto |-> d.proto, par |-> d.par, ta1 |-> d.ta1, sbuf |-> d.sbuf]
  BY DEF CcidShape
<1>2. dd' = [type |-> d.type, flags |-> d.flags, protos |-> d.protos, volts |-> d.volts, seen |-> d.seen, proto |-> d.proto, par |-> d.par, ta1 |-> d.ta1, sbuf |-> x]
  BY <1>1
<1> QED
  BY <1>2 DEF CcidShape, CcidStill

-----------------------------------------------------------------------------
(* CCID: the driver's steps                                                *)

LEMMA CcidNumbers ==
    \A n \in 0 .. 255 : n # None
BY CcidAssumption, Zenon

LEMMA CcidVolts ==
    /\ ToSet(Volts) = CcidVoltages /\ DOMAIN Volts = 1 .. 3
    /\ Volts[1] = "5V" /\ Volts[2] = "3V" /\ Volts[3] = "1.8V"
<1>1. DOMAIN Volts = 1 .. 3 /\ Volts[1] = "5V" /\ Volts[2] = "3V" /\ Volts[3] = "1.8V"
  BY SMT DEF Volts
<1>2. 1 .. 3 = {1, 2, 3}
  BY SMT
<1>3. ToSet(Volts) = {Volts[1], Volts[2], Volts[3]}
  BY <1>1, <1>2 DEF ToSet
<1> QED
  BY <1>1, <1>3 DEF CcidVoltages

\* While the driver works nothing is on the line to the reader.
LEMMA CcidDriverQuiet ==
    ASSUME OpInv, driver = "ccid", CcidInv, CcidDriver
    PROVE  /\ op # None /\ op \in Operations /\ cmd = None /\ link.sent = None
           /\ UNCHANGED <<driver, icc, event, ran, link, ask, inbox, late, rdr, faults, work>>
           /\ CcidLine'
<1>1. UNCHANGED <<driver, icc, event, ran, link, ask, inbox, late, rdr, faults, work>>
  BY DEF CcidDriver, linkvars
<1>2. at # "idle" /\ (at \in CcidCalls => cmd = None)
  BY CcidVolts DEF CcidCalls, CcidPowers, CcidVoltages, CcidStats, CcidDriver, At,
     CcidOpens, CcidPoll, CcidPolled, CcidPowered, CcidTriesVolts, CcidTriedVolt, CcidSelects, CcidGotParams,
     CcidGuarded, CcidPts, CcidPtsDone, CcidSetsParams, CcidParamsSet, CcidTransact, CcidRecv, CcidTransacted
<1>3. op # None /\ op \in Operations
  BY <1>2 DEF OpInv
<1>4. cmd = None
  BY <1>2 DEF CcidInv, CcidCommands
<1>5. link.sent = None /\ ask = None /\ \A m \in Coming : m.seq # None
  BY <1>4, CcidNumbers DEF CcidInv, CcidLine
<1>6. CcidLine'
  <2>1. Coming' = Coming
    BY <1>1 DEF Coming
  <2> QED
    BY <1>1, <1>5, <2>1 DEF CcidInv, CcidLine
<1> QED
  BY <1>1, <1>3, <1>4, <1>5, <1>6

\* The operation has ended.
LEMMA CcidEnds ==
    ASSUME OpInv, IccInv, driver = "ccid", CcidInv, CcidDriver, Ends,
           slot' \in SlotType, slot'.proto \in {None, "T0", "T1", "transparent"}, slot'.atr \in {None, slot.atr},
           CcidShape', dd'.ta1 \in BOOLEAN, CcidKnows'
    PROVE  CcidInv' /\ SlotInv' /\ OpInv' /\ IccInv'
<1>1. /\ op # None /\ UNCHANGED <<driver, icc, ran, link, ask, inbox, late, rdr, faults, work>>
      /\ CcidLine'
  BY CcidDriverQuiet
<1>2. op' = None /\ at' = "idle" /\ cmd' = None /\ reply' = None
  BY DEF Ends
<1>3. CcidStates'
  BY <1>1 DEF CcidInv, CcidStates
<1>4. CcidKinds' /\ CcidCommands' /\ CcidReply' /\ CcidRan' /\ CcidTries' /\ CcidBuffer'
  BY <1>2 DEF CcidKinds, CcidCommands, CcidReply, CcidRan, CcidTries, CcidBuffer, CcidVoltages
<1>5. CcidSelection'
  <2>1. (Live /\ slot.atr # None => slot.atr = icc.card) /\ CcidPowered0
    BY DEF CcidInv, CcidSelection
  <2> QED
    BY <1>1, <1>2, <2>1 DEF CcidSelection, CcidSelecting, CcidPowered0, Live, Unused
<1>6. SlotInv'
  BY DriverAssumption DEF SlotInv
<1> QED
  BY <1>1, <1>2, <1>3, <1>4, <1>5, <1>6, CommonEnds DEF CcidInv

\* The operation goes on, with another command or without.
CcidPassing == {"pts", "setparams", "poweron-manual", "set_protocol", "recv"}

LEMMA CcidGoes ==
    ASSUME OpInv, IccInv, driver = "ccid", CcidInv, CcidDriver, at # "xfr", op.kind # "open", Stays,
           slot' \in SlotType, slot'.proto = slot.proto, slot'.atr \in Cards \cup {None},
           CcidShape', CcidStill, dd'.ta1 \in BOOLEAN,
           \/ Goes(at') /\ at' \in CcidPassing
           \/ at' \in CcidCalls /\ Call(at', CcidCommand'),
           CcidKinds', CcidTries', CcidSelection', CcidBuffer'
    PROVE  CcidInv' /\ SlotInv' /\ OpInv' /\ IccInv'
<1>1. /\ op # None /\ cmd = None /\ UNCHANGED <<driver, icc, ran, link, ask, inbox, late, rdr, faults, work>>
      /\ CcidLine' /\ op' = op /\ told' = told
  BY CcidDriverQuiet DEF Stays
<1>2. CcidStates'
  BY <1>1 DEF CcidInv, CcidStates
<1>3. CcidKnows'
  <2>1. CcidOpened
    BY <1>1 DEF CcidInv, CcidKnows
  <2>2. CcidOpened'
    BY <1>1, <2>1 DEF CcidOpened, CcidStill
  <2> QED
    BY <2>2 DEF CcidKnows
<1>4. ran = <<>>
  BY <1>1 DEF CcidInv, CcidRan
<1>5. CcidRan'
  BY <1>1, <1>4 DEF CcidRan
<1>6. CcidCommands' /\ CcidReply'
  <2>1. CASE Goes(at') /\ at' \in CcidPassing
    <3>1. cmd' = cmd /\ reply' = reply /\ at' \notin CcidCalls
      BY <2>1 DEF Goes, CcidPassing, CcidCalls, CcidPowers, CcidVoltages, CcidStats
    <3>2. \A data : CcidSays(data)'
      BY <3>1 DEF CcidSays, CcidCalls
    <3>3. reply # None => reply.rc \in Int
      BY <1>1 DEF CcidInv, CcidReply
    <3> QED
      BY <1>1, <3>1, <3>2, <3>3 DEF CcidCommands, CcidReply, OK, CcidCalls
  <2>2. CASE at' \in CcidCalls /\ Call(at', CcidCommand')
    BY <2>2 DEF Call, CcidCommands, CcidReply
  <2> QED
    BY <2>1, <2>2
<1>7. at' # "idle"
  BY <1>1 DEF CcidPassing, CcidCalls, CcidPowers, CcidVoltages, CcidStats
<1>8. SlotInv'
  BY <1>1, DriverAssumption DEF SlotInv, OpInv
<1> QED
  BY <1>1, <1>2, <1>3, <1>5, <1>6, <1>7, <1>8, CommonStays DEF CcidInv

\* Of a step that does not come to the selection of a protocol.
LEMMA CcidBefore ==
    ASSUME driver = "ccid", CcidInv, UNCHANGED <<icc, rdr>>, op # None, op' = op \/ op' = None, slot' = slot,
           at' \notin CcidSelecting \cup {"set_protocol"}
    PROVE  CcidSelection'
<1>1. /\ Live /\ slot.atr # None => slot.atr = icc.card
      /\ CcidPowered0
      /\ op # None /\ op.kind = "reset" => slot.proto = None /\ slot.atr \in {None, op.card}
  BY DEF CcidInv, CcidSelection
<1> QED
  BY <1>1 DEF CcidSelection, CcidSelecting, CcidPowered0, Live, Unused

LEMMA CcidStillKnows ==
    ASSUME OpInv, driver = "ccid", CcidInv, rdr' = rdr, op # None, op.kind # "open", CcidStill
    PROVE  CcidOpened /\ CcidKnows'
<1>1. CcidOpened
  BY DEF CcidInv, CcidKnows
<1>2. CcidOpened'
  BY <1>1 DEF CcidOpened, CcidStill
<1> QED
  BY <1>1, <1>2 DEF CcidKnows

\* The reader's features become the driver's flags.
LEMMA CcidFlags ==
    ASSUME NEW f
    PROVE  /\ "auto_atrparse" \in FlagsOf(f) <=> "atrparse" \in f
           /\ "no_setparam" \in FlagsOf(f) <=> "params" \in f
           /\ "no_pts" \in FlagsOf(f) <=> "params" \in f \/ "pps" \in f
           /\ TypeOf(f) = "apdu" => "apdu" \in f
<1>1. /\ "auto_atrparse" \in FlagsOf(f) <=> "atrparse" \in f
      /\ "no_setparam" \in FlagsOf(f) <=> "params" \in f
      /\ "no_pts" \in FlagsOf(f) <=> "params" \in f \/ "pps" \in f
  BY SMT DEF FlagsOf
<1>2. TypeOf(f) = "apdu" => "apdu" \in f
  BY SMT DEF TypeOf
<1> QED
  BY <1>1, <1>2

LEMMA CcidOpensStep ==
    ASSUME OpInv, IccInv, driver = "ccid", CcidInv, CcidDriver, CcidOpens
    PROVE  CcidInv' /\ SlotInv' /\ OpInv' /\ IccInv'
<1>1. /\ op # None /\ op \in Operations /\ UNCHANGED <<driver, icc, rdr>> /\ slot' = slot /\ at = "open"
  BY CcidDriverQuiet DEF CcidOpens
<1>2. CcidStates /\ op.kind = "open" /\ slot \in SlotType
  BY <1>1 DEF CcidInv, CcidKinds, OpInv, SlotInv, CcidPowers, CcidVoltages, CcidSelecting
<1>3. PICK b \in BOOLEAN : b = (icc # None)
  OBVIOUS
<1>4. CASE Fails /\ dd' = dd
  <2>1. Ends /\ told'.ok = FALSE
    BY <1>4, ReturnsEnds DEF Fails
  <2>2. told' = [op |-> op, ok |-> FALSE, data |-> <<>>, in |-> b]
    BY <1>3, <1>4 DEF Fails, Returns
  <2>3. told' # None /\ told'.op = op
    <3>1. told' \in [op : Operations, ok : BOOLEAN, data : {<<>>}, in : BOOLEAN]
      BY <1>1, <2>2
    <3>2. told' # None
      BY <3>1, DriverAssumption, Zenon
    <3> QED
      BY <2>2, <3>2
  <2>4. CcidKnows'
    BY <1>2, <2>1, <2>3 DEF CcidKnows, Ends
  <2>5. CcidShape' /\ dd'.ta1 \in BOOLEAN
    BY <1>2, <1>4 DEF CcidStates, CcidShape
  <2> QED
    BY <1>1, <1>2, <2>1, <2>4, <2>5, CcidEnds DEF CcidStates
<1>5. CASE ~(Fails /\ dd' = dd)
  <2> DEFINE f == rdr.features
             v == rdr.volts \cup (IF "voltage" \in f THEN {"auto"} ELSE {})
             d == dd
  <2>1. /\ dd' = [d EXCEPT !.type = TypeOf(f), !.flags = FlagsOf(f), !.protos = rdr.protos, !.volts = v]
        /\ Returns(TRUE, <<>>)
    BY <1>5 DEF CcidOpens
  <2>2. d = [type |-> d.type, flags |-> d.flags, protos |-> d.protos, volts |-> d.volts, seen |-> d.seen,
             proto |-> d.proto, par |-> d.par, ta1 |-> d.ta1, sbuf |-> d.sbuf]
    BY <1>2 DEF CcidStates, CcidShape
  <2>3. dd' = [type |-> TypeOf(f), flags |-> FlagsOf(f), protos |-> rdr.protos, volts |-> v, seen |-> d.seen,
               proto |-> d.proto, par |-> d.par, ta1 |-> d.ta1, sbuf |-> d.sbuf]
    <3> HIDE DEF f, v, d
    <3> QED
      BY <2>1, <2>2
  <2>4. CcidShape' /\ dd'.ta1 \in BOOLEAN
    BY <1>2, <2>3 DEF CcidStates, CcidShape
  <2>5. rdr.protos \subseteq {"T0", "T1"} /\ rdr.volts \subseteq {"5V", "3V", "1.8V"}
    BY <1>2 DEF CcidStates, CcidRdr
  <2>6. /\ "auto" \in v <=> "voltage" \in f
        /\ \A w \in {"5V", "3V", "1.8V"} : w \in v <=> w \in rdr.volts
    BY <2>5
  <2>7. CcidOpened'
    BY <1>1, <2>3, <2>5, <2>6, CcidFlags DEF CcidOpened
  <2>8. CcidKnows'
    BY <2>7 DEF CcidKnows
  <2>9. Ends
    BY <2>1, ReturnsEnds
  <2> QED
    BY <1>1, <1>2, <2>4, <2>8, <2>9, CcidEnds DEF CcidStates
<1> QED
  BY <1>4, <1>5

LEMMA CcidPollStep ==
    ASSUME OpInv, IccInv, driver = "ccid", CcidInv, CcidDriver, CcidPoll
    PROVE  CcidInv' /\ SlotInv' /\ OpInv' /\ IccInv'
<1>1. /\ op # None /\ UNCHANGED <<driver, icc, rdr>> /\ UNCHANGED <<op, told, slot, dd>> /\ at \in {"poll", "reset"}
  BY CcidDriverQuiet DEF CcidPoll
<1>2. CcidStates /\ slot \in SlotType /\ op.kind = at
  BY <1>1 DEF CcidInv, CcidKinds, OpInv, SlotInv, CcidPowers, CcidVoltages, CcidSelecting
<1>3. /\ at' = IF at = "poll" THEN "poll-status" ELSE "reset-status"
      /\ Call(at', Ccid("slotstat", <<>>))
  BY <1>1, SMT DEF CcidPoll, Call, Asked
<1>4. at' \in CcidCalls /\ at' \in CcidStats
  BY <1>1, <1>3 DEF CcidCalls, CcidStats
<1>5. Call(at', CcidCommand')
  BY <1>3, <1>4 DEF CcidCommand, CcidStats, CcidVoltages, Call
<1>6. CcidKinds' /\ CcidTries' /\ CcidBuffer'
  BY <1>1, <1>2, <1>3 DEF CcidKinds, CcidTries, CcidBuffer, CcidPowers, CcidVoltages, CcidSelecting
<1>7. CcidSelection'
  BY <1>1, <1>3, CcidBefore DEF CcidSelecting
<1>8. CcidShape' /\ CcidStill
  BY <1>1, <1>2 DEF CcidStates, CcidShape, CcidStill
<1> QED
  BY <1>1, <1>2, <1>4, <1>5, <1>6, <1>7, <1>8, CcidGoes DEF CcidStates, Stays

LEMMA CcidStatusSays ==
    ASSUME OpInv, driver = "ccid", CcidInv, CcidDriver, CcidPolled
    PROVE  /\ at \in CcidStats /\ reply # None
           /\ ~ProbeFailed => /\ OK /\ Probed \in Statuses
                              /\ Probed = "present" => op.card # None
                              /\ Probed = "absent" => icc = None
           /\ ProbeFailed => faults # 0
<1>1. at \in CcidStats /\ reply # None /\ cmd = None
  BY DEF CcidPolled, At, CcidStats
<1>2. /\ OK => CcidSays(reply.data)
      /\ ~OK => reply.st # "mute" /\ (CcidRefuses \/ faults # 0)
  BY <1>1 DEF CcidInv, CcidReply
<1>3. ~CcidRefuses
  BY <1>1 DEF CcidRefuses
<1>4. CASE OK
  <2>1. \/ reply.data = <<"present">> /\ op.card # None
        \/ reply.data = <<"absent">> /\ icc = None
    BY <1>1, <1>2, <1>4 DEF CcidSays
  <2>2. \/ Probed = "present" /\ op.card # None
        \/ Probed = "absent" /\ icc = None
    BY <1>4, <2>1 DEF Probed
  <2>3. ~ProbeFailed
    BY <1>4 DEF ProbeFailed
  <2> QED
    BY <1>1, <1>4, <2>2, <2>3 DEF Statuses
<1>5. CASE ~OK
  BY <1>1, <1>2, <1>3, <1>5 DEF ProbeFailed
<1> QED
  BY <1>4, <1>5

LEMMA CcidPolledStep ==
    ASSUME OpInv, IccInv, driver = "ccid", CcidInv, CcidDriver, CcidPolled
    PROVE  CcidInv' /\ SlotInv' /\ OpInv' /\ IccInv'
<1>1. /\ op # None /\ UNCHANGED <<driver, icc, rdr>> /\ at \in CcidStats
      /\ ~ProbeFailed => Probed \in Statuses
  BY CcidDriverQuiet, CcidStatusSays
<1>2. /\ CcidStates /\ slot \in SlotType /\ SlotInv
      /\ op.kind = IF at = "poll-status" THEN "poll" ELSE "reset"
  BY <1>1 DEF CcidInv, CcidKinds, OpInv, SlotInv, CcidStats, CcidPowers, CcidVoltages, CcidSelecting
<1>3. CASE ProbeFailed
  <2>1. Fails /\ slot' = slot /\ dd' = dd
    BY <1>3 DEF CcidPolled
  <2>2. Ends
    BY <2>1, ReturnsEnds DEF Fails
  <2>3. CcidShape' /\ CcidStill
    BY <1>2, <2>1 DEF CcidStates, CcidShape, CcidStill
  <2>4. CcidKnows'
    BY <1>1, <1>2, <2>3, CcidStillKnows
  <2> QED
    BY <1>2, <2>1, <2>2, <2>3, <2>4, CcidEnds DEF CcidStates
<1>4. CASE ~ProbeFailed
  <2>1. dd' = [dd EXCEPT !.seen = Probed]
    BY <1>4 DEF CcidPolled
  <2>2. CcidShape' /\ CcidStill /\ dd'.ta1 \in BOOLEAN
    BY <1>2, <2>1, CcidSeenSet DEF CcidStates
  <2>3. CcidKnows' /\ CcidOpened
    BY <1>1, <1>2, <2>2, CcidStillKnows
  <2>4. CASE at = "poll-status"
    <3>1. HasStatus(Probed, Probed # dd.seen)
      BY <1>4, <2>4 DEF CcidPolled
    <3>2. PICK c \in BOOLEAN : c = (Probed # dd.seen)
      OBVIOUS
    <3>3. /\ slot' \in SlotType /\ slot'.proto = slot.proto /\ Ends
          /\ slot'.atr = IF c THEN None ELSE slot.atr
      BY <1>1, <1>2, <1>4, <3>1, <3>2, StatusBecomes
    <3> QED
      BY <1>2, <2>2, <2>3, <3>3, CcidEnds DEF CcidStates
  <2>5. CASE at # "poll-status"
    <3>1. at = "reset-status" /\ slot' = slot /\ op.kind = "reset"
      BY <1>1, <1>2, <1>4, <2>5 DEF CcidPolled, CcidStats
    <3>2. CASE Fails
      <4>1. Ends
        BY <3>2, ReturnsEnds DEF Fails
      <4> QED
        BY <1>2, <2>2, <2>3, <3>1, <4>1, CcidEnds DEF CcidStates
    <3>3. CASE Call("poweron-auto", Ccid("poweron", <<"auto">>)) /\ Stays
      <4>1. at' = "poweron-auto" /\ at' \in CcidCalls /\ Call(at', CcidCommand')
        BY <3>3 DEF Call, CcidCommand, CcidCalls, CcidPowers, CcidStats, CcidVoltages
      <4>2. CcidKinds' /\ CcidTries' /\ CcidBuffer'
        BY <3>1, <3>3, <4>1 DEF CcidKinds, CcidTries, CcidBuffer, CcidPowers, CcidVoltages, CcidSelecting, Stays
      <4>3. CcidSelection'
        BY <1>1, <3>1, <3>3, <4>1, CcidBefore DEF CcidSelecting, Stays
      <4> QED
        BY <1>2, <2>2, <3>1, <3>3, <4>1, <4>2, <4>3, CcidGoes DEF CcidStates
    <3>4. CASE Probed # "absent" /\ "auto" \notin dd.volts /\ Goes("poweron-manual") /\ Stays
      <4>1. at' = "poweron-manual" /\ at' \in CcidPassing
        BY <3>4 DEF Goes, CcidPassing
      <4>2. "voltage" \notin rdr.features
        BY <2>3, <3>4 DEF CcidOpened
      <4>3. CcidKinds' /\ CcidTries' /\ CcidBuffer'
        BY <1>1, <3>1, <3>4, <4>1, <4>2 DEF CcidKinds, CcidTries, CcidBuffer, CcidPowers, CcidVoltages, CcidSelecting, Stays
      <4>4. CcidSelection'
        BY <1>1, <3>1, <3>4, <4>1, CcidBefore DEF CcidSelecting, Stays
      <4> QED
        BY <1>2, <2>2, <3>1, <3>4, <4>1, <4>3, <4>4, CcidGoes DEF CcidStates
    <3> QED
      BY <1>1, <1>4, <3>1, <3>2, <3>3, <3>4 DEF CcidPolled, Statuses
  <2> QED
    BY <2>4, <2>5
<1> QED
  BY <1>3, <1>4

\* The reader has reset the card.
LEMMA CcidHasAtr ==
    ASSUME OpInv, IccInv, driver = "ccid", CcidInv, CcidDriver, at \in CcidPowers, cmd = None, reply # None, OK,
           HasAtr(Head(reply.data)), dd' = dd
    PROVE  CcidInv' /\ SlotInv' /\ OpInv' /\ IccInv'
<1>1. /\ op # None /\ UNCHANGED <<driver, icc, rdr>>
      /\ icc # None => op.card = icc.card
  BY CcidDriverQuiet DEF OpInv
<1>2. /\ CcidStates /\ slot \in SlotType /\ SlotInv /\ op.kind = "reset" /\ at # "xfr"
  BY <1>1 DEF CcidInv, CcidKinds, OpInv, SlotInv, CcidPowers, CcidVoltages, CcidSelecting
<1>3. Head(reply.data) = op.card /\ op.card \in Cards /\ CcidFresh
  <2>1. CcidSays(reply.data)
    BY DEF CcidInv, CcidReply
  <2>2. reply.data = <<op.card>> /\ op.card \in Cards /\ CcidFresh
    BY <2>1 DEF CcidSays
  <2> QED
    BY <2>2
<1>4. /\ slot' \in SlotType /\ slot'.proto = slot.proto /\ slot'.atr = op.card /\ at' = "set_protocol"
      /\ UNCHANGED <<op, told, cmd, reply>>
  BY <1>2, <1>3, AtrBecomes DEF Atrs
<1>5. CcidShape' /\ CcidStill /\ dd'.ta1 \in BOOLEAN
  BY <1>2 DEF CcidStates, CcidShape, CcidStill
<1>6. Goes(at') /\ at' \in CcidPassing /\ Stays
  BY <1>4 DEF Goes, CcidPassing, Stays
<1>7. CcidKinds' /\ CcidTries' /\ CcidBuffer'
  BY <1>2, <1>4 DEF CcidKinds, CcidTries, CcidBuffer, CcidPowers, CcidVoltages, CcidSelecting
<1>8. CcidSelection'
  <2>1. CcidFresh' /\ CcidPowered0'
    BY <1>1, <1>3 DEF CcidInv, CcidSelection, CcidFresh, CcidPowered0, Live, Unused, ByItself
  <2>2. slot.proto = None
    BY <1>1, <1>2 DEF CcidInv, CcidSelection
  <2> QED
    BY <1>1, <1>2, <1>3, <1>4, <2>1, <2>2 DEF CcidSelection, CcidSelecting, Live, Unused
<1> QED
  BY <1>2, <1>3, <1>4, <1>5, <1>6, <1>7, <1>8, CcidGoes

\* One of the voltages is tried.
LEMMA CcidTriesOne ==
    ASSUME OpInv, IccInv, driver = "ccid", CcidInv, CcidDriver, at # "xfr", op.kind = "reset",
           NEW v \in CcidVoltages, Tries(v), Stays, UNCHANGED <<slot, dd>>, CcidTries'
    PROVE  CcidInv' /\ SlotInv' /\ OpInv' /\ IccInv'
<1>1. op # None /\ UNCHANGED <<driver, icc, rdr>> /\ op' = op /\ at' = v
  BY CcidDriverQuiet DEF Stays, Tries, Call
<1>2. CcidStates /\ slot \in SlotType
  BY <1>1 DEF CcidInv, OpInv, SlotInv
<1>3. at' \in CcidCalls /\ Call(at', CcidCommand')
  BY <1>1, SMT DEF Tries, Call, CcidCommand, CcidCalls, CcidPowers, CcidStats, CcidVoltages
<1>4. CcidKinds' /\ CcidBuffer'
  BY <1>1 DEF CcidKinds, CcidBuffer, CcidPowers, CcidVoltages, CcidSelecting
<1>5. CcidSelection'
  BY <1>1, CcidBefore DEF CcidSelecting, CcidVoltages
<1>6. CcidShape' /\ CcidStill /\ dd'.ta1 \in BOOLEAN
  BY <1>2 DEF CcidStates, CcidShape, CcidStill
<1> QED
  BY <1>1, <1>2, <1>3, <1>4, <1>5, <1>6, CcidGoes DEF CcidStates

\* The voltages are tried from the highest down, those the reader has.
LEMMA CcidLeft ==
    ASSUME NEW v \in CcidVoltages \cup {None}
    PROVE  /\ Left(v) = {} =>
                /\ v = None => "5V" \notin dd.volts
                /\ v \in {None, "5V"} => "3V" \notin dd.volts
                /\ v \in {None, "5V", "3V"} => "1.8V" \notin dd.volts
           /\ Left(v) # {} =>
                /\ NextVolt(v) \in CcidVoltages /\ NextVolt(v) \in dd.volts
                /\ NextVolt(v) = "5V" => v = None
                /\ NextVolt(v) = "3V" => v \in {None, "5V"} /\ (v = None => "5V" \notin dd.volts)
                /\ NextVolt(v) = "1.8V" =>
                     /\ v \in {None, "5V", "3V"}
                     /\ v = None => "5V" \notin dd.volts
                     /\ v \in {None, "5V"} => "3V" \notin dd.volts
<1>1. 1 .. 3 = {1, 2, 3} /\ 1 .. (1 - 1) = {} /\ 1 .. (2 - 1) = {1} /\ 1 .. (3 - 1) = {1, 2}
  BY SMT
<1>2. v # None => v \in CcidVoltages
  OBVIOUS
<1>3. Left(v) = {i \in {1, 2, 3} : Volts[i] \in dd.volts /\ (v # None => \E j \in 1 .. i - 1 : Volts[j] = v)}
  BY <1>1, CcidVolts DEF Left
<1>4. /\ 1 \in Left(v) <=> "5V" \in dd.volts /\ v = None
      /\ 2 \in Left(v) <=> "3V" \in dd.volts /\ v \in {None, "5V"}
      /\ 3 \in Left(v) <=> "1.8V" \in dd.volts /\ v \in {None, "5V", "3V"}
  <2>1. 1 \in Left(v) <=> "5V" \in dd.volts /\ (v # None => \E j \in {} : Volts[j] = v)
    BY <1>1, <1>3, CcidVolts
  <2>2. 2 \in Left(v) <=> "3V" \in dd.volts /\ (v # None => \E j \in {1} : Volts[j] = v)
    BY <1>1, <1>3, CcidVolts
  <2>3. 3 \in Left(v) <=> "1.8V" \in dd.volts /\ (v # None => \E j \in {1, 2} : Volts[j] = v)
    BY <1>1, <1>3, CcidVolts
  <2> QED
    BY <2>1, <2>2, <2>3, CcidVolts
<1>5. Left(v) \subseteq {1, 2, 3}
  BY <1>3
<1>6. CASE Left(v) = {}
  BY <1>4, <1>6, CcidAssumption DEF CcidVoltages
<1>7. CASE Left(v) # {}
  <2> DEFINE n == CHOOSE i \in Left(v) : \A j \in Left(v) : i <= j
  <2>1. \E i \in Left(v) : \A j \in Left(v) : i <= j
    BY <1>5, <1>7
  <2>2. n \in Left(v) /\ \A j \in Left(v) : n <= j
    BY <2>1
  <2>3. NextVolt(v) = Volts[n]
    BY DEF NextVolt
  <2> HIDE DEF n
  <2>4. n \in {1, 2, 3}
    BY <1>5, <2>2
  <2>5. CASE n = 1
    BY <1>4, <1>7, <2>2, <2>3, <2>5, CcidVolts DEF CcidVoltages
  <2>6. CASE n = 2
    <3>1. 1 \notin Left(v)
      BY <2>2, <2>6
    <3> QED
      BY <1>4, <1>7, <2>2, <2>3, <2>6, <3>1, CcidVolts DEF CcidVoltages
  <2>7. CASE n = 3
    <3>1. 1 \notin Left(v) /\ 2 \notin Left(v)
      BY <2>2, <2>7
    <3> QED
      BY <1>4, <1>7, <2>2, <2>3, <2>7, <3>1, CcidVolts DEF CcidVoltages
  <2> QED
    BY <2>4, <2>5, <2>6, <2>7
<1> QED
  BY <1>6, <1>7

LEMMA CcidPowering ==
    ASSUME OpInv, driver = "ccid", CcidInv, CcidDriver, CcidPowered \/ CcidTriesVolts \/ CcidTriedVolt
    PROVE  /\ op # None /\ op.kind = "reset" /\ slot \in SlotType /\ SlotInv /\ at # "xfr" /\ CcidStates
           /\ UNCHANGED <<driver, icc, rdr, faults>>
           /\ CcidTries /\ CcidOpened
           /\ dd' = dd /\ CcidShape' /\ CcidStill /\ dd'.ta1 \in BOOLEAN /\ CcidKnows'
           /\ CcidTriesVolts => at = "poweron-manual"
           /\ CcidTriedVolt => at \in CcidVoltages
<1>1. op # None /\ cmd = None /\ UNCHANGED <<driver, icc, rdr, faults>>
  BY CcidDriverQuiet
<1>2. /\ at \in {"poweron-auto", "poweron-manual"} \cup CcidVoltages /\ dd' = dd
      /\ CcidTriesVolts => at = "poweron-manual"
      /\ CcidTriedVolt => at \in CcidVoltages
  BY CcidVolts DEF CcidPowered, CcidTriesVolts, CcidTriedVolt, At
<1>3. op.kind = "reset" /\ slot \in SlotType /\ SlotInv /\ at # "xfr" /\ CcidStates /\ CcidTries
  BY <1>1, <1>2 DEF CcidInv, CcidKinds, OpInv, SlotInv, CcidPowers, CcidVoltages, CcidSelecting
<1>4. CcidShape' /\ CcidStill /\ dd'.ta1 \in BOOLEAN
  BY <1>2, <1>3 DEF CcidStates, CcidShape, CcidStill
<1>5. CcidOpened /\ CcidKnows'
  BY <1>1, <1>3, <1>4, CcidStillKnows
<1> QED
  BY <1>1, <1>2, <1>3, <1>4, <1>5

LEMMA CcidPoweredStep ==
    ASSUME OpInv, IccInv, driver = "ccid", CcidInv, CcidDriver, CcidPowered
    PROVE  CcidInv' /\ SlotInv' /\ OpInv' /\ IccInv'
<1>1. /\ op # None /\ op.kind = "reset" /\ slot \in SlotType /\ at # "xfr" /\ CcidStates
      /\ UNCHANGED <<driver, icc, rdr>> /\ CcidOpened
      /\ dd' = dd /\ CcidShape' /\ CcidStill /\ dd'.ta1 \in BOOLEAN /\ CcidKnows'
  BY CcidPowering
<1>2. at = "poweron-auto" /\ at \in CcidPowers /\ cmd = None /\ reply # None
  BY DEF CcidPowered, At, CcidPowers
<1>3. CASE OK
  <2>1. HasAtr(Head(reply.data))
    BY <1>3 DEF CcidPowered
  <2> QED
    BY <1>1, <1>2, <1>3, <2>1, CcidHasAtr
<1>4. CASE ~OK /\ "auto" \in dd.volts
  <2>1. Fails /\ slot' = slot
    BY <1>4 DEF CcidPowered
  <2>2. Ends
    BY <2>1, ReturnsEnds DEF Fails
  <2> QED
    BY <1>1, <2>1, <2>2, CcidEnds DEF CcidStates
<1>5. CASE ~OK /\ "auto" \notin dd.volts
  <2>1. Goes("poweron-manual") /\ Stays /\ slot' = slot
    BY <1>5 DEF CcidPowered
  <2>2. at' = "poweron-manual" /\ at' \in CcidPassing /\ op' = op
    BY <2>1 DEF Goes, CcidPassing, Stays
  <2>3. "voltage" \notin rdr.features
    BY <1>1, <1>5 DEF CcidOpened
  <2>4. CcidKinds' /\ CcidTries' /\ CcidBuffer'
    BY <1>1, <2>2, <2>3 DEF CcidKinds, CcidTries, CcidBuffer, CcidPowers, CcidVoltages, CcidSelecting
  <2>5. CcidSelection'
    BY <1>1, <2>1, <2>2, CcidBefore DEF CcidSelecting
  <2> QED
    BY <1>1, <2>1, <2>2, <2>4, <2>5, CcidGoes DEF CcidStates
<1> QED
  BY <1>3, <1>4, <1>5

LEMMA CcidTriesVoltsStep ==
    ASSUME OpInv, IccInv, driver = "ccid", CcidInv, CcidDriver, CcidTriesVolts
    PROVE  CcidInv' /\ SlotInv' /\ OpInv' /\ IccInv'
<1>1. /\ op # None /\ op.kind = "reset" /\ slot \in SlotType /\ at = "poweron-manual" /\ CcidStates
      /\ UNCHANGED <<driver, icc, rdr, faults>> /\ CcidOpened /\ CcidTries
      /\ dd' = dd /\ CcidShape' /\ CcidStill /\ dd'.ta1 \in BOOLEAN /\ CcidKnows'
  BY CcidPowering
<1>2. slot' = slot
  BY DEF CcidTriesVolts
<1>3. CASE Left(None) = {}
  <2>1. Ends
    BY <1>3, ReturnsEnds DEF CcidTriesVolts, Fails
  <2> QED
    BY <1>1, <1>2, <2>1, CcidEnds DEF CcidStates
<1>4. CASE Left(None) # {}
  <2>1. Tries(NextVolt(None)) /\ Stays
    BY <1>4 DEF CcidTriesVolts
  <2>2. PICK v \in CcidVoltages : v = NextVolt(None)
    BY <1>4, CcidLeft
  <2>3. /\ v = "3V" => "5V" \notin dd.volts
        /\ v = "1.8V" => "5V" \notin dd.volts /\ "3V" \notin dd.volts
    BY <1>4, <2>2, CcidLeft
  <2>4. \A w \in {"5V", "3V", "1.8V"} : w \in dd.volts <=> w \in rdr.volts
    BY <1>1 DEF CcidOpened
  <2>5. at' = v
    BY <2>1, <2>2 DEF Tries, Call
  <2>6. CcidTries'
    BY <1>1, <2>2, <2>3, <2>4, <2>5 DEF CcidTries, CcidVoltages
  <2> QED
    BY <1>1, <1>2, <2>1, <2>2, <2>6, CcidTriesOne
<1> QED
  BY <1>3, <1>4

\* The voltage that was tried is not the card's, if the reader has answered.
LEMMA CcidNotThat ==
    ASSUME driver = "ccid", CcidInv, CcidTriedVolt, ~OK, at \in CcidVoltages
    PROVE  icc # None /\ faults = 0 => icc.card.volt # at
<1>1. CcidRefuses \/ faults # 0
  BY DEF CcidInv, CcidReply, CcidTriedVolt, At, CcidPowers
<1> QED
  BY <1>1 DEF CcidRefuses

LEMMA CcidTriedVoltStep ==
    ASSUME OpInv, IccInv, driver = "ccid", CcidInv, CcidDriver, CcidTriedVolt
    PROVE  CcidInv' /\ SlotInv' /\ OpInv' /\ IccInv'
<1>1. /\ op # None /\ op.kind = "reset" /\ slot \in SlotType /\ at \in CcidVoltages /\ at # "xfr" /\ CcidStates
      /\ UNCHANGED <<driver, icc, rdr, faults>> /\ CcidOpened /\ CcidTries
      /\ dd' = dd /\ CcidShape' /\ CcidStill /\ dd'.ta1 \in BOOLEAN /\ CcidKnows'
  BY CcidPowering
<1>2. at \in CcidPowers /\ cmd = None /\ reply # None
  BY <1>1 DEF CcidTriedVolt, At, CcidPowers
<1>3. CASE OK
  <2>1. HasAtr(Head(reply.data))
    BY <1>3 DEF CcidTriedVolt
  <2> QED
    BY <1>1, <1>2, <1>3, <2>1, CcidHasAtr
<1>4. CASE ~OK /\ Left(at) = {}
  <2>1. Fails /\ slot' = slot
    BY <1>4 DEF CcidTriedVolt
  <2>2. Ends
    BY <2>1, ReturnsEnds DEF Fails
  <2> QED
    BY <1>1, <2>1, <2>2, CcidEnds DEF CcidStates
<1>5. CASE ~OK /\ Left(at) # {}
  <2>1. Tries(NextVolt(at)) /\ Stays /\ slot' = slot
    BY <1>5 DEF CcidTriedVolt
  <2>2. PICK v \in CcidVoltages : v = NextVolt(at)
    BY <1>1, <1>5, CcidLeft
  <2>3. None \notin CcidVoltages
    BY CcidAssumption DEF CcidVoltages
  <2>4. /\ v # "5V"
        /\ v = "3V" => at = "5V"
        /\ v = "1.8V" => at \in {"5V", "3V"} /\ (at = "5V" => "3V" \notin dd.volts)
    BY <1>1, <1>5, <2>2, <2>3, CcidLeft
  <2>5. \A w \in {"5V", "3V", "1.8V"} : w \in dd.volts <=> w \in rdr.volts
    BY <1>1 DEF CcidOpened
  <2>6. icc # None /\ faults = 0 => icc.card.volt # at
    BY <1>1, <1>5, CcidNotThat
  <2>7. at' = v
    BY <2>1, <2>2 DEF Tries, Call
  <2>8. CcidTries'
    BY <1>1, <2>2, <2>4, <2>5, <2>6, <2>7 DEF CcidTries, CcidVoltages
  <2> QED
    BY <1>1, <2>1, <2>2, <2>8, CcidTriesOne
<1> QED
  BY <1>3, <1>4, <1>5

LEMMA CcidSelectedEnds ==
    ASSUME OpInv, IccInv, driver = "ccid", CcidInv, CcidDriver, op.kind # "open",
           Wanted \in dd.protos, Selected(Wanted)
    PROVE  /\ CcidInv' /\ SlotInv' /\ OpInv' /\ IccInv'
           /\ Ends /\ told'.ok = TRUE /\ slot'.atr = slot.atr /\ slot'.status = slot.status
           /\ dd'.proto = Wanted /\ CcidStill
<1>1. op # None /\ UNCHANGED <<driver, icc, rdr>>
  BY CcidDriverQuiet
<1>2. CcidStates /\ slot \in SlotType /\ CcidOpened
  BY <1>1 DEF CcidInv, CcidKnows, OpInv, SlotInv
<1>3. Wanted \in {"T0", "T1"}
  BY <1>2 DEF CcidOpened
<1>4. PICK p \in {"T0", "T1", "transparent"} : slot' = [slot EXCEPT !.proto = p]
  BY <1>3 DEF Selected
<1>5. /\ slot' \in SlotType /\ slot'.atr = slot.atr /\ slot'.status = slot.status /\ slot'.proto = p
  BY <1>2, <1>4, SlotGetsProto DEF Protos
<1>6. CcidShape' /\ CcidStill /\ dd'.proto = Wanted /\ dd'.ta1 = dd.ta1
  BY <1>2, CcidProtoSet DEF CcidStates, Selected
<1>7. Ends /\ told'.ok = TRUE
  BY ReturnsEnds DEF Selected
<1>8. CcidKnows'
  BY <1>1, <1>6, CcidStillKnows
<1> QED
  BY <1>2, <1>5, <1>6, <1>7, <1>8, CcidEnds DEF CcidStates

LEMMA CcidSelectionEnds ==
    ASSUME OpInv, IccInv, driver = "ccid", CcidInv, CcidDriver, op.kind # "open",
           NEW ok, NEW data, Returns(ok, data), slot' = slot, CcidShape', CcidStill, dd'.ta1 \in BOOLEAN
    PROVE  CcidInv' /\ SlotInv' /\ OpInv' /\ IccInv'
<1>1. op # None /\ UNCHANGED <<driver, icc, rdr>>
  BY CcidDriverQuiet
<1>2. CcidStates /\ slot \in SlotType
  BY <1>1 DEF CcidInv, OpInv, SlotInv
<1>3. Ends
  BY ReturnsEnds
<1>4. CcidKnows'
  BY <1>1, CcidStillKnows
<1> QED
  BY <1>2, <1>3, <1>4, CcidEnds DEF CcidStates

\* What is known wherever the selection has come.
LEMMA CcidSelects0 ==
    ASSUME OpInv, IccInv, driver = "ccid", CcidInv, CcidDriver, at \in CcidSelecting \cup {"set_protocol", "select"}
    PROVE  /\ op # None /\ op.kind \in {"reset", "select"} /\ cmd = None /\ at # "xfr"
           /\ UNCHANGED <<driver, icc, rdr>>
           /\ CcidStates /\ slot \in SlotType /\ CcidOpened /\ CcidSelection
           /\ icc # None => icc \in IccType /\ op.card = icc.card
           /\ Unused => icc.proto = Head(icc.card.protos) /\ icc.speed = "default" /\ rdr.speed = "default"
           /\ op.kind = "reset" => at # "select" /\ slot.proto = None /\ slot.atr = op.card /\ op.card \in Cards
<1>1. op # None /\ cmd = None /\ UNCHANGED <<driver, icc, rdr>>
  BY CcidDriverQuiet
<1>2. at # "xfr" /\ op.kind \in {"reset", "select"} /\ (op.kind = "reset" => at # "select")
  BY <1>1 DEF CcidInv, CcidKinds, CcidSelecting, CcidPowers, CcidVoltages
<1>3. CcidStates /\ slot \in SlotType /\ CcidOpened /\ CcidSelection
  BY <1>1, <1>2 DEF CcidInv, CcidKnows, OpInv, SlotInv
<1>4. icc # None => icc \in IccType /\ op.card = icc.card
  BY <1>1 DEF OpInv, IccInv
<1>5. Unused => icc.proto = Head(icc.card.protos) /\ icc.speed = "default" /\ rdr.speed = "default"
  BY <1>3 DEF CcidSelection, CcidPowered0
<1>6. op.kind = "reset" => slot.proto = None /\ slot.atr = op.card /\ op.card \in Cards
  BY <1>1, <1>2, <1>3 DEF CcidSelection
<1> QED
  BY <1>1, <1>2, <1>3, <1>4, <1>5, <1>6

LEMMA CcidSelectsStep ==
    ASSUME OpInv, IccInv, driver = "ccid", CcidInv, CcidDriver, CcidSelects
    PROVE  CcidInv' /\ SlotInv' /\ OpInv' /\ IccInv'
<1>1. at \in {"set_protocol", "select"}
  BY DEF CcidSelects
<1>2. /\ op # None /\ op.kind \in {"reset", "select"} /\ at # "xfr"
      /\ UNCHANGED <<driver, icc, rdr>>
      /\ CcidStates /\ slot \in SlotType /\ CcidOpened /\ CcidSelection
      /\ icc # None => op.card = icc.card
      /\ op.kind = "reset" => at # "select" /\ slot.proto = None /\ slot.atr = op.card /\ op.card \in Cards
  BY <1>1, CcidSelects0
<1>3. CASE Wanted \notin dd.protos \/ (dd.type # "apdu" /\ slot.atr = None)
  <2>1. (SelectFails \/ Fails) /\ slot' = slot /\ dd' = dd
    BY <1>3 DEF CcidSelects
  <2>2. CcidShape' /\ CcidStill /\ dd'.ta1 \in BOOLEAN
    BY <1>2, <2>1 DEF CcidStates, CcidShape, CcidStill
  <2> QED
    BY <1>2, <2>1, <2>2, CcidSelectionEnds DEF SelectFails, Fails
<1>4. CASE Wanted \in dd.protos /\ dd.type = "apdu"
  <2>1. Selected(Wanted)
    BY <1>4 DEF CcidSelects
  <2> QED
    BY <1>2, <1>4, <2>1, CcidSelectedEnds
<1>5. CASE Wanted \in dd.protos /\ dd.type # "apdu" /\ slot.atr # None
  <2>1. /\ dd' = [dd EXCEPT !.ta1 = slot.atr.ta1]
        /\ op' = op /\ told' = told /\ slot' = slot
        /\ IF "no_setparam" \in dd.flags
           THEN Goes("pts") ELSE Call("getparams", Ccid("getparams", <<>>))
    BY <1>5 DEF CcidSelects
  <2>2. slot.atr \in Cards /\ slot.atr.ta1 \in BOOLEAN
    BY <1>2, <1>5, DriverAssumption DEF CcidStates
  <2>3. /\ CcidShape' /\ CcidStill /\ dd'.ta1 \in BOOLEAN
        /\ dd'.par = dd.par
    BY <1>2, <2>1, <2>2, CcidTa1Set DEF CcidStates
  <2>4. at' = IF "params" \in rdr.features THEN "pts" ELSE "getparams"
    BY <1>2, <2>1 DEF CcidOpened, Goes, Call
  <2>5. \/ Goes(at') /\ at' \in CcidPassing
        \/ at' \in CcidCalls /\ Call(at', CcidCommand')
    BY <1>2, <2>1, <2>4 DEF CcidOpened, Goes, Call, CcidPassing, CcidCalls, CcidCommand, CcidStats, CcidVoltages
  <2>6. CcidKinds' /\ CcidTries' /\ CcidBuffer'
    BY <1>2, <2>1, <2>4 DEF CcidKinds, CcidTries, CcidBuffer, CcidPowers, CcidVoltages, CcidSelecting
  <2>7. Wanted' = Wanted
    BY <2>1 DEF Wanted
  <2>8. op.kind = "reset" => CcidFresh
    BY <1>1, <1>2 DEF CcidSelection
  <2>9. CcidSelection'
    BY <1>2, <1>5, <2>1, <2>3, <2>4, <2>7, <2>8
       DEF CcidSelection, CcidSelecting, CcidStill, CcidFresh, CcidPowered0, Live, Unused, ByItself
  <2> QED
    BY <1>2, <2>1, <2>3, <2>5, <2>6, <2>9, CcidGoes DEF CcidStates, Stays
<1> QED
  BY <1>3, <1>4, <1>5

LEMMA CcidGotParamsStep ==
    ASSUME OpInv, IccInv, driver = "ccid", CcidInv, CcidDriver, CcidGotParams
    PROVE  CcidInv' /\ SlotInv' /\ OpInv' /\ IccInv'
<1>1. at = "getparams" /\ reply # None /\ slot' = slot /\ at \in CcidSelecting
  BY DEF CcidGotParams, At, CcidSelecting
<1>2. /\ op # None /\ op.kind \in {"reset", "select"} /\ at # "xfr" /\ cmd = None
      /\ UNCHANGED <<driver, icc, rdr>>
      /\ CcidStates /\ slot \in SlotType /\ CcidOpened /\ CcidSelection
      /\ op.kind = "reset" => at # "select" /\ slot.proto = None /\ slot.atr = op.card /\ op.card \in Cards
  BY <1>1, CcidSelects0
<1>3. CASE ~OK
  <2>1. SelectFails /\ dd' = dd
    BY <1>3 DEF CcidGotParams
  <2>2. CcidShape' /\ CcidStill /\ dd'.ta1 \in BOOLEAN
    BY <1>2, <2>1 DEF CcidStates, CcidShape, CcidStill
  <2> QED
    BY <1>1, <1>2, <2>1, <2>2, CcidSelectionEnds DEF SelectFails
<1>4. CASE OK
  <2>1. CcidSays(reply.data)
    BY <1>1, <1>2, <1>4 DEF CcidInv, CcidReply
  <2>2. PICK s \in {"default", "ta1"} : reply.data = <<s>> /\ (Unused => s = "default")
    BY <1>1, <2>1 DEF CcidSays
  <2>3. Head(reply.data) = s
    BY <2>2
  <2>4. /\ dd' = [dd EXCEPT !.par = s]
        /\ IF dd.flags \cap {"no_pts", "auto_atrparse"} = {} /\ slot.atr.tc1
           THEN Call("guard", Ccid("setparams", <<Wanted, s>>))
           ELSE Goes("pts")
        /\ op' = op /\ told' = told
    BY <1>4, <2>3 DEF CcidGotParams, Stays
  <2>5. CcidShape' /\ CcidStill /\ dd'.ta1 \in BOOLEAN /\ dd'.par = s /\ dd'.ta1 = dd.ta1
    BY <1>2, <2>4, CcidParSet DEF CcidStates
  <2>6. Wanted' = Wanted
    BY <1>1, <2>4 DEF Wanted
  <2>7. \/ Goes(at') /\ at' = "pts"
        \/ /\ at' = "guard" /\ Call(at', CcidCommand')
           /\ "no_pts" \notin dd.flags /\ "auto_atrparse" \notin dd.flags
    <3>1. CASE dd.flags \cap {"no_pts", "auto_atrparse"} = {} /\ slot.atr.tc1
      <4>1. at' = "guard" /\ Call(at', Ccid("setparams", <<Wanted, s>>))
        BY <2>4, <3>1 DEF Call
      <4>2. CcidCommand' = Ccid("setparams", <<Wanted', dd'.par>>)
        BY <4>1 DEF CcidCommand, CcidStats, CcidVoltages
      <4> QED
        BY <2>5, <2>6, <3>1, <4>1, <4>2
    <3>2. CASE ~(dd.flags \cap {"no_pts", "auto_atrparse"} = {} /\ slot.atr.tc1)
      BY <2>4, <3>2 DEF Goes
    <3> QED
      BY <3>1, <3>2
  <2>8. at' \in {"pts", "guard"} /\ (at' = "guard" => "pps" \notin rdr.features /\ "atrparse" \notin rdr.features)
    BY <1>2, <2>7 DEF CcidOpened
  <2>9. CcidKinds' /\ CcidTries' /\ CcidBuffer'
    BY <1>2, <2>4, <2>8 DEF CcidKinds, CcidTries, CcidBuffer, CcidPowers, CcidVoltages, CcidSelecting
  <2>10. CcidSelection'
    BY <1>1, <1>2, <2>2, <2>4, <2>5, <2>6, <2>8
       DEF CcidSelection, CcidSelecting, CcidStill, CcidPowered0, Live, Unused
  <2> QED
    BY <1>1, <1>2, <2>4, <2>5, <2>7, <2>9, <2>10, CcidGoes DEF CcidStates, CcidPassing, CcidCalls, Stays
<1> QED
  BY <1>3, <1>4

LEMMA CcidGuardedStep ==
    ASSUME OpInv, IccInv, driver = "ccid", CcidInv, CcidDriver, CcidGuarded
    PROVE  CcidInv' /\ SlotInv' /\ OpInv' /\ IccInv'
<1>1. at = "guard" /\ slot' = slot /\ dd' = dd /\ at \in CcidSelecting
  BY DEF CcidGuarded, At, CcidSelecting
<1>2. /\ op # None /\ op.kind \in {"reset", "select"} /\ at # "xfr"
      /\ UNCHANGED <<driver, icc, rdr>>
      /\ CcidStates /\ slot \in SlotType /\ CcidOpened /\ CcidSelection
      /\ op.kind = "reset" => at # "select" /\ slot.proto = None /\ slot.atr = op.card /\ op.card \in Cards
  BY <1>1, CcidSelects0
<1>3. CcidShape' /\ CcidStill /\ dd'.ta1 \in BOOLEAN
  BY <1>1, <1>2 DEF CcidStates, CcidShape, CcidStill
<1>4. CASE SelectFails
  BY <1>1, <1>2, <1>3, <1>4, CcidSelectionEnds DEF SelectFails
<1>5. CASE Goes("pts") /\ Stays
  <2>1. at' = "pts" /\ at' \in CcidPassing /\ op' = op
    BY <1>5 DEF Goes, CcidPassing, Stays
  <2>2. CcidKinds' /\ CcidTries' /\ CcidBuffer'
    BY <1>2, <2>1 DEF CcidKinds, CcidTries, CcidBuffer, CcidPowers, CcidVoltages, CcidSelecting
  <2>3. Wanted' = Wanted
    BY <1>1, <2>1 DEF Wanted
  <2>4. CcidSelection'
    BY <1>1, <1>2, <2>1, <2>3
       DEF CcidSelection, CcidSelecting, CcidPowered0, Live, Unused
  <2> QED
    BY <1>1, <1>2, <1>3, <1>5, <2>1, <2>2, <2>4, CcidGoes DEF CcidStates
<1> QED
  BY <1>4, <1>5 DEF CcidGuarded

\* The card's protocol when the first that its ATR names is wanted.
LEMMA CcidUnused ==
    ASSUME driver = "ccid", CcidInv, icc # None => op.card = icc.card,
           op.kind = "reset", slot.atr = op.card, Unused
    PROVE  icc.proto = Wanted /\ icc.speed = "default"
<1>1. icc.proto = Head(icc.card.protos) /\ icc.speed = "default" /\ icc # None
  BY DEF CcidInv, CcidSelection, CcidPowered0, Unused, Live
<1>2. Wanted = Head(op.card.protos)
  BY DEF Wanted
<1> QED
  BY <1>1, <1>2

LEMMA CcidPtsStep ==
    ASSUME OpInv, IccInv, driver = "ccid", CcidInv, CcidDriver, CcidPts
    PROVE  CcidInv' /\ SlotInv' /\ OpInv' /\ IccInv'
<1>1. at = "pts" /\ slot' = slot /\ dd' = dd /\ at \in CcidSelecting
  BY DEF CcidPts, CcidSelecting
<1>2. /\ op # None /\ op.kind \in {"reset", "select"} /\ at # "xfr"
      /\ UNCHANGED <<driver, icc, rdr>>
      /\ CcidStates /\ slot \in SlotType /\ CcidOpened /\ CcidSelection
      /\ icc # None => op.card = icc.card
      /\ op.kind = "reset" => at # "select" /\ slot.proto = None /\ slot.atr = op.card /\ op.card \in Cards
  BY <1>1, CcidSelects0
<1>3. CcidShape' /\ CcidStill /\ dd'.ta1 \in BOOLEAN
  BY <1>1, <1>2 DEF CcidStates, CcidShape, CcidStill
<1>4. CASE SelectFails
  BY <1>1, <1>2, <1>3, <1>4, CcidSelectionEnds DEF SelectFails
<1>5. CASE NeedsPts /\ Call("pts-sent", Ccid("pts", <<[proto |-> Wanted, ta1 |-> dd.ta1]>>)) /\ Stays
  <2>1. at' = "pts-sent" /\ at' \in CcidCalls /\ op' = op
    BY <1>5 DEF Call, CcidCalls, Stays
  <2>2. Wanted' = Wanted
    BY <1>1, <2>1 DEF Wanted
  <2>3. CcidCommand' = Ccid("pts", <<[proto |-> Wanted', ta1 |-> dd'.ta1]>>)
    BY <2>1 DEF CcidCommand, CcidStats, CcidVoltages
  <2>4. Call(at', CcidCommand')
    BY <1>1, <1>5, <2>1, <2>2, <2>3
  <2>5. "params" \notin rdr.features /\ "pps" \notin rdr.features
    BY <1>2, <1>5 DEF CcidOpened, NeedsPts
  <2>6. CcidKinds' /\ CcidTries' /\ CcidBuffer'
    BY <1>2, <2>1 DEF CcidKinds, CcidTries, CcidBuffer, CcidPowers, CcidVoltages, CcidSelecting
  <2>7. CcidSelection'
    BY <1>1, <1>2, <2>1, <2>2, <2>5
       DEF CcidSelection, CcidSelecting, CcidPowered0, Live, Unused
  <2> QED
    BY <1>1, <1>2, <1>3, <1>5, <2>1, <2>4, <2>6, <2>7, CcidGoes DEF CcidStates
<1>6. CASE ~NeedsPts /\ Goes("setparams") /\ Stays
  <2>1. at' = "setparams" /\ at' \in CcidPassing /\ op' = op
    BY <1>6 DEF Goes, CcidPassing, Stays
  <2>2. Wanted' = Wanted
    BY <1>1, <2>1 DEF Wanted
  <2>3. \/ "params" \in rdr.features \/ "pps" \in rdr.features
        \/ "no_pts" \notin dd.flags /\ Wanted # "T1" /\ ~dd.ta1
    BY <1>2, <1>6 DEF CcidOpened, NeedsPts
  <2>4. CcidKinds' /\ CcidTries' /\ CcidBuffer'
    BY <1>2, <2>1 DEF CcidKinds, CcidTries, CcidBuffer, CcidPowers, CcidVoltages, CcidSelecting
  <2>5. op.kind = "reset" /\ Live => Unused
    BY <1>1, <1>2 DEF CcidSelection, Live
  <2>6. op.kind = "reset" /\ Live => icc.proto = Wanted /\ icc.speed = "default"
    BY <1>2, <2>5, CcidUnused
  <2>7. Decides /\ "pps" \notin rdr.features /\ "params" \notin rdr.features => op.kind = "reset"
    BY <2>3 DEF Decides, Wanted
  <2>8. Decides /\ op.kind # "reset" => "params" \notin rdr.features
    BY DEF Decides
  <2>9. Live /\ Decides /\ "pps" \notin rdr.features /\ ~ByItself => icc.speed = CcidSpeed
    <3>1. SUFFICES ASSUME Live, Decides, "pps" \notin rdr.features, ~ByItself PROVE icc.speed = CcidSpeed
      OBVIOUS
    <3>2. "params" \notin rdr.features /\ op.kind = "reset" /\ ~dd.ta1
      BY <2>3, <2>7, <3>1 DEF ByItself
    <3>3. dd.par = "default" /\ icc.speed = "default"
      BY <1>1, <1>2, <2>5, <2>6, <3>1, <3>2 DEF CcidSelection, CcidSelecting
    <3> QED
      BY <3>2, <3>3 DEF CcidSpeed
  <2>10. /\ Live' = Live /\ Unused' = Unused /\ Decides' = Decides /\ CcidSpeed' = CcidSpeed /\ ByItself' = ByItself
         /\ CcidPowered0' = CcidPowered0
    BY <1>1, <1>2, <2>1 DEF Live, Unused, Decides, CcidSpeed, ByItself, CcidPowered0
  <2>11. Live /\ Decides => \/ op.kind = "reset" /\ icc.proto = Wanted
                            \/ "pps" \in rdr.features /\ op.kind # "reset"
    BY <2>6, <2>7, <2>8
  <2>12. CcidSelection'
    BY <1>1, <1>2, <2>1, <2>2, <2>3, <2>9, <2>10, <2>11
       DEF CcidSelection, CcidSelecting
  <2> QED
    BY <1>1, <1>2, <1>3, <1>6, <2>1, <2>4, <2>12, CcidGoes DEF CcidStates
<1> QED
  BY <1>4, <1>5, <1>6 DEF CcidPts

LEMMA CcidPtsDoneStep ==
    ASSUME OpInv, IccInv, driver = "ccid", CcidInv, CcidDriver, CcidPtsDone
    PROVE  CcidInv' /\ SlotInv' /\ OpInv' /\ IccInv'
<1>1. at = "pts-sent" /\ reply # None /\ slot' = slot /\ at \in CcidSelecting
  BY DEF CcidPtsDone, At, CcidSelecting
<1>2. /\ op # None /\ op.kind \in {"reset", "select"} /\ at # "xfr" /\ cmd = None
      /\ UNCHANGED <<driver, icc, rdr>>
      /\ CcidStates /\ slot \in SlotType /\ CcidOpened /\ CcidSelection
      /\ op.kind = "reset" => at # "select" /\ slot.proto = None /\ slot.atr = op.card /\ op.card \in Cards
  BY <1>1, CcidSelects0
<1>3. CASE ~OK
  <2>1. SelectFails /\ dd' = dd
    BY <1>3 DEF CcidPtsDone
  <2>2. CcidShape' /\ CcidStill /\ dd'.ta1 \in BOOLEAN
    BY <1>2, <2>1 DEF CcidStates, CcidShape, CcidStill
  <2> QED
    BY <1>1, <1>2, <2>1, <2>2, CcidSelectionEnds DEF SelectFails
<1>4. CASE OK
  <2>1. CcidSays(reply.data)
    BY <1>1, <1>2, <1>4 DEF CcidInv, CcidReply
  <2>2. PICK b \in BOOLEAN :
          /\ reply.data = <<[proto |-> Wanted, ta1 |-> b]>>
          /\ b => dd.ta1
          /\ icc # None =>
               /\ icc.on /\ ~icc.fresh /\ icc.proto = Wanted /\ dd.par = "default"
               /\ icc.speed = IF b THEN "ta1" ELSE "default"
    BY <1>1, <2>1 DEF CcidSays
  <2>3. Head(reply.data).ta1 = b
    BY <2>2
  <2>4. (dd.ta1 /\ Head(reply.data).ta1) = b
    BY <1>2, <2>2, <2>3 DEF CcidStates
  <2>5. dd' = [dd EXCEPT !.ta1 = b] /\ Goes("setparams") /\ op' = op /\ told' = told
    BY <1>4, <2>4 DEF CcidPtsDone, Stays
  <2>6. CcidShape' /\ CcidStill /\ dd'.ta1 = b /\ dd'.par = dd.par
    BY <1>2, <2>5, CcidTa1Set DEF CcidStates
  <2>7. at' = "setparams" /\ at' \in CcidPassing /\ Wanted' = Wanted
    BY <1>1, <2>5 DEF Goes, CcidPassing, Wanted
  <2>8. CcidKinds' /\ CcidTries' /\ CcidBuffer'
    BY <1>2, <2>5, <2>7 DEF CcidKinds, CcidTries, CcidBuffer, CcidPowers, CcidVoltages, CcidSelecting
  <2>9. Live' /\ ~ByItself' => icc'.speed = CcidSpeed'
    <3>1. SUFFICES ASSUME Live, "atrparse" \notin rdr.features PROVE icc.speed = CcidSpeed'
      BY <1>2 DEF Live, ByItself
    <3>2. "auto_atrparse" \notin dd'.flags
      BY <1>2, <2>6, <3>1 DEF CcidOpened, CcidStill
    <3> QED
      BY <2>2, <2>6, <3>1, <3>2 DEF CcidSpeed, Live
  <2>10. ~Unused' /\ (Live' => icc'.proto = Wanted') /\ Live' = Live
    BY <1>2, <2>2, <2>7 DEF Unused, Live
  <2>11. CcidSelection'
    BY <1>1, <1>2, <2>5, <2>6, <2>7, <2>9, <2>10
       DEF CcidSelection, CcidSelecting, CcidStill, CcidPowered0
  <2> QED
    BY <1>1, <1>2, <2>5, <2>6, <2>7, <2>8, <2>11, CcidGoes DEF CcidStates, Stays
<1> QED
  BY <1>3, <1>4

LEMMA CcidSetsParamsStep ==
    ASSUME OpInv, IccInv, driver = "ccid", CcidInv, CcidDriver, CcidSetsParams
    PROVE  CcidInv' /\ SlotInv' /\ OpInv' /\ IccInv'
<1>1. at = "setparams" /\ at \in CcidSelecting
  BY DEF CcidSetsParams, CcidSelecting
<1>2. /\ op # None /\ op.kind \in {"reset", "select"} /\ at # "xfr"
      /\ UNCHANGED <<driver, icc, rdr>>
      /\ CcidStates /\ slot \in SlotType /\ CcidOpened /\ CcidSelection
      /\ op.kind = "reset" => at # "select" /\ slot.proto = None /\ slot.atr = op.card /\ op.card \in Cards
  BY <1>1, CcidSelects0
<1>3. CASE ~NeedsParams
  <2>1. Selected(Wanted)
    BY <1>3 DEF CcidSetsParams
  <2>2. Wanted \in dd.protos
    BY <1>1, <1>2 DEF CcidSelection
  <2> QED
    BY <1>2, <2>1, <2>2, CcidSelectedEnds
<1>4. CASE NeedsParams
  <2>1. /\ Call("params-set", Ccid("setparams", <<Wanted, CcidSpeed>>))
        /\ op' = op /\ told' = told /\ slot' = slot /\ dd' = dd
    BY <1>4 DEF CcidSetsParams, CcidSpeed
  <2>2. at' = "params-set" /\ at' \in CcidCalls
    BY <2>1 DEF Call, CcidCalls
  <2>3. Wanted' = Wanted /\ CcidSpeed' = CcidSpeed /\ NeedsParams'
    BY <1>4, <2>1 DEF Wanted, CcidSpeed, NeedsParams
  <2>4. CcidCommand' = Ccid("setparams", <<Wanted', CcidSpeed'>>)
    BY <2>2 DEF CcidCommand, CcidStats, CcidVoltages
  <2>5. Call(at', CcidCommand')
    BY <2>1, <2>2, <2>3, <2>4
  <2>6. CcidShape' /\ CcidStill /\ dd'.ta1 \in BOOLEAN
    BY <1>2, <2>1 DEF CcidStates, CcidShape, CcidStill
  <2>7. CcidKinds' /\ CcidTries' /\ CcidBuffer'
    BY <1>2, <2>1, <2>2 DEF CcidKinds, CcidTries, CcidBuffer, CcidPowers, CcidVoltages, CcidSelecting
  <2>8. "params" \notin rdr.features
    BY <1>2, <1>4 DEF NeedsParams, CcidOpened
  <2>9. /\ Live' = Live /\ Unused' = Unused /\ Decides' = Decides /\ ByItself' = ByItself
        /\ CcidPowered0' = CcidPowered0
    BY <1>2, <2>1 DEF Live, Unused, Decides, ByItself, CcidPowered0
  <2>10. CcidSelection'
    BY <1>1, <1>2, <2>1, <2>2, <2>3, <2>8, <2>9
       DEF CcidSelection, CcidSelecting
  <2> QED
    BY <1>2, <2>1, <2>2, <2>5, <2>6, <2>7, <2>10, CcidGoes DEF CcidStates, Stays
<1> QED
  BY <1>3, <1>4

LEMMA CcidParamsSetStep ==
    ASSUME OpInv, IccInv, driver = "ccid", CcidInv, CcidDriver, CcidParamsSet
    PROVE  CcidInv' /\ SlotInv' /\ OpInv' /\ IccInv'
<1>1. at = "params-set" /\ at \in CcidSelecting
  BY DEF CcidParamsSet, At, CcidSelecting
<1>2. /\ op # None /\ op.kind \in {"reset", "select"} /\ CcidStates /\ CcidSelection
  BY <1>1, CcidSelects0
<1>3. CASE OK
  <2>1. Selected(Wanted) /\ Wanted \in dd.protos
    BY <1>1, <1>2, <1>3 DEF CcidParamsSet, CcidSelection
  <2> QED
    BY <1>2, <2>1, CcidSelectedEnds
<1>4. CASE ~OK
  <2>1. SelectFails /\ slot' = slot /\ dd' = dd
    BY <1>4 DEF CcidParamsSet
  <2>2. CcidShape' /\ CcidStill /\ dd'.ta1 \in BOOLEAN
    BY <1>2, <2>1 DEF CcidStates, CcidShape, CcidStill
  <2> QED
    BY <1>2, <2>1, <2>2, CcidSelectionEnds DEF SelectFails
<1> QED
  BY <1>3, <1>4

LEMMA CcidTransactStep ==
    ASSUME OpInv, IccInv, driver = "ccid", CcidInv, CcidDriver, CcidTransact \/ CcidRecv
    PROVE  CcidInv' /\ SlotInv' /\ OpInv' /\ IccInv'
<1>1. /\ op # None /\ UNCHANGED <<driver, icc, rdr>>
      /\ UNCHANGED <<op, told, slot>> /\ at \in {"transact", "recv"}
  BY CcidDriverQuiet DEF CcidTransact, CcidRecv
<1>2. CcidStates /\ slot \in SlotType /\ op.kind = "transact" /\ (at = "recv" => dd.sbuf = Bytes(op))
  BY <1>1 DEF CcidInv, CcidKinds, CcidBuffer, OpInv, SlotInv, CcidPowers, CcidVoltages, CcidSelecting
<1>3. \/ /\ dd' = dd \/ dd' = [dd EXCEPT !.sbuf = None]
         /\ Call("xfr", Ccid("xfrblock", Bytes(op)))
      \/ dd' = [dd EXCEPT !.sbuf = Bytes(op)] /\ Goes("recv")
  BY <1>1, <1>2 DEF CcidTransact, CcidRecv
<1>4. CcidShape' /\ CcidStill /\ dd'.ta1 \in BOOLEAN /\ (dd' = [dd EXCEPT !.sbuf = Bytes(op)] => dd'.sbuf = Bytes(op))
  <2>1. CASE dd' = dd
    <3>1. CcidShape' /\ CcidStill /\ dd'.ta1 \in BOOLEAN
      BY <1>2, <2>1 DEF CcidStates, CcidShape, CcidStill
    <3> QED
      BY <1>2, <3>1, CcidSbufSet DEF CcidStates
  <2>2. CASE dd' = [dd EXCEPT !.sbuf = None]
    <3>1. CcidShape' /\ CcidStill /\ dd'.ta1 \in BOOLEAN
      BY <1>2, <2>2, CcidSbufSet DEF CcidStates
    <3> QED
      BY <1>2, <3>1, CcidSbufSet DEF CcidStates
  <2>3. CASE dd' = [dd EXCEPT !.sbuf = Bytes(op)]
    BY <1>2, <2>3, CcidSbufSet DEF CcidStates
  <2> QED
    BY <1>3, <2>1, <2>2, <2>3
<1>5. \/ at' = "xfr" /\ Call(at', CcidCommand')
      \/ at' = "recv" /\ Goes(at') /\ dd'.sbuf = Bytes(op)
  <2>1. CASE Call("xfr", Ccid("xfrblock", Bytes(op)))
    <3>1. at' = "xfr"
      BY <2>1 DEF Call
    <3>2. CcidCommand' = Ccid("xfrblock", Bytes(op)')
      BY <3>1 DEF CcidCommand, CcidStats, CcidVoltages
    <3> QED
      BY <1>1, <2>1, <3>1, <3>2
  <2>2. CASE dd' = [dd EXCEPT !.sbuf = Bytes(op)] /\ Goes("recv")
    BY <1>4, <2>2 DEF Goes
  <2> QED
    BY <1>3, <2>1, <2>2
<1>6. at' \in {"xfr", "recv"} /\ at # "xfr"
  BY <1>1, <1>5
<1>7. CcidKinds' /\ CcidTries' /\ CcidBuffer'
  BY <1>1, <1>2, <1>5 DEF CcidKinds, CcidTries, CcidBuffer, CcidPowers, CcidVoltages, CcidSelecting
<1>8. CcidSelection'
  BY <1>1, <1>6, CcidBefore DEF CcidSelecting
<1> QED
  BY <1>1, <1>2, <1>4, <1>5, <1>6, <1>7, <1>8, CcidGoes DEF CcidStates, CcidPassing, CcidCalls, Stays

LEMMA CcidTransactedStep ==
    ASSUME OpInv, IccInv, driver = "ccid", CcidInv, CcidDriver, CcidTransacted
    PROVE  CcidInv' /\ SlotInv' /\ OpInv' /\ IccInv'
<1>1. op # None /\ at = "xfr" /\ UNCHANGED <<slot, dd>>
  BY CcidDriverQuiet DEF CcidTransacted, At
<1>2. op.kind = "transact" /\ CcidStates
  BY <1>1 DEF CcidInv, CcidKinds, CcidPowers, CcidVoltages, CcidSelecting
<1>3. CcidShape' /\ CcidStill /\ dd'.ta1 \in BOOLEAN
  BY <1>1, <1>2 DEF CcidStates, CcidShape, CcidStill
<1>4. Returns(TRUE, reply.data) \/ Returns(FALSE, <<>>)
  BY DEF CcidTransacted, Fails
<1> QED
  BY <1>1, <1>2, <1>3, <1>4, CcidSelectionEnds

LEMMA CcidDriverStep ==
    ASSUME OpInv, IccInv, driver = "ccid", CcidInv, CcidDriver
    PROVE  CcidInv' /\ SlotInv' /\ OpInv' /\ IccInv'
BY CcidOpensStep, CcidPollStep, CcidPolledStep, CcidPoweredStep, CcidTriesVoltsStep, CcidTriedVoltStep,
   CcidSelectsStep, CcidGotParamsStep, CcidGuardedStep, CcidPtsStep, CcidPtsDoneStep,
   CcidSetsParamsStep, CcidParamsSetStep, CcidTransactStep, CcidTransactedStep DEF CcidDriver

-----------------------------------------------------------------------------
(* CCID: what the driver's operations return                               *)

LEMMA CcidTold ==
    ASSUME OpInv, driver = "ccid", CcidInv, CcidDriver, op' = None
    PROVE  Ends
<1>1. op # None
  BY CcidDriverQuiet
<1>2. ~Stays /\ op' # op
  BY <1>1 DEF Stays
<1>3. \A ok, data : Returns(ok, data) => Ends
  BY ReturnsEnds
<1>4. SelectFails \/ Fails => Ends
  BY <1>3 DEF SelectFails, Fails
<1>5. \A s, c : HasStatus(s, c) => Ends
  BY <1>3 DEF HasStatus
<1>6. \A c : ~HasAtr(c)
  BY <1>2 DEF HasAtr
<1>7. Selected(Wanted) => Ends
  BY <1>3 DEF Selected
<1> QED
  BY <1>2, <1>3, <1>4, <1>5, <1>6, <1>7 DEF CcidDriver,
     CcidOpens, CcidPoll, CcidPolled, CcidPowered, CcidTriesVolts, CcidTriedVolt, CcidSelects, CcidGotParams,
     CcidGuarded, CcidPts, CcidPtsDone, CcidSetsParams, CcidParamsSet, CcidTransact, CcidRecv, CcidTransacted

\* Which steps an operation takes.
LEMMA CcidActs ==
    ASSUME op # None, CcidKinds, CcidDriver
    PROVE  /\ op.kind = "transact" => CcidTransact \/ CcidRecv \/ CcidTransacted
           /\ op.kind = "poll" => CcidPoll \/ (CcidPolled /\ at = "poll-status")
           /\ op.kind = "reset" =>
                \/ CcidPoll \/ (CcidPolled /\ at = "reset-status") \/ CcidPowered \/ CcidTriesVolts \/ CcidTriedVolt
                \/ CcidSelects \/ CcidGotParams \/ CcidGuarded \/ CcidPts \/ CcidPtsDone
                \/ CcidSetsParams \/ CcidParamsSet
           /\ op.kind = "select" =>
                \/ CcidSelects \/ CcidGotParams \/ CcidGuarded \/ CcidPts \/ CcidPtsDone
                \/ CcidSetsParams \/ CcidParamsSet
           /\ op.kind \in {"open", "poll", "reset", "select", "transact"}
<1>1. /\ CcidOpens => at = "open"
      /\ CcidPoll => at \in {"poll", "reset"}
      /\ CcidPolled => at \in {"poll-status", "reset-status"}
      /\ CcidPowered => at = "poweron-auto"
      /\ CcidTriesVolts => at = "poweron-manual"
      /\ CcidTriedVolt => at \in CcidVoltages
  BY CcidVolts DEF CcidOpens, CcidPoll, CcidPolled, CcidPowered, CcidTriesVolts, CcidTriedVolt, At
<1>2. /\ CcidSelects => at \in {"set_protocol", "select"}
      /\ CcidGotParams => at = "getparams"
      /\ CcidGuarded => at = "guard"
      /\ CcidPts => at = "pts"
      /\ CcidPtsDone => at = "pts-sent"
      /\ CcidSetsParams => at = "setparams"
      /\ CcidParamsSet => at = "params-set"
  BY DEF CcidSelects, CcidGotParams, CcidGuarded, CcidPts, CcidPtsDone, CcidSetsParams, CcidParamsSet, At
<1>3. /\ CcidTransact => at = "transact"
      /\ CcidRecv => at = "recv"
      /\ CcidTransacted => at = "xfr"
  BY DEF CcidTransact, CcidRecv, CcidTransacted, At
<1> QED
  BY <1>1, <1>2, <1>3 DEF CcidKinds, CcidDriver, CcidPowers, CcidVoltages, CcidSelecting

\* What remains when a selection has succeeded.
LEMMA CcidAgreement ==
    ASSUME OpInv, IccInv, driver = "ccid", CcidInv, CcidDriver, Decides, Live, Selected(Wanted),
           (CcidSelects /\ dd.type = "apdu") \/ (CcidSetsParams /\ ~NeedsParams) \/ (CcidParamsSet /\ OK)
    PROVE  CcidAgrees'
<1>1. at \in CcidSelecting \cup {"set_protocol", "select"}
  BY DEF CcidSelects, CcidSetsParams, CcidParamsSet, At, CcidSelecting
<1>2. /\ op # None /\ op.kind \in {"reset", "select"}
      /\ UNCHANGED <<driver, icc, rdr>>
      /\ CcidStates /\ slot \in SlotType /\ CcidOpened /\ CcidSelection
      /\ icc # None => op.card = icc.card
      /\ op.kind = "reset" => at # "select" /\ slot.proto = None /\ slot.atr = op.card /\ op.card \in Cards
  BY <1>1, CcidSelects0
<1>3. dd'.proto = Wanted /\ dd'.type = dd.type
  BY <1>2, CcidProtoSet DEF CcidStates, Selected, CcidStill
<1>4. CASE CcidSelects /\ dd.type = "apdu"
  <2>1. dd.type = "apdu" /\ at \in {"set_protocol", "select"}
    BY <1>4 DEF CcidSelects
  <2>2. ByItself
    BY <1>2, <2>1 DEF CcidOpened, ByItself
  <2>3. op.kind = "reset"
    BY <2>1 DEF Decides
  <2>4. CcidFresh
    BY <1>2, <2>1, <2>3 DEF CcidSelection
  <2>5. rdr.proto = icc.proto
    BY <1>2, <2>2, <2>4 DEF CcidFresh, CcidSelection, CcidPowered0, Live
  <2> QED
    BY <1>2, <1>3, <2>1, <2>2, <2>5 DEF CcidAgrees, ByItself
<1>5. CASE CcidSetsParams /\ ~NeedsParams
  <2>1. at = "setparams" /\ at \in CcidSelecting \ {"params-set"}
    BY <1>5 DEF CcidSetsParams, CcidSelecting
  <2>2. "params" \in rdr.features \/ ("atrparse" \in rdr.features /\ Wanted = "T0")
    BY <1>2, <1>5 DEF NeedsParams, CcidOpened
  <2>3. op.kind = "reset"
    BY <2>2 DEF Decides, Wanted
  <2>4. icc.proto = Wanted /\ rdr.proto = Head(icc.card.protos) /\ ByItself
    BY <1>2, <2>1, <2>2, <2>3 DEF CcidSelection, ByItself
  <2>5. Wanted = Head(icc.card.protos)
    BY <1>2, <2>3 DEF Wanted, Live
  <2> QED
    BY <1>2, <1>3, <2>4, <2>5 DEF CcidAgrees, ByItself
<1>6. CASE CcidParamsSet /\ OK
  <2>1. at = "params-set" /\ cmd = None /\ reply # None
    BY <1>6 DEF CcidParamsSet, At
  <2>2. CcidSays(reply.data)
    BY <1>6, <2>1 DEF CcidInv, CcidReply
  <2>3. rdr.proto = Wanted /\ icc.proto = Wanted /\ (ByItself \/ rdr.speed = icc.speed)
    BY <2>1, <2>2 DEF CcidSays
  <2> QED
    BY <1>2, <1>3, <2>3 DEF CcidAgrees, ByItself
<1> QED
  BY <1>4, <1>5, <1>6

\* A selection that ends has succeeded, or leaves the slot without a protocol after a reset.
LEMMA CcidSelectionTells ==
    ASSUME OpInv, IccInv, driver = "ccid", CcidInv, CcidDriver, op' = None,
           CcidSelects \/ CcidGotParams \/ CcidGuarded \/ CcidPts \/ CcidPtsDone \/ CcidSetsParams \/ CcidParamsSet
    PROVE  /\ op.kind = "reset" => slot'.atr = op.card /\ told'.ok
           /\ told'.ok /\ slot'.proto # None /\ Decides /\ Live => CcidAgrees'
<1>0. at \in CcidSelecting \cup {"set_protocol", "select"}
  BY DEF CcidSelects, CcidGotParams, CcidGuarded, CcidPts, CcidPtsDone, CcidSetsParams, CcidParamsSet, At, CcidSelecting
<1>1. /\ op # None /\ op.kind \in {"reset", "select"}
      /\ CcidStates /\ slot \in SlotType /\ CcidSelection /\ CcidOpened
      /\ op.kind = "reset" => at # "select" /\ slot.proto = None /\ slot.atr = op.card /\ op.card \in Cards
  BY <1>0, CcidSelects0
<1>2. ~Stays
  BY <1>1 DEF Stays
<1>3. op.kind = "reset" => slot.atr # None
  BY <1>1, DriverAssumption
<1>4. \/ SelectFails /\ slot' = slot
      \/ Fails /\ slot' = slot /\ slot.atr = None
      \/ /\ Selected(Wanted) /\ Wanted \in dd.protos
         /\ (CcidSelects /\ dd.type = "apdu") \/ (CcidSetsParams /\ ~NeedsParams) \/ (CcidParamsSet /\ OK)
  <2>1. CASE CcidSelects
    BY <1>1, <1>2, <2>1 DEF CcidSelects, Stays
  <2>2. CASE CcidGotParams \/ CcidGuarded \/ CcidPts \/ CcidPtsDone
    BY <1>2, <2>2 DEF CcidGotParams, CcidGuarded, CcidPts, CcidPtsDone
  <2>3. CASE CcidSetsParams
    <3>1. at = "setparams" /\ at \in CcidSelecting
      BY <2>3 DEF CcidSetsParams, CcidSelecting
    <3>2. Wanted \in dd.protos
      BY <1>1, <3>1 DEF CcidSelection
    <3> QED
      BY <1>1, <1>2, <2>3, <3>2 DEF CcidSetsParams, Stays
  <2>4. CASE CcidParamsSet
    <3>1. at = "params-set" /\ at \in CcidSelecting
      BY <2>4 DEF CcidParamsSet, At, CcidSelecting
    <3>2. Wanted \in dd.protos
      BY <1>1, <3>1 DEF CcidSelection
    <3> QED
      BY <2>4, <3>2 DEF CcidParamsSet
  <2> QED
    BY <2>1, <2>2, <2>3, <2>4
<1>5. CASE SelectFails /\ slot' = slot
  <2>1. PICK b \in BOOLEAN : b = (op.kind = "reset")
    OBVIOUS
  <2>2. Returns(b, <<>>)
    BY <1>5, <2>1 DEF SelectFails
  <2>3. told'.ok = b
    BY <2>2, ReturnsEnds
  <2> QED
    BY <1>1, <1>5, <2>1, <2>3
<1>6. CASE Fails /\ slot' = slot /\ slot.atr = None
  <2>1. told'.ok = FALSE
    BY <1>6, ReturnsEnds DEF Fails
  <2> QED
    BY <1>1, <1>3, <1>6, <2>1
<1>7. CASE /\ Selected(Wanted) /\ Wanted \in dd.protos
           /\ (CcidSelects /\ dd.type = "apdu") \/ (CcidSetsParams /\ ~NeedsParams) \/ (CcidParamsSet /\ OK)
  <2>1. told'.ok = TRUE /\ slot'.atr = slot.atr
    BY <1>1, <1>7, CcidSelectedEnds
  <2>2. Decides /\ Live => CcidAgrees'
    BY <1>7, CcidAgreement
  <2> QED
    BY <1>1, <2>1, <2>2
<1> QED
  BY <1>4, <1>5, <1>6, <1>7

LEMMA CcidResetTells ==
    ASSUME OpInv, IccInv, driver = "ccid", CcidInv, CcidDriver, op' = None, op.kind = "reset"
    PROVE  /\ told'.ok => slot'.atr = op.card
           /\ ~told'.ok /\ icc # None /\ faults = 0 =>
                "voltage" \notin rdr.features /\ icc.card.volt \notin rdr.volts
           /\ told'.ok /\ slot'.proto # None /\ Live => CcidAgrees'
<1>1. op # None /\ Ends /\ CcidKinds /\ ~Stays /\ cmd = None
  BY CcidTold, CcidDriverQuiet DEF CcidInv, Stays
<1>2. \/ (CcidPolled /\ at = "reset-status") \/ CcidPowered \/ CcidTriesVolts \/ CcidTriedVolt
      \/ CcidSelects \/ CcidGotParams \/ CcidGuarded \/ CcidPts \/ CcidPtsDone
      \/ CcidSetsParams \/ CcidParamsSet
  BY <1>1, CcidActs DEF CcidPoll, Stays
<1>3. Decides
  BY DEF Decides
<1>4. icc # None => icc.card.volt \in CcidVoltages
  BY DriverAssumption DEF IccInv, IccType, CcidVoltages
<1>5. Fails => told'.ok = FALSE
  BY ReturnsEnds DEF Fails
<1>6. CASE CcidPolled /\ at = "reset-status"
  <2>1. /\ ~ProbeFailed => Probed = "present" \/ (Probed = "absent" /\ icc = None)
        /\ ProbeFailed => faults # 0
    BY <1>6, CcidStatusSays DEF Statuses
  <2>2. Fails /\ (ProbeFailed \/ Probed = "absent")
    BY <1>1, <1>6, <2>1 DEF CcidPolled, Goes
  <2> QED
    BY <1>5, <2>1, <2>2
<1>7. CASE CcidPowered
  <2>1. at = "poweron-auto" /\ reply # None /\ ~OK /\ "auto" \in dd.volts /\ Fails
    BY <1>1, <1>7 DEF CcidPowered, At, HasAtr
  <2>2. CcidOpened
    BY <1>7, CcidPowering
  <2>3. CcidRefuses \/ faults # 0
    BY <1>1, <2>1 DEF CcidInv, CcidReply, CcidPowers
  <2>4. icc = None \/ faults # 0
    BY <2>1, <2>2, <2>3 DEF CcidRefuses, CcidOpened
  <2> QED
    BY <1>5, <2>1, <2>4
<1>8. CASE CcidTriesVolts
  <2>1. at = "poweron-manual" /\ CcidOpened /\ CcidTries
    BY <1>8, CcidPowering
  <2>2. Left(None) = {} /\ Fails
    BY <1>1, <1>8 DEF CcidTriesVolts
  <2>3. "5V" \notin rdr.volts /\ "3V" \notin rdr.volts /\ "1.8V" \notin rdr.volts
    BY <2>1, <2>2, CcidLeft DEF CcidOpened
  <2> QED
    BY <1>4, <1>5, <2>1, <2>2, <2>3 DEF CcidTries, CcidVoltages
<1>9. CASE CcidTriedVolt
  <2>1. at \in CcidVoltages /\ CcidOpened /\ CcidTries
    BY <1>9, CcidPowering
  <2>2. Left(at) = {} /\ Fails /\ ~OK
    BY <1>1, <1>9 DEF CcidTriedVolt, HasAtr
  <2>3. /\ at = "5V" => "3V" \notin dd.volts /\ "1.8V" \notin dd.volts
        /\ at = "3V" => "1.8V" \notin dd.volts
    BY <2>1, <2>2, CcidLeft
  <2>4. icc # None /\ faults = 0 => icc.card.volt # at
    BY <1>9, <2>1, <2>2, CcidNotThat
  <2>5. \A w \in {"5V", "3V", "1.8V"} : w \in dd.volts <=> w \in rdr.volts
    BY <2>1 DEF CcidOpened
  <2> QED
    BY <1>4, <1>5, <2>1, <2>2, <2>3, <2>4, <2>5 DEF CcidTries, CcidVoltages
<1>10. CASE CcidSelects \/ CcidGotParams \/ CcidGuarded \/ CcidPts \/ CcidPtsDone \/ CcidSetsParams \/ CcidParamsSet
  BY <1>3, <1>10, CcidSelectionTells
<1> QED
  BY <1>2, <1>6, <1>7, <1>8, <1>9, <1>10

LEMMA CcidDriverPromises ==
    ASSUME OpInv, IccInv, driver = "ccid", CcidInv, CcidDriver
    PROVE  CcidInv' /\ OpInv' /\ IccInv' /\ Promises'
<1>1. /\ op # None /\ cmd = None /\ UNCHANGED <<driver, icc, ran, rdr, faults>>
      /\ icc # None => op.card = icc.card
  BY CcidDriverQuiet DEF OpInv
<1>2. CcidInv' /\ OpInv' /\ IccInv'
  BY CcidDriverStep
<1>3. RunsOnce'
  BY <1>1, <1>2, RanOnce DEF CcidInv, CcidRan
<1>4. CASE op' # None
  BY <1>2, <1>3, <1>4, PromisesUnderWay
<1>5. CASE op' = None
  <2>1. Ends /\ told'.op = op /\ told'.in = (icc # None) /\ ~Stays
    BY <1>1, <1>5, CcidTold DEF Ends, Stays
  <2>2. CcidKinds /\ op.kind \in {"open", "poll", "reset", "select", "transact"}
    BY <1>1, CcidActs DEF CcidInv
  <2>3. AnswersOwn'
    <3>1. ASSUME op.kind = "transact", told'.ok
          PROVE  told'.data = AnswerTo(op) /\ ran' # <<>>
      <4>1. CcidTransacted
        BY <1>1, <2>1, <2>2, <3>1, CcidActs DEF CcidTransact, CcidRecv, Stays
      <4>2. at = "xfr" /\ reply # None /\ OK /\ told'.data = reply.data
        BY <3>1, <4>1 DEF CcidTransacted, At, Fails, Returns
      <4>3. CcidSays(reply.data)
        BY <1>1, <4>2 DEF CcidInv, CcidReply
      <4> QED
        BY <1>1, <4>2, <4>3 DEF CcidSays
    <3> QED
      BY <2>1, <2>2, <3>1 DEF AnswersOwn, Told
  <2>4. ProtocolAgreed'
    <3>1. SUFFICES ASSUME slot'.proto # None, icc # None, icc.on, told'.ok,
                          op.kind = "reset" \/ (op.kind = "select" /\ Renegotiates')
                   PROVE  CcidAgrees'
      BY <1>1, <2>1 DEF ProtocolAgreed, Agreed, Told
    <3>2. Live
      BY <3>1 DEF Live
    <3>3. CASE op.kind = "reset"
      BY <1>5, <3>1, <3>2, <3>3, CcidResetTells
    <3>4. CASE op.kind = "select" /\ Renegotiates'
      <4>1. CcidSelects \/ CcidGotParams \/ CcidGuarded \/ CcidPts \/ CcidPtsDone \/ CcidSetsParams \/ CcidParamsSet
        BY <1>1, <2>2, <3>4, CcidActs
      <4>2. op.proto = "T1" /\ "params" \notin rdr.features /\ dd'.type # "apdu"
        BY <1>1, <2>1, <3>4 DEF Renegotiates
      <4>3. dd'.type = dd.type
        <5>1. CcidShape
          BY <1>1 DEF CcidInv, CcidStates
        <5> QED
          BY <4>1, <5>1, CcidParSet, CcidProtoSet, CcidTa1Set
             DEF CcidSelects, CcidGotParams, CcidGuarded, CcidPts, CcidPtsDone, CcidSetsParams, CcidParamsSet,
                 Selected, CcidStill
      <4>4. Decides
        BY <3>4, <4>2, <4>3 DEF Decides
      <4> QED
        BY <1>5, <3>1, <3>2, <4>1, <4>4, CcidSelectionTells
    <3> QED
      BY <3>1, <3>3, <3>4
  <2>5. ResetTrue'
    <3>1. SUFFICES ASSUME op.kind = "reset"
                   PROVE  /\ told'.ok => slot'.atr = op.card
                          /\ ~told'.ok /\ icc # None /\ faults = 0 => Unready'
      BY <1>1, <2>1 DEF ResetTrue
    <3>2. icc # None /\ "voltage" \notin rdr.features /\ icc.card.volt \notin rdr.volts => Unready'
      BY <1>1, <2>1 DEF Unready
    <3> QED
      BY <1>5, <3>1, <3>2, CcidResetTells
  <2>6. StatusTrue'
    <3>1. ASSUME op.kind = "poll", told'.ok
          PROVE  \/ slot'.status = "present" /\ op.card # None
                 \/ slot'.status = "absent" /\ icc = None
      <4>1. CcidPolled /\ at = "poll-status"
        BY <1>1, <2>1, <2>2, <3>1, CcidActs DEF CcidPoll, Stays
      <4>2. ~ProbeFailed /\ HasStatus(Probed, Probed # dd.seen)
        BY <3>1, <4>1, ReturnsEnds DEF CcidPolled, Fails
      <4>3. /\ Probed \in Statuses
            /\ Probed = "present" => op.card # None
            /\ Probed = "absent" => icc = None
        BY <4>1, <4>2, CcidStatusSays
      <4>4. PICK c \in BOOLEAN : c = (Probed # dd.seen)
        OBVIOUS
      <4>5. slot'.status = Probed
        BY <4>2, <4>3, <4>4, StatusBecomes DEF OpInv
      <4> QED
        BY <4>3, <4>5 DEF Statuses
    <3>2. op.kind # "status"
      BY <2>2
    <3>3. ASSUME op.kind = "poll", told'.ok
          PROVE  (slot'.status # "absent") \in {told'.in, told'.op.card # None}
      <4>1. CASE slot'.status = "present" /\ op.card # None
        BY <2>1, <4>1
      <4>2. CASE slot'.status = "absent" /\ icc = None
        BY <2>1, <4>2
      <4> QED
        BY <3>1, <3>3, <4>1, <4>2
    <3> QED
      BY <2>1, <3>2, <3>3 DEF StatusTrue, Told
  <2>7. MemoryKept'
    BY <2>1, <2>2 DEF MemoryKept, Told
  <2> QED
    BY <1>2, <1>3, <2>3, <2>4, <2>5, <2>6, <2>7 DEF Promises
<1> QED
  BY <1>4, <1>5

-----------------------------------------------------------------------------
(* CCID: ccid_command, and what the reader does                            *)

\* What an answer says depends on these.
LEMMA CcidSame ==
    ASSUME UNCHANGED <<icc, slot, dd, op, at, ran, rdr>>
    PROVE  /\ \A data : CcidSays(data) <=> CcidSays(data)'
           /\ CcidRefuses <=> CcidRefuses'
           /\ CcidSelection <=> CcidSelection'
<1>1. Wanted' = Wanted /\ CcidSpeed' = CcidSpeed /\ NeedsParams' = NeedsParams /\ ByItself' = ByItself
  BY DEF Wanted, CcidSpeed, NeedsParams, ByItself
<1>2. Live' = Live /\ Unused' = Unused /\ Decides' = Decides /\ CcidFresh' = CcidFresh /\ CcidPowered0' = CcidPowered0
  BY DEF Live, Unused, Decides, CcidFresh, CcidPowered0, ByItself
<1>3. \A data : CcidSays(data) <=> CcidSays(data)'
  BY <1>1, <1>2 DEF CcidSays
<1>4. CcidRefuses <=> CcidRefuses'
  BY DEF CcidRefuses
<1>5. CcidSelection <=> CcidSelection'
  BY <1>1, <1>2 DEF CcidSelection
<1> QED
  BY <1>3, <1>4, <1>5

\* The driver's exchange of a command.
LEMMA CcidExchanges ==
    ASSUME OpInv, IccInv, driver = "ccid", CcidInv, op # None,
           UNCHANGED <<driver, icc, opvars, ran, rdr, work>>, faults' \in {faults, faults + 1},
           cmd' \in {cmd, None}, CcidLine', CcidReply', CcidRan'
    PROVE  CcidInv' /\ OpInv' /\ IccInv' /\ op' # None /\ Promises'
<1>1. UNCHANGED <<slot, dd, op, at, told>>
  BY DEF opvars
<1>2. OpInv' /\ IccInv'
  <2>1. icc # None => icc \in IccType
    BY DEF IccInv
  <2>2. faults' \in Nat
    BY DEF OpInv
  <2> QED
    BY <2>1, <2>2, CommonReader
<1>8. faults' = 0 => faults = 0
  BY DEF OpInv
<1>3. CcidStates' /\ CcidKnows' /\ CcidKinds' /\ CcidTries' /\ CcidBuffer'
  BY <1>1, <1>8 DEF CcidInv, CcidStates, CcidShape, CcidKnows, CcidOpened, CcidKinds, CcidTries, CcidBuffer
<1>4. CcidCommands'
  <2>1. CcidCommand' = CcidCommand
    BY <1>1 DEF CcidCommand, Wanted, CcidSpeed
  <2> QED
    BY <1>1, <2>1 DEF CcidInv, CcidCommands
<1>5. CcidSelection'
  BY <1>1, CcidSame DEF CcidInv
<1>6. RunsOnce'
  BY RanOnce DEF CcidRan
<1>7. Promises'
  BY <1>1, <1>6, PromisesUnderWay
<1> QED
  BY <1>1, <1>2, <1>3, <1>4, <1>5, <1>7 DEF CcidInv

\* A command that asks for a status or for power fits into a message.
LEMMA CcidShort ==
    ASSUME cmd # None, CcidCommands, at \in CcidPowers \cup CcidStats
    PROVE  Len(cmd.data) <= MaxMsg
<1>1. Len(<<>>) = 0 /\ \A x : Len(<<x>>) = 1
  BY SMT
<1>2. MaxMsg \in Nat /\ MaxMsg >= 1
  BY CcidAssumption
<1>3. cmd.data = <<>> \/ \E x : cmd.data = <<x>>
  BY DEF CcidCommands, CcidCommand, CcidPowers, CcidStats, CcidVoltages, Ccid
<1>4. Len(cmd.data) \in {0, 1}
  BY <1>1, <1>3, Zenon
<1>5. \A n \in {0, 1} : n <= MaxMsg
  BY <1>2
<1> QED
  BY <1>4, <1>5, Zenon

LEMMA CcidBytes ==
    ASSUME NEW c, c.id \in Nat, c.lc \in Nat
    PROVE  Bytes(c) \in Seq(Nat \X Nat)
<1>1. Units(c.id, c.lc) \in Seq(Nat \X Nat)
  BY SMT DEF Units
<1>2. <<<<c.id, 0>>>> \in Seq(Nat \X Nat)
  BY SMT
<1>3. <<<<c.id, 0>>>> \o Units(c.id, c.lc) \in Seq(Nat \X Nat)
  BY <1>1, <1>2
<1> QED
  BY <1>3 DEF Bytes

\* Nothing sent is the same as a command sent.
LEMMA CcidAsked ==
    ASSUME OpInv, driver = "ccid", CcidInv, cmd # None, NEW n \in 0 .. 255
    PROVE  [seq |-> n, body |-> cmd] # None
<1> DEFINE D == CommandData
<1>1. /\ op # None /\ op \in Operations /\ at \in CcidCalls /\ cmd = CcidCommand
      /\ CcidKinds /\ CcidStates /\ CcidSelection
  BY DEF OpInv, CcidInv, CcidCommands
<1>2. at \in CcidSelecting => Wanted \in {"T0", "T1"}
  <2>1. SUFFICES ASSUME at \in CcidSelecting PROVE Wanted \in {"T0", "T1"}
    OBVIOUS
  <2>2. op.kind \in {"reset", "select"}
    BY <1>1, <2>1 DEF CcidKinds, CcidPowers, CcidVoltages, CcidSelecting
  <2>3. CcidOpened /\ Wanted \in dd.protos
    BY <1>1, <2>1, <2>2 DEF CcidInv, CcidKnows, CcidSelection
  <2> QED
    BY <2>3 DEF CcidOpened
<1>3. at \in {"guard", "params-set"} => dd.par \in {"default", "ta1"}
  BY <1>1 DEF CcidSelection, CcidSelecting
<1>4. at \in CcidVoltages => at \in D
  BY DEF CcidVoltages, CommandData
<1>5. Wanted \in {"T0", "T1"} => [proto |-> Wanted, ta1 |-> dd.ta1] \in D /\ Wanted \in D
  BY <1>1 DEF CcidStates, CommandData
<1>6. "auto" \in D /\ "default" \in D /\ "ta1" \in D
  BY DEF CommandData
<1>7. at = "xfr" => Bytes(op) \in Seq(D)
  <2>1. SUFFICES ASSUME at = "xfr" PROVE Bytes(op) \in Seq(D)
    OBVIOUS
  <2>2. op.id \in Nat /\ op.lc \in Nat
    BY <1>1, <2>1 DEF CcidKinds, CcidPowers, CcidVoltages, CcidSelecting, Operations
  <2>3. Bytes(op) \in Seq(Nat \X Nat)
    BY <2>2, CcidBytes
  <2> QED
    BY <2>3 DEF CommandData
<1> HIDE DEF D
<1>8. <<>> \in Seq(D) /\ \A x, y \in D : <<x>> \in Seq(D) /\ <<x, y>> \in Seq(D)
  OBVIOUS
<1> DEFINE Fits(c) == c \in [name : CommandNames, data : Seq(D)]
<1>9. \A s \in CommandNames, d \in Seq(D) : Fits(Ccid(s, d))
  BY DEF Ccid
<1> HIDE DEF Fits
<1>10. \A s \in {"slotstat", "poweron", "getparams", "setparams", "pts", "xfrblock"} : s \in CommandNames
  BY DEF CommandNames
<1>11. Fits(cmd)
  <2>1. CASE at \in CcidStats
    <3>1. cmd = Ccid("slotstat", <<>>)
      BY <1>1, <2>1 DEF CcidCommand, CcidStats, CcidVoltages
    <3> QED
      BY <1>8, <1>9, <1>10, <3>1
  <2>2. CASE at = "poweron-auto"
    <3>1. cmd = Ccid("poweron", <<"auto">>)
      BY <1>1, <2>2 DEF CcidCommand, CcidStats, CcidVoltages
    <3> QED
      BY <1>6, <1>8, <1>9, <1>10, <3>1
  <2>3. CASE at \in CcidVoltages
    <3>1. cmd = Ccid("poweron", <<at>>)
      BY <1>1, <2>3 DEF CcidCommand, CcidStats, CcidVoltages
    <3> QED
      BY <1>4, <1>8, <1>9, <1>10, <2>3, <3>1
  <2>4. CASE at = "getparams"
    <3>1. cmd = Ccid("getparams", <<>>)
      BY <1>1, <2>4 DEF CcidCommand, CcidStats, CcidVoltages
    <3> QED
      BY <1>8, <1>9, <1>10, <3>1
  <2>5. CASE at = "guard"
    <3>1. Wanted \in D /\ dd.par \in D
      BY <1>2, <1>3, <1>5, <1>6, <2>5 DEF CcidSelecting
    <3>2. cmd = Ccid("setparams", <<Wanted, dd.par>>)
      BY <1>1, <2>5 DEF CcidCommand, CcidStats, CcidVoltages
    <3> QED
      BY <1>8, <1>9, <1>10, <3>1, <3>2
  <2>6. CASE at = "pts-sent"
    <3>1. PICK x \in D : x = [proto |-> Wanted, ta1 |-> dd.ta1]
      BY <1>2, <1>5, <2>6 DEF CcidSelecting
    <3>2. cmd = Ccid("pts", <<x>>)
      BY <1>1, <2>6, <3>1 DEF CcidCommand, CcidStats, CcidVoltages
    <3> QED
      BY <1>8, <1>9, <1>10, <3>2
  <2>7. CASE at = "params-set"
    <3>1. Wanted \in D /\ CcidSpeed \in D
      BY <1>2, <1>3, <1>5, <1>6, <2>7 DEF CcidSelecting, CcidSpeed
    <3>2. cmd = Ccid("setparams", <<Wanted, CcidSpeed>>)
      BY <1>1, <2>7 DEF CcidCommand, CcidStats, CcidVoltages
    <3> QED
      BY <1>8, <1>9, <1>10, <3>1, <3>2
  <2>8. CASE at = "xfr"
    <3>1. cmd = Ccid("xfrblock", Bytes(op))
      BY <1>1, <2>8 DEF CcidCommand, CcidStats, CcidVoltages
    <3> QED
      BY <1>7, <1>9, <1>10, <2>8, <3>1
  <2> QED
    BY <1>1, <2>1, <2>2, <2>3, <2>4, <2>5, <2>6, <2>7, <2>8 DEF CcidCalls, CcidPowers
<1>12. None \notin [seq : 0 .. 255, body : [name : CommandNames, data : Seq(D)]]
  BY CcidAssumption, Zenon DEF D
<1>13. [seq |-> n, body |-> cmd] \in [seq : 0 .. 255, body : [name : CommandNames, data : Seq(D)]]
  BY <1>11 DEF Fits
<1> QED
  BY <1>12, <1>13, Zenon

LEMMA CcidSendsStep ==
    ASSUME OpInv, IccInv, driver = "ccid", CcidInv, ~Overdue, CcidSends,
           UNCHANGED <<driver, icc, event, opvars, ran, work>>
    PROVE  CcidInv' /\ OpInv' /\ IccInv' /\ op' # None /\ Promises'
<1>1. /\ cmd # None /\ link.sent = None /\ op # None
      /\ UNCHANGED <<inbox, late, rdr, faults, slot, dd, op, at, told>>
  BY DEF CcidSends, OpInv, opvars
<1>2. /\ CcidLine /\ CcidCommands /\ ask = None /\ ran = <<>> /\ CcidRan
      /\ Coming' = Coming
  BY <1>1 DEF CcidInv, CcidLine, CcidRan, Coming
<1>3. CcidRan'
  BY <1>1, <1>2 DEF CcidRan
<1>4. CASE Len(cmd.data) > MaxMsg
  <2>1. /\ cmd' = None /\ reply' = [rc |-> -1, st |-> "unsupported", data |-> <<>>]
        /\ UNCHANGED <<link, ask>>
    BY <1>4 DEF CcidSends
  <2>2. CcidLine'
    BY <1>1, <1>2, <2>1, CcidNumbers DEF CcidLine
  <2>3. at \notin CcidPowers \cup CcidStats
    <3>1. MaxMsg \in Nat
      BY CcidAssumption
    <3>2. SUFFICES ASSUME at \in CcidPowers \cup CcidStats PROVE FALSE
      OBVIOUS
    <3>3. Len(cmd.data) <= MaxMsg
      BY <1>1, <1>2, <3>2, CcidShort
    <3>4. Len(cmd.data) \in Nat
      <4>1. cmd.data = <<>> \/ \E x : cmd.data = <<x>>
        BY <1>1, <1>2, <3>2 DEF CcidCommands, CcidCommand, CcidPowers, CcidStats, CcidVoltages, Ccid
      <4> QED
        BY <4>1
    <3> QED
      BY <1>4, <3>1, <3>3, <3>4
  <2>4. CcidReply'
    BY <1>1, <2>1, <2>3 DEF CcidReply, OK
  <2> QED
    BY <1>1, <1>3, <2>1, <2>2, <2>4, CcidExchanges
<1>5. CASE ~(Len(cmd.data) > MaxMsg)
  <2>1. /\ ask' = [seq |-> link.seq, body |-> cmd]
        /\ link' = [seq |-> (link.seq + 1) % 256, sent |-> link.seq]
        /\ UNCHANGED <<cmd, reply>>
    BY <1>5 DEF CcidSends
  <2>2. link.seq \in 0 .. 255 /\ (link.seq + 1) % 256 \in 0 .. 255 /\ link.seq # None
    <3>1. link.seq \in 0 .. 255
      BY <1>2 DEF CcidLine
    <3>2. (link.seq + 1) % 256 \in 0 .. 255
      BY <3>1, SMT
    <3> QED
      BY <3>1, <3>2, CcidNumbers
  <2>3. /\ link' \in [seq : 0 .. 255, sent : 0 .. 255 \cup {None}]
        /\ link'.sent = link.seq
    BY <2>1, <2>2
  <2>4. ask' # None
    BY <1>1, <2>1, <2>2, CcidAsked
  <2>5. \A m \in Coming : m.seq \in 0 .. 255 /\ m.seq # link'.sent
    BY <1>2, <2>3 DEF CcidLine, Overdue
  <2>6. CcidLine'
    BY <1>1, <1>2, <2>1, <2>2, <2>3, <2>4, <2>5 DEF CcidLine
  <2>7. CcidReply'
    BY <1>1, <2>1 DEF CcidReply
  <2> QED
    BY <1>1, <1>3, <2>1, <2>6, <2>7, CcidExchanges
<1> QED
  BY <1>4, <1>5

LEMMA CcidReceivesStep ==
    ASSUME OpInv, IccInv, driver = "ccid", CcidInv, CcidReceives \/ CcidTimeout,
           UNCHANGED <<driver, icc, event, opvars, ran, work>>
    PROVE  CcidInv' /\ OpInv' /\ IccInv' /\ op' # None /\ Promises'
<1>1. /\ link.sent # None /\ ask = None
      /\ UNCHANGED <<ask, late, rdr, faults, slot, dd, op, at, told>>
  BY DEF CcidReceives, CcidTimeout, Silent, opvars
<1>2. CcidLine /\ CcidCommands /\ CcidRan /\ cmd # None /\ op # None
  BY <1>1 DEF CcidInv, CcidLine, OpInv
<1>3. Queue(inbox) /\ Queue(late) /\ link \in [seq : 0 .. 255, sent : 0 .. 255 \cup {None}]
  BY <1>2 DEF CcidLine
<1>4. Queue(inbox') /\ ToSet(inbox') \subseteq ToSet(inbox)
  BY <1>3, QueueHead DEF CcidReceives, CcidTimeout
<1>5. Coming' \subseteq Coming
  BY <1>1, <1>4 DEF Coming
<1>6. ASSUME NEW rc \in Int, NEW st, NEW data, Gives(rc, st, data),
             rc >= 0 => CcidSays(data),
             rc < 0 /\ at \in CcidPowers \cup CcidStats => CcidRefuses \/ faults # 0,
             rc < 0 /\ at \in CcidStats => st # "mute"
      PROVE  CcidInv' /\ OpInv' /\ IccInv' /\ op' # None /\ Promises'
  <2>1. /\ cmd' = None /\ reply' = [rc |-> rc, st |-> st, data |-> data]
        /\ link' = [link EXCEPT !.sent = None]
    BY <1>6 DEF Gives
  <2>2. link'.seq = link.seq /\ link'.sent = None /\ link' \in [seq : 0 .. 255, sent : 0 .. 255 \cup {None}]
    BY <1>3, <2>1
  <2>3. \A m \in Coming' : m.seq \in 0 .. 255 /\ m.seq # None
    BY <1>2, <1>5, CcidNumbers DEF CcidLine
  <2>4. CcidLine'
    BY <1>1, <1>2, <1>3, <1>4, <2>1, <2>2, <2>3 DEF CcidLine
  <2>5. CcidReply'
    <3>1. (CcidSays(data) <=> CcidSays(data)') /\ (CcidRefuses <=> CcidRefuses')
      BY <1>1, CcidSame
    <3> QED
      BY <1>1, <1>6, <2>1, <3>1 DEF CcidReply, OK
  <2>6. CcidRan'
    BY <1>1, <1>2, <2>1 DEF CcidRan
  <2> QED
    BY <1>1, <1>2, <2>1, <2>4, <2>5, <2>6, CcidExchanges
<1>7. CASE CcidTimeout
  <2>1. Gives(-1, "timeout", <<>>) /\ inbox = <<>>
    BY <1>7 DEF CcidTimeout, Silent
  <2>2. faults # 0
    <3>1. ToSet(inbox) = {}
      BY <2>1, QueueEmpty
    <3> QED
      BY <1>1, <1>2, <3>1 DEF CcidLine
  <2>3. ~(-1 >= 0) /\ -1 \in Int
    OBVIOUS
  <2> QED
    BY <1>6, <2>1, <2>2, <2>3
<1>8. CASE CcidReceives
  <2> DEFINE m == Head(inbox)
  <2>1. inbox # <<>> /\ inbox' = Tail(inbox)
    BY <1>8 DEF CcidReceives
  <2>2. /\ m \in ToSet(inbox) /\ m \in Coming
        /\ ToSet(inbox) = {m} \cup ToSet(inbox')
    BY <1>3, <2>1, QueueHead DEF Coming
  <2>3. Mine(m) => CcidMessage(m)
    BY <1>1, <1>2, <2>2 DEF CcidLine, Mine
  <2>4. \/ UNCHANGED <<cmd, reply, link>> /\ (~Mine(m) \/ m.st = "time")
        \/ Mine(m) /\ m.st = "ok" /\ IF m.type \in Expected(cmd.name)
                                    THEN Gives(Len(m.data), "ok", m.data)
                                    ELSE Gives(-1, "type", <<>>)
        \/ Mine(m) /\ Refuses(m.st) /\ Gives(-1, m.st, <<>>)
    BY <1>8 DEF CcidReceives, Refuses
  <2> HIDE DEF m
  <2>5. CASE UNCHANGED <<cmd, reply, link>> /\ (~Mine(m) \/ m.st = "time")
    <3>1. \A x \in Coming' : x.seq = link'.sent => CcidMessage(x)'
      <4>1. \A x : CcidMessage(x) <=> CcidMessage(x)'
        <5>1. /\ \A data : CcidSays(data) <=> CcidSays(data)'
              /\ CcidRefuses <=> CcidRefuses'
          BY <1>1, CcidSame
        <5> QED
          BY <2>5, <5>1 DEF CcidMessage
      <4> QED
        BY <1>1, <1>2, <1>5, <2>5, <4>1 DEF CcidLine
    <3>2. faults = 0 => \E x \in ToSet(inbox') : x.seq = link'.sent /\ x.st # "time"
      BY <1>1, <1>2, <2>2, <2>5 DEF CcidLine, Mine
    <3>3. \A x \in Coming' : x.seq \in 0 .. 255
      BY <1>2, <1>5 DEF CcidLine
    <3>4. CcidLine'
      BY <1>1, <1>2, <1>3, <1>4, <2>5, <3>1, <3>2, <3>3 DEF CcidLine
    <3>5. CcidReply' /\ CcidRan'
      BY <1>1, <1>2, <2>5 DEF CcidReply, CcidRan
    <3> QED
      BY <1>1, <1>2, <2>5, <3>4, <3>5, CcidExchanges
  <2>6. CASE Mine(m) /\ m.st = "ok" /\ IF m.type \in Expected(cmd.name)
                                    THEN Gives(Len(m.data), "ok", m.data)
                                    ELSE Gives(-1, "type", <<>>)
    <3>1. m.type \in Expected(cmd.name) /\ Len(m.data) \in Nat /\ CcidSays(m.data)
      BY <2>3, <2>6 DEF CcidMessage
    <3>2. Gives(Len(m.data), "ok", m.data)
      BY <2>6, <3>1
    <3> QED
      BY <1>6, <3>1, <3>2
  <2>7. CASE Mine(m) /\ Refuses(m.st) /\ Gives(-1, m.st, <<>>)
    <3>1. CcidRefuses
      BY <2>3, <2>7 DEF CcidMessage
    <3>2. at \notin CcidStats
      BY <3>1 DEF CcidRefuses
    <3>3. ~(-1 >= 0) /\ -1 \in Int
      OBVIOUS
    <3> QED
      BY <1>6, <2>7, <3>1, <3>2, <3>3
  <2> QED
    BY <2>4, <2>5, <2>6, <2>7
<1> QED
  BY <1>7, <1>8

LEMMA CcidUnsentStep ==
    ASSUME OpInv, IccInv, driver = "ccid", CcidInv, CcidUnsent,
           UNCHANGED <<driver, icc, event, opvars, ran, work>>
    PROVE  CcidInv' /\ OpInv' /\ IccInv' /\ op' # None /\ Promises'
<1>1. /\ cmd # None /\ link.sent = None /\ op # None
      /\ faults \in Nat /\ faults' = faults + 1 /\ faults' # 0
      /\ cmd' = None /\ reply' = [rc |-> -1, st |-> "unsent", data |-> <<>>]
      /\ link' = [link EXCEPT !.seq = (@ + 1) % 256]
      /\ UNCHANGED <<ask, inbox, late, rdr, slot, dd, op, at, told>>
  BY DEF CcidUnsent, Fault, OpInv, opvars
<1>2. /\ CcidLine /\ CcidRan /\ ask = None /\ ran = <<>>
      /\ Coming' = Coming
  BY <1>1 DEF CcidInv, CcidLine, CcidRan, Coming
<1>3. /\ link' \in [seq : 0 .. 255, sent : 0 .. 255 \cup {None}]
      /\ link'.sent = None
  <2>1. link \in [seq : 0 .. 255, sent : 0 .. 255 \cup {None}]
    BY <1>2 DEF CcidLine
  <2>2. link.seq \in 0 .. 255
    BY <2>1
  <2>3. (link.seq + 1) % 256 \in 0 .. 255
    BY <2>2, SMT
  <2> QED
    BY <1>1, <2>1, <2>3
<1>4. CcidLine'
  BY <1>1, <1>2, <1>3, CcidNumbers DEF CcidLine
<1>5. CcidReply'
  BY <1>1 DEF CcidReply, OK
<1>6. CcidRan'
  BY <1>1, <1>2 DEF CcidRan
<1> QED
  BY <1>1, <1>4, <1>5, <1>6, CcidExchanges

LEMMA CcidReceivesShortStep ==
    ASSUME OpInv, IccInv, driver = "ccid", CcidInv, CcidReceivesShort,
           UNCHANGED <<driver, icc, event, opvars, ran, work>>
    PROVE  CcidInv' /\ OpInv' /\ IccInv' /\ op' # None /\ Promises'
<1>1. /\ link.sent # None /\ ask = None /\ inbox # <<>> /\ inbox' = Tail(inbox)
      /\ faults \in Nat /\ faults' = faults + 1 /\ faults' # 0
      /\ cmd' = None /\ reply' = [rc |-> -1, st |-> "short", data |-> <<>>]
      /\ link' = [link EXCEPT !.sent = None]
      /\ UNCHANGED <<ask, late, rdr, slot, dd, op, at, told>>
  BY DEF CcidReceivesShort, Gives, Fault, OpInv, opvars
<1>2. CcidLine /\ CcidRan /\ cmd # None /\ op # None
  BY <1>1 DEF CcidInv, CcidLine, OpInv
<1>3. Queue(inbox) /\ Queue(late) /\ link \in [seq : 0 .. 255, sent : 0 .. 255 \cup {None}]
  BY <1>2 DEF CcidLine
<1>4. link' \in [seq : 0 .. 255, sent : 0 .. 255 \cup {None}] /\ link'.sent = None
  BY <1>1, <1>3
<1>5. Queue(inbox') /\ ToSet(inbox') \subseteq ToSet(inbox)
  BY <1>1, <1>3, QueueHead
<1>6. Coming' \subseteq Coming
  BY <1>1, <1>5 DEF Coming
<1>7. \A m \in Coming' : m.seq \in 0 .. 255 /\ m.seq # None
  BY <1>2, <1>6, CcidNumbers DEF CcidLine
<1>8. CcidLine'
  BY <1>1, <1>3, <1>4, <1>5, <1>7 DEF CcidLine
<1>9. CcidReply'
  BY <1>1 DEF CcidReply, OK
<1>10. CcidRan'
  BY <1>1, <1>2 DEF CcidRan
<1> QED
  BY <1>1, <1>2, <1>8, <1>9, <1>10, CcidExchanges

LEMMA CcidHostStep ==
    ASSUME OpInv, IccInv, driver = "ccid", CcidInv, ~Overdue, CcidHost
    PROVE  CcidInv' /\ OpInv' /\ IccInv' /\ op' # None /\ Promises'
BY CcidSendsStep, CcidUnsentStep, CcidReceivesStep, CcidReceivesShortStep DEF CcidHost

\* What an answer leaves true: it has the number of the command that waits for it, and
\* no other answer has.
LEMMA CcidAnswered ==
    ASSUME OpInv, IccInv, driver = "ccid", CcidInv, ask # None,
           UNCHANGED <<driver, event, opvars, cmd, reply, link, work>>,
           NEW type, NEW st, NEW data,
           ReaderGives(type, st, data) \/ (type = "data" /\ st = "ok" /\ ReaderGivesTime(data)),
           st # "time",
           st = "ok" => type \in Expected(cmd.name) /\ Len(data) \in Nat /\ CcidSays(data)',
           st # "ok" => CcidRefuses',
           rdr' \in CcidRdr, rdr'.features = rdr.features, rdr'.volts = rdr.volts,
           at # "xfr" => ran' = ran,
           op.kind = "transact" => ran' \in {<<>>, <<Bytes(op)>>},
           icc' # None => icc # None /\ icc' \in IccType /\ icc'.card = icc.card,
           CcidSelection'
    PROVE  CcidInv' /\ OpInv' /\ IccInv' /\ op' # None /\ Promises'
<1>1. /\ CcidLine /\ CcidRan /\ link.sent # None /\ ask.seq = link.sent
      /\ cmd # None /\ op # None /\ faults \in Nat
      /\ UNCHANGED <<slot, dd, op, at, told>>
  BY DEF CcidInv, CcidLine, OpInv, opvars
<1>2. \A m \in Coming : m.seq \in 0 .. 255 /\ m.seq # link.sent
  BY <1>1 DEF CcidLine
<1>3. /\ Queue(inbox) /\ Queue(late)
      /\ link \in [seq : 0 .. 255, sent : 0 .. 255 \cup {None}]
      /\ faults = 0 => late = <<>>
  BY <1>1 DEF CcidLine
<1>0. PICK n : n = ask.seq
  OBVIOUS
<1> DEFINE a == [type |-> type, seq |-> n, st |-> st, data |-> data]
           t == [type |-> "data", seq |-> n, st |-> "time", data |-> <<>>]
<1>4. CcidMessage(a)' /\ CcidMessage(t)'
  BY <1>1 DEF CcidMessage, Refuses
<1>5. a.seq = link.sent /\ t.seq = link.sent /\ a.st # "time"
  BY <1>0, <1>1
<1>6. /\ ask' = None
      /\ \/ inbox' = Append(inbox, a) /\ late' = late /\ faults' = faults
         \/ Fault /\ inbox' = inbox /\ late' = late
         \/ Fault /\ inbox' = inbox /\ late' = Append(late, a)
         \/ inbox' = inbox \o <<t, a>> /\ late' = late /\ faults' = faults
  <2>1. CASE ReaderGives(type, st, data)
    BY <1>0, <2>1 DEF ReaderGives, Answers
  <2>2. CASE type = "data" /\ st = "ok" /\ ReaderGivesTime(data)
    BY <1>0, <2>2 DEF ReaderGivesTime
  <2> QED
    BY <2>1, <2>2
<1> HIDE DEF a, t
<1>7. /\ Queue(inbox') /\ Queue(late') /\ Coming' \subseteq Coming \cup {a, t}
      /\ faults' \in Nat
      /\ faults' = 0 => faults = 0 /\ late' = late /\ a \in ToSet(inbox')
  <2>1. CASE inbox' = Append(inbox, a) /\ late' = late /\ faults' = faults
    <3>1. Queue(inbox') /\ ToSet(inbox') = ToSet(inbox) \cup {a}
      BY <1>3, <2>1, QueueAppend
    <3> QED
      BY <1>1, <1>3, <2>1, <3>1 DEF Coming
  <2>2. CASE Fault /\ inbox' = inbox /\ late' = late
    BY <1>1, <1>3, <2>2 DEF Coming, Fault
  <2>3. CASE Fault /\ inbox' = inbox /\ late' = Append(late, a)
    <3>1. Queue(late') /\ ToSet(late') = ToSet(late) \cup {a}
      BY <1>3, <2>3, QueueAppend
    <3> QED
      BY <1>1, <1>3, <2>3, <3>1 DEF Coming, Fault
  <2>4. CASE inbox' = inbox \o <<t, a>> /\ late' = late /\ faults' = faults
    <3>1. Queue(inbox') /\ ToSet(inbox') = ToSet(inbox) \cup {t, a}
      BY <1>3, <2>4, QueueTwo
    <3> QED
      BY <1>1, <1>3, <2>4, <3>1 DEF Coming
  <2> QED
    BY <1>6, <2>1, <2>2, <2>3, <2>4
<1>8. CcidLine'
  <2>1. \A m \in Coming' : m.seq \in 0 .. 255 /\ (m.seq = link'.sent => CcidMessage(m)')
    <3>1. link.sent \in 0 .. 255 /\ link' = link
      BY <1>1, <1>3
    <3>2. SUFFICES ASSUME NEW m \in Coming'
                   PROVE  m.seq \in 0 .. 255 /\ (m.seq = link'.sent => CcidMessage(m)')
      OBVIOUS
    <3>3. m \in Coming \/ m = a \/ m = t
      BY <1>7
    <3>4. CASE m \in Coming
      BY <1>2, <3>1, <3>4
    <3>5. CASE m = a
      <4>1. m.seq \in 0 .. 255
        BY <1>5, <3>1, <3>5
      <4> QED
        BY <1>4, <3>5, <4>1
    <3>6. CASE m = t
      <4>1. m.seq \in 0 .. 255
        BY <1>5, <3>1, <3>6
      <4> QED
        BY <1>4, <3>6, <4>1
    <3> QED
      BY <3>3, <3>4, <3>5, <3>6
  <2> QED
    BY <1>1, <1>3, <1>5, <1>6, <1>7, <2>1 DEF CcidLine
<1>9. OpInv' /\ IccInv'
  BY <1>1, <1>7, CommonReader
<1>10. CcidReply' /\ CcidRan'
  BY <1>1, <1>6 DEF CcidReply, CcidRan
<1>11. CcidStates' /\ CcidKnows' /\ CcidKinds' /\ CcidBuffer'
  BY <1>1 DEF CcidInv, CcidStates, CcidShape, CcidKnows, CcidOpened, CcidKinds, CcidBuffer
<1>12. CcidTries'
  BY <1>1, <1>7 DEF CcidInv, CcidTries
<1>13. CcidCommands'
  <2>1. CcidCommand' = CcidCommand
    BY <1>1 DEF CcidCommand, Wanted, CcidSpeed
  <2> QED
    BY <1>1, <2>1 DEF CcidInv, CcidCommands
<1>14. Promises'
  BY <1>1, <1>10, RanOnce, PromisesUnderWay DEF CcidRan
<1> QED
  BY <1>1, <1>8, <1>9, <1>10, <1>11, <1>12, <1>13, <1>14 DEF CcidInv

\* A command says where the driver is, and what it has asked for.
LEMMA CcidNames ==
    ASSUME OpInv, driver = "ccid", CcidInv, ask # None
    PROVE  /\ op # None /\ op \in Operations /\ cmd # None /\ ask.body = cmd /\ CcidKinds /\ CcidStates /\ CcidSelection
           /\ ran = <<>>
           /\ cmd.name = "slotstat" => at \in CcidStats
           /\ cmd.name = "poweron" =>
                /\ at \in CcidPowers /\ op.kind = "reset"
                /\ at = "poweron-auto" => Head(cmd.data) = "auto"
                /\ at \in CcidVoltages => Head(cmd.data) = at
           /\ cmd.name = "getparams" => at = "getparams"
           /\ cmd.name = "setparams" =>
                /\ at \in {"guard", "params-set"} /\ cmd.data[1] = Wanted
                /\ cmd.data[2] = IF at = "guard" THEN dd.par ELSE CcidSpeed
           /\ cmd.name = "pts" => at = "pts-sent" /\ Head(cmd.data) = [proto |-> Wanted, ta1 |-> dd.ta1]
           /\ cmd.name = "xfrblock" => at = "xfr" /\ cmd.data = Bytes(op) /\ op.kind = "transact"
           /\ at \in CcidSelecting => CcidOpened /\ Wanted \in {"T0", "T1"} /\ Wanted \in dd.protos
<1>1. /\ op # None /\ op \in Operations /\ cmd # None /\ ask.body = cmd /\ CcidKinds /\ CcidStates /\ CcidSelection
      /\ ran = <<>> /\ at \in CcidCalls /\ cmd = CcidCommand
  BY DEF OpInv, CcidInv, CcidLine, CcidRan, CcidCommands
<1>2. /\ at \in CcidStats => cmd = Ccid("slotstat", <<>>)
      /\ at = "poweron-auto" => cmd = Ccid("poweron", <<"auto">>)
      /\ at \in CcidVoltages => cmd = Ccid("poweron", <<at>>)
      /\ at = "getparams" => cmd = Ccid("getparams", <<>>)
      /\ at = "guard" => cmd = Ccid("setparams", <<Wanted, dd.par>>)
      /\ at = "pts-sent" => cmd = Ccid("pts", <<[proto |-> Wanted, ta1 |-> dd.ta1]>>)
      /\ at = "params-set" => cmd = Ccid("setparams", <<Wanted, CcidSpeed>>)
      /\ at = "xfr" => cmd = Ccid("xfrblock", Bytes(op))
  BY <1>1 DEF CcidCommand, CcidStats, CcidVoltages
<1>3. \A s, d : Ccid(s, d).name = s /\ Ccid(s, d).data = d
  BY DEF Ccid
<1>4. \A x, y : Head(<<x>>) = x /\ <<x, y>>[1] = x /\ <<x, y>>[2] = y
  OBVIOUS
<1>5. \/ at \in CcidStats /\ cmd.name = "slotstat"
      \/ at = "poweron-auto" /\ cmd.name = "poweron" /\ Head(cmd.data) = "auto"
      \/ at \in CcidVoltages /\ cmd.name = "poweron" /\ Head(cmd.data) = at
      \/ at = "getparams" /\ cmd.name = "getparams"
      \/ at = "guard" /\ cmd.name = "setparams" /\ cmd.data[1] = Wanted /\ cmd.data[2] = dd.par
      \/ at = "pts-sent" /\ cmd.name = "pts" /\ Head(cmd.data) = [proto |-> Wanted, ta1 |-> dd.ta1]
      \/ at = "params-set" /\ cmd.name = "setparams" /\ cmd.data[1] = Wanted /\ cmd.data[2] = CcidSpeed
      \/ at = "xfr" /\ cmd.name = "xfrblock" /\ cmd.data = Bytes(op)
  <2>1. \/ at \in CcidStats \/ at = "poweron-auto" \/ at \in CcidVoltages \/ at = "getparams"
        \/ at = "guard" \/ at = "pts-sent" \/ at = "params-set" \/ at = "xfr"
    BY <1>1 DEF CcidCalls, CcidPowers
  <2>2. CASE at \in CcidStats
    BY <1>2, <1>3, <2>2
  <2>3. CASE at = "poweron-auto"
    BY <1>2, <1>3, <1>4, <2>3
  <2>4. CASE at \in CcidVoltages
    BY <1>2, <1>3, <1>4, <2>4
  <2>5. CASE at = "getparams"
    BY <1>2, <1>3, <2>5
  <2>6. CASE at = "guard"
    BY <1>2, <1>3, <1>4, <2>6
  <2>7. CASE at = "pts-sent"
    BY <1>2, <1>3, <1>4, <2>7
  <2>8. CASE at = "params-set"
    BY <1>2, <1>3, <1>4, <2>8
  <2>9. CASE at = "xfr"
    BY <1>2, <1>3, <2>9
  <2> QED
    BY <2>1, <2>2, <2>3, <2>4, <2>5, <2>6, <2>7, <2>8, <2>9
<1>6. /\ at \in CcidPowers => op.kind = "reset"
      /\ at = "xfr" => op.kind = "transact"
      /\ at \in CcidSelecting => op.kind \in {"reset", "select"}
  BY <1>1 DEF CcidKinds, CcidPowers, CcidVoltages, CcidSelecting
<1>7. at \in CcidSelecting => CcidOpened /\ Wanted \in {"T0", "T1"} /\ Wanted \in dd.protos
  <2>1. SUFFICES ASSUME at \in CcidSelecting PROVE CcidOpened /\ Wanted \in {"T0", "T1"} /\ Wanted \in dd.protos
    OBVIOUS
  <2>2. CcidOpened
    BY <1>1, <1>6, <2>1 DEF CcidInv, CcidKnows
  <2>3. Wanted \in dd.protos
    BY <1>1, <2>1 DEF CcidSelection
  <2> QED
    BY <2>2, <2>3 DEF CcidOpened
<1> QED
  BY <1>1, <1>5, <1>6, <1>7 DEF CcidPowers, CcidVoltages

LEMMA CcidSlotStatStep ==
    ASSUME OpInv, IccInv, driver = "ccid", CcidInv, ask # None, SlotStat,
           UNCHANGED <<driver, event, opvars, cmd, reply, link, work>>
    PROVE  CcidInv' /\ OpInv' /\ IccInv' /\ op' # None /\ Promises'
<1>1. /\ op # None /\ at \in CcidStats /\ cmd.name = "slotstat" /\ CcidStates /\ ran = <<>>
      /\ UNCHANGED <<rdr, icc, ran, slot, dd, op, at, told>>
      /\ icc # None => op.card = icc.card /\ icc \in IccType /\ icc.card \in Cards
  BY CcidNames DEF SlotStat, opvars, OpInv, IccInv, IccType
<1>2. PICK x : x = IF icc = None THEN "absent" ELSE "present"
  OBVIOUS
<1>3. ReaderGives("slotstat", "ok", <<x>>)
  BY <1>2 DEF SlotStat
<1>4. \/ x = "present" /\ op.card # None
      \/ x = "absent" /\ icc = None
  BY <1>1, <1>2, DriverAssumption
<1>5. CcidSays(<<x>>)
  BY <1>1, <1>4 DEF CcidSays, CcidStats, CcidPowers, CcidVoltages
<1>6. CcidSays(<<x>>)' /\ CcidSelection'
  BY <1>1, <1>5, CcidSame DEF CcidInv
<1>7. Len(<<x>>) \in Nat /\ "slotstat" \in Expected(cmd.name)
  BY <1>1 DEF Expected
<1> QED
  BY <1>1, <1>3, <1>6, <1>7, CcidAnswered DEF CcidStates

LEMMA CcidParamsStep ==
    ASSUME OpInv, IccInv, driver = "ccid", CcidInv, ask # None, Params,
           UNCHANGED <<driver, event, opvars, cmd, reply, link, work>>
    PROVE  CcidInv' /\ OpInv' /\ IccInv' /\ op' # None /\ Promises'
<1>1. /\ op # None /\ at = "getparams" /\ cmd.name = "getparams" /\ CcidStates /\ CcidSelection /\ ran = <<>>
      /\ UNCHANGED <<rdr, icc, ran, slot, dd, op, at, told>>
      /\ icc # None => op.card = icc.card /\ icc \in IccType
  BY CcidNames DEF Params, opvars, OpInv, IccInv
<1>2. rdr.speed \in {"default", "ta1"} /\ rdr \in CcidRdr
  BY <1>1 DEF CcidStates, CcidRdr
<1>3. Unused => rdr.speed = "default"
  BY <1>1 DEF CcidSelection, CcidPowered0
<1>4. PICK x \in {"default", "ta1"} : x = rdr.speed
  BY <1>2
<1>5. CcidSays(<<x>>)
  BY <1>1, <1>3, <1>4 DEF CcidSays, CcidStats, CcidPowers, CcidVoltages
<1>6. CcidSays(<<x>>)' /\ CcidSelection'
  BY <1>1, <1>5, CcidSame
<1>7. Len(<<x>>) \in Nat /\ "params" \in Expected(cmd.name)
  BY <1>1 DEF Expected
<1>8. ReaderGives("params", "ok", <<x>>)
  BY <1>4 DEF Params
<1> QED
  BY <1>1, <1>2, <1>6, <1>7, <1>8, CcidAnswered

LEMMA CcidPowerOnStep ==
    ASSUME OpInv, IccInv, driver = "ccid", CcidInv, ask # None, PowerOn,
           UNCHANGED <<driver, event, opvars, cmd, reply, link, work>>
    PROVE  CcidInv' /\ OpInv' /\ IccInv' /\ op' # None /\ Promises'
<1>1. /\ op # None /\ at \in CcidPowers /\ op.kind = "reset" /\ cmd.name = "poweron" /\ CcidStates /\ CcidSelection
      /\ ask.body = cmd /\ ran = <<>>
      /\ at = "poweron-auto" => Head(cmd.data) = "auto"
      /\ at \in CcidVoltages => Head(cmd.data) = at
      /\ UNCHANGED <<ran, slot, dd, op, at, told>>
      /\ icc # None => op.card = icc.card /\ icc \in IccType /\ icc.card \in Cards
      /\ rdr \in CcidRdr
  BY CcidNames DEF PowerOn, opvars, OpInv, IccInv, IccType, CcidStates
<1>2. CASE ~(icc # None /\ (Head(ask.body.data) = icc.card.volt \/ "voltage" \in rdr.features))
  <2>1. ReaderGives("slotstat", "mute", <<>>) /\ UNCHANGED <<rdr, icc>>
    BY <1>2 DEF PowerOn
  <2>2. CcidRefuses' /\ CcidSelection'
    <3>1. CcidRefuses
      BY <1>1, <1>2 DEF CcidRefuses, CcidPowers, CcidVoltages, CcidStats
    <3> QED
      BY <1>1, <2>1, <3>1, CcidSame
  <2> QED
    BY <1>1, <2>1, <2>2, CcidAnswered
<1>3. CASE icc # None /\ (Head(ask.body.data) = icc.card.volt \/ "voltage" \in rdr.features)
  <2> DEFINE p == Head(icc.card.protos)
             r == IF ByItself THEN p ELSE "T0"
  <2>1. /\ icc' = [icc EXCEPT !.on = TRUE, !.proto = p, !.fresh = TRUE, !.speed = "default"]
        /\ rdr' = [rdr EXCEPT !.proto = r, !.speed = "default"]
        /\ ReaderGives("data", "ok", <<icc.card>>)
    BY <1>3 DEF PowerOn
  <2>2. p \in {"T0", "T1"}
    <3>1. ~(icc.card.size > 0)
      BY <1>3 DEF IccInv, MemoryReaders
    <3>2. /\ icc.card.protos \in Seq({"T0", "T1", "I2C"}) /\ icc.card.protos # <<>>
          /\ "I2C" \notin ToSet(icc.card.protos)
      BY <1>1, <1>3, <3>1, DriverAssumption
    <3>3. Head(icc.card.protos) \in ToSet(icc.card.protos) /\ Head(icc.card.protos) \in {"T0", "T1", "I2C"}
      BY <3>2 DEF ToSet
    <3> QED
      BY <3>2, <3>3
  <2>3. r \in {"T0", "T1"}
    BY <2>2
  <2> HIDE DEF p, r
  <2>4. /\ icc' \in IccType /\ icc'.card = icc.card /\ icc'.on /\ icc'.fresh /\ icc'.proto = p
        /\ icc'.speed = "default"
    BY <1>1, <1>3, <2>1, <2>2 DEF IccType
  <2>5. /\ rdr' \in CcidRdr /\ rdr'.features = rdr.features /\ rdr'.volts = rdr.volts
        /\ rdr'.proto = r /\ rdr'.speed = "default"
    BY <1>1, <2>1, <2>3 DEF CcidRdr
  <2>6. CcidFresh' /\ CcidPowered0'
    BY <2>4, <2>5 DEF CcidFresh, CcidPowered0, Unused, Live, ByItself, p, r
  <2>7. CcidSelection'
    <3>1. slot'.atr # None => slot'.atr = icc'.card
      BY <1>1, <1>3, <2>4 DEF CcidSelection
    <3>2. at' \notin CcidSelecting \cup {"set_protocol"}
      BY <1>1 DEF CcidPowers, CcidVoltages, CcidSelecting
    <3> QED
      BY <1>1, <2>6, <3>1, <3>2 DEF CcidSelection, CcidSelecting
  <2>8. PICK c : c = icc.card
    OBVIOUS
  <2>9. CcidSays(<<c>>)'
    <3>1. c = op'.card /\ c \in Cards /\ at' = at
      BY <1>1, <1>3, <2>8
    <3> QED
      BY <1>1, <2>6, <3>1 DEF CcidSays, CcidPowers, CcidVoltages, CcidStats
  <2>10. ReaderGives("data", "ok", <<c>>)
    BY <2>1, <2>8
  <2>11. Len(<<c>>) \in Nat /\ "data" \in Expected(cmd.name)
    BY <1>1 DEF Expected
  <2>12. icc' # None => icc # None
    BY <1>3
  <2> QED
    BY <1>1, <2>4, <2>5, <2>7, <2>9, <2>10, <2>11, <2>12, CcidAnswered
<1> QED
  BY <1>2, <1>3

\* The parameters, and what is known of them.
LEMMA CcidSetParamsStep ==
    ASSUME OpInv, IccInv, driver = "ccid", CcidInv, ask # None, SetParams,
           UNCHANGED <<driver, event, opvars, cmd, reply, link, work>>
    PROVE  CcidInv' /\ OpInv' /\ IccInv' /\ op' # None /\ Promises'
<1>1. /\ op # None /\ at \in {"guard", "params-set"} /\ cmd.name = "setparams" /\ CcidStates /\ CcidSelection
      /\ ask.body = cmd /\ cmd.data[1] = Wanted
      /\ cmd.data[2] = IF at = "guard" THEN dd.par ELSE CcidSpeed
      /\ ran = <<>> /\ UNCHANGED <<ran, slot, dd, op, at, told>>
      /\ icc # None => icc \in IccType
      /\ rdr \in CcidRdr
  BY CcidNames DEF SetParams, opvars, OpInv, IccInv, CcidStates
<1>2. at \in CcidSelecting /\ at # "getparams" /\ at \notin {"pts", "setparams"}
  BY <1>1 DEF CcidSelecting
<1>3. CcidOpened /\ Wanted \in {"T0", "T1"}
  BY <1>2, CcidNames
<1>4. /\ "params" \notin rdr.features
      /\ dd.par \in {"default", "ta1"}
      /\ Unused => dd.par = "default"
      /\ at = "guard" => "pps" \notin rdr.features /\ "atrparse" \notin rdr.features
      /\ at = "params-set" /\ Unused /\ dd.ta1 => "pps" \in rdr.features
  BY <1>1, <1>2 DEF CcidSelection
<1>5. PICK p \in {"T0", "T1"} : p = Wanted
  BY <1>3
<1>6. PICK s \in {"default", "ta1"} : s = IF at = "guard" THEN dd.par ELSE CcidSpeed
  BY <1>4 DEF CcidSpeed
<1>7. /\ Wanted' = p /\ CcidSpeed' = CcidSpeed /\ NeedsParams' = NeedsParams
  BY <1>1, <1>5 DEF Wanted, CcidSpeed, NeedsParams
<1>8. \/ /\ "pps" \in rdr.features /\ icc # None /\ icc.on
         /\ icc' = [icc EXCEPT !.proto = p, !.speed = s, !.fresh = FALSE]
         /\ rdr' = [rdr EXCEPT !.proto = p, !.speed = s]
         /\ ReaderGives("params", "ok", <<s>>)
      \/ /\ "pps" \in rdr.features
         /\ ReaderGives("params", "protocol", <<>>) /\ UNCHANGED <<rdr, icc>>
      \/ /\ "pps" \notin rdr.features
         /\ rdr' = [rdr EXCEPT !.proto = p, !.speed = s]
         /\ ReaderGives("params", "ok", <<s>>)
         /\ UNCHANGED icc
  BY <1>1, <1>5, <1>6 DEF SetParams
<1>9. Len(<<s>>) \in Nat /\ "params" \in Expected(cmd.name)
  BY <1>1 DEF Expected
<1>10. at \notin CcidStats /\ at \notin CcidPowers
  BY <1>1 DEF CcidStats, CcidPowers, CcidVoltages
<1>11. rdr' = [rdr EXCEPT !.proto = p, !.speed = s] =>
         /\ rdr' \in CcidRdr /\ rdr'.features = rdr.features /\ rdr'.volts = rdr.volts
         /\ rdr'.proto = p /\ rdr'.speed = s
  BY <1>1 DEF CcidRdr
<1>12. CASE /\ "pps" \in rdr.features /\ icc # None /\ icc.on
            /\ icc' = [icc EXCEPT !.proto = p, !.speed = s, !.fresh = FALSE]
            /\ rdr' = [rdr EXCEPT !.proto = p, !.speed = s]
            /\ ReaderGives("params", "ok", <<s>>)
  <2>1. at = "params-set"
    BY <1>1, <1>4, <1>12
  <2>2. /\ icc' \in IccType /\ icc'.card = icc.card /\ icc'.proto = p /\ icc'.speed = s
        /\ icc'.on /\ ~icc'.fresh
    BY <1>1, <1>12 DEF IccType
  <2>3. ~Unused' /\ (Live' => Live) /\ (icc' # None => icc # None)
    BY <1>12, <2>2 DEF Unused, Live
  <2>4. CcidSelection'
    <3>1. CcidPowered0'
      BY <2>3 DEF CcidPowered0
    <3>2. Decides' = Decides
      BY <1>1, <1>11, <1>12 DEF Decides
    <3> QED
      BY <1>1, <1>2, <1>4, <1>5, <1>7, <1>11, <1>12, <2>1, <2>2, <2>3, <3>1, <3>2 DEF CcidSelection
  <2>5. CcidSays(<<s>>)'
    BY <1>1, <1>7, <1>10, <1>11, <1>12, <2>1, <2>2 DEF CcidSays
  <2> QED
    BY <1>1, <1>9, <1>11, <1>12, <2>1, <2>2, <2>3, <2>4, <2>5, CcidAnswered
<1>13. CASE /\ "pps" \in rdr.features
            /\ ReaderGives("params", "protocol", <<>>) /\ UNCHANGED <<rdr, icc>>
  <2>1. CcidRefuses' /\ CcidSelection'
    <3>1. CcidRefuses
      BY <1>10 DEF CcidRefuses, CcidPowers
    <3> QED
      BY <1>1, <1>13, <3>1, CcidSame
  <2> QED
    BY <1>1, <1>13, <2>1, CcidAnswered
<1>14. CASE /\ "pps" \notin rdr.features
            /\ rdr' = [rdr EXCEPT !.proto = p, !.speed = s]
            /\ ReaderGives("params", "ok", <<s>>)
            /\ UNCHANGED icc
  <2>1. Live' = Live /\ Unused' = Unused /\ ByItself' = ByItself /\ Decides' = Decides
    BY <1>1, <1>11, <1>14 DEF Live, Unused, ByItself, Decides
  <2>2. Unused => s = "default"
    BY <1>1, <1>4, <1>6, <1>14 DEF CcidSpeed
  <2>3. CcidPowered0'
    BY <1>1, <1>11, <1>14, <2>1, <2>2 DEF CcidSelection, CcidPowered0
  <2>4. CcidSelection'
    BY <1>1, <1>2, <1>4, <1>5, <1>7, <1>11, <1>14, <2>1, <2>3 DEF CcidSelection
  <2>5. at = "params-set" /\ Live /\ Decides => icc.proto = p /\ (ByItself \/ icc.speed = s)
    BY <1>1, <1>5, <1>6, <1>14 DEF CcidSelection
  <2>6. CcidSays(<<s>>)'
    BY <1>1, <1>7, <1>10, <1>11, <1>14, <2>1, <2>5 DEF CcidSays
  <2> QED
    BY <1>1, <1>9, <1>11, <1>14, <2>4, <2>6, CcidAnswered
<1> QED
  BY <1>8, <1>12, <1>13, <1>14

LEMMA CcidTakesPtsStep ==
    ASSUME OpInv, IccInv, driver = "ccid", CcidInv, ask # None, CardTakesPts,
           UNCHANGED <<driver, event, opvars, cmd, reply, link, work>>
    PROVE  CcidInv' /\ OpInv' /\ IccInv' /\ op' # None /\ Promises'
<1>1. /\ op # None /\ at = "pts-sent" /\ cmd.name = "pts" /\ CcidStates /\ CcidSelection
      /\ ask.body = cmd /\ Head(cmd.data) = [proto |-> Wanted, ta1 |-> dd.ta1]
      /\ ran = <<>> /\ UNCHANGED <<rdr, ran, slot, dd, op, at, told>>
      /\ icc # None => icc \in IccType
      /\ rdr \in CcidRdr /\ dd.ta1 \in BOOLEAN
  BY CcidNames DEF CardTakesPts, opvars, OpInv, IccInv, CcidStates
<1>2. at \in CcidSelecting /\ at # "getparams" /\ at \notin {"pts", "setparams"}
  BY <1>1 DEF CcidSelecting
<1>3. PICK p \in {"T0", "T1"} : p = Wanted
  BY <1>2, CcidNames
<1>4. "params" \notin rdr.features /\ (Unused => dd.par = "default")
  BY <1>1, <1>2 DEF CcidSelection
<1>5. /\ Wanted' = p /\ CcidSpeed' = CcidSpeed /\ NeedsParams' = NeedsParams
  BY <1>1, <1>3 DEF Wanted, CcidSpeed, NeedsParams
<1>6. PICK b \in BOOLEAN : b = dd.ta1
  BY <1>1
<1>7. at \notin CcidStats /\ at \notin CcidPowers
  BY <1>1 DEF CcidStats, CcidPowers, CcidVoltages
<1>8. CASE ReaderGives("slotstat", "mute", <<>>) /\ UNCHANGED icc
  <2>1. CcidRefuses' /\ CcidSelection'
    <3>1. CcidRefuses
      BY <1>7 DEF CcidRefuses, CcidPowers
    <3> QED
      BY <1>1, <1>8, <3>1, CcidSame
  <2> QED
    BY <1>1, <1>8, <2>1, CcidAnswered
<1>9. CASE ~(ReaderGives("slotstat", "mute", <<>>) /\ UNCHANGED icc)
  <2>1. Head(cmd.data) = [proto |-> p, ta1 |-> b]
    BY <1>1, <1>3, <1>6
  <2>2. PICK pts : pts = [proto |-> p, ta1 |-> b]
    OBVIOUS
  <2>3. PICK agrees \in {pts.ta1, FALSE} :
          /\ icc # None /\ icc.on /\ icc.fresh
          /\ icc' = [icc EXCEPT !.proto = pts.proto, !.fresh = FALSE,
                                !.speed = IF agrees THEN "ta1" ELSE "default"]
          /\ ReaderGives("data", "ok", <<[pts EXCEPT !.ta1 = agrees]>>)
    BY <1>1, <1>9, <2>1, <2>2 DEF CardTakesPts
  <2>4. agrees \in BOOLEAN /\ (agrees => b) /\ [pts EXCEPT !.ta1 = agrees] = [proto |-> p, ta1 |-> agrees]
        /\ pts.proto = p
    <3>1. pts.ta1 = b /\ pts.proto = p
      BY <2>2
    <3>2. agrees = b \/ agrees = FALSE
      BY <2>3, <3>1, Zenon
    <3>3. agrees \in BOOLEAN /\ (agrees => b)
      <4>1. CASE agrees = b
        BY <4>1, Zenon
      <4>2. CASE agrees = FALSE
        BY <4>2
      <4> QED
        BY <3>2, <4>1, <4>2, Zenon
    <3>4. [pts EXCEPT !.ta1 = agrees] = [proto |-> p, ta1 |-> agrees]
      BY <2>2
    <3> QED
      BY <3>1, <3>3, <3>4
  <2>5. PICK s \in {"default", "ta1"} : s = IF agrees THEN "ta1" ELSE "default"
    OBVIOUS
  <2>6. /\ icc' = [icc EXCEPT !.proto = p, !.fresh = FALSE, !.speed = s]
        /\ ReaderGives("data", "ok", <<[proto |-> p, ta1 |-> agrees]>>)
    BY <2>3, <2>4, <2>5
  <2>7. /\ icc' \in IccType /\ icc'.card = icc.card /\ icc'.proto = p /\ icc'.speed = s
        /\ icc'.on /\ ~icc'.fresh
    BY <1>1, <2>3, <2>6 DEF IccType
  <2>8. ~Unused' /\ Live /\ Unused /\ dd.par = "default" /\ (icc' # None => icc # None)
    BY <1>4, <2>3, <2>7 DEF Unused, Live
  <2>9. CcidSelection'
    <3>1. CcidPowered0'
      BY <2>8 DEF CcidPowered0
    <3>2. Decides' = Decides
      BY <1>1 DEF Decides
    <3> QED
      BY <1>1, <1>2, <1>3, <1>5, <2>7, <2>8, <3>1, <3>2 DEF CcidSelection
  <2>10. CcidSays(<<[proto |-> p, ta1 |-> agrees]>>)'
    BY <1>1, <1>5, <1>6, <1>7, <2>4, <2>5, <2>7, <2>8 DEF CcidSays
  <2>11. Len(<<[proto |-> p, ta1 |-> agrees]>>) \in Nat /\ "data" \in Expected(cmd.name)
    BY <1>1 DEF Expected
  <2> QED
    BY <1>1, <2>6, <2>7, <2>8, <2>9, <2>10, <2>11, CcidAnswered
<1> QED
  BY <1>8, <1>9

LEMMA CcidTransfersStep ==
    ASSUME OpInv, IccInv, driver = "ccid", CcidInv, ask # None, Transfers,
           UNCHANGED <<driver, event, opvars, cmd, reply, link, work>>
    PROVE  CcidInv' /\ OpInv' /\ IccInv' /\ op' # None /\ Promises'
<1>1. /\ op # None /\ at = "xfr" /\ cmd.name = "xfrblock" /\ CcidStates /\ CcidSelection
      /\ ask.body = cmd /\ cmd.data = Bytes(op) /\ op.kind = "transact" /\ op \in Operations
      /\ ran = <<>> /\ UNCHANGED <<rdr, slot, dd, op, at, told>>
      /\ icc # None => icc \in IccType
      /\ rdr \in CcidRdr
  BY CcidNames DEF Transfers, opvars, OpInv, IccInv, CcidStates
<1>2. at \notin CcidStats /\ at \notin CcidPowers /\ at \notin CcidSelecting /\ at # "set_protocol"
  BY <1>1 DEF CcidStats, CcidPowers, CcidVoltages, CcidSelecting
<1>3. CASE ReaderGives("slotstat", "parity", <<>>) /\ UNCHANGED <<icc, ran>>
  <2>1. CcidRefuses' /\ CcidSelection'
    <3>1. CcidRefuses
      BY <1>2 DEF CcidRefuses, CcidPowers
    <3> QED
      BY <1>1, <1>3, <3>1, CcidSame
  <2> QED
    BY <1>1, <1>3, <2>1, CcidAnswered
<1>4. CASE ~(ReaderGives("slotstat", "parity", <<>>) /\ UNCHANGED <<icc, ran>>)
  <2>1. /\ icc # None /\ icc.on /\ Executes(Bytes(op))
        /\ icc' = [icc EXCEPT !.fresh = FALSE]
        /\ ReaderGives("data", "ok", AnswerTo(op)) \/ ReaderGivesTime(AnswerTo(op))
    BY <1>1, <1>4 DEF Transfers
  <2>2. ran' = <<Bytes(op)>> /\ ran' # <<>>
    <3>1. ran' = <<Bytes(op)>>
      BY <1>1, <2>1, ExecutesOne
    <3>2. \A x : <<x>> # <<>>
      OBVIOUS
    <3> QED
      BY <3>1, <3>2, Zenon
  <2>3. /\ icc' \in IccType /\ icc'.card = icc.card /\ ~icc'.fresh /\ icc'.on
    BY <1>1, <2>1 DEF IccType
  <2>4. PICK d : d = AnswerTo(op)
    OBVIOUS
  <2>5. Len(d) \in Nat
    BY <1>1, <2>4, AnswerIsNoRefusal DEF Operations
  <2>6. CcidSays(d)'
    BY <1>1, <1>2, <2>2, <2>4 DEF CcidSays
  <2>7. CcidSelection'
    <3>1. CcidPowered0' /\ (Live' => Live)
      BY <2>1, <2>3 DEF CcidPowered0, Unused, Live
    <3> QED
      BY <1>1, <1>2, <2>3, <3>1 DEF CcidSelection
  <2>8. "data" \in Expected(cmd.name) /\ (icc' # None => icc # None)
    BY <1>1, <2>1 DEF Expected
  <2>9. ReaderGives("data", "ok", d) \/ ReaderGivesTime(d)
    BY <2>1, <2>4
  <2> QED
    BY <1>1, <2>2, <2>3, <2>5, <2>6, <2>7, <2>8, <2>9, CcidAnswered
<1> QED
  BY <1>3, <1>4

LEMMA CcidReaderStep ==
    ASSUME OpInv, IccInv, driver = "ccid", CcidInv, CcidReader
    PROVE  CcidInv' /\ OpInv' /\ IccInv' /\ op' # None /\ Promises'
<1>1. /\ ask # None /\ UNCHANGED <<driver, event, opvars, cmd, reply, link, work>>
      /\ SlotStat \/ PowerOn \/ Params \/ SetParams \/ CardTakesPts \/ Transfers
  BY DEF CcidReader
<1> QED
  BY <1>1, CcidSlotStatStep, CcidPowerOnStep, CcidParamsStep, CcidSetParamsStep, CcidTakesPtsStep, CcidTransfersStep

-----------------------------------------------------------------------------
(* CCID: the beginning, and the user's, the handler's and the line's steps *)

LEMMA CcidInserts ==
    ASSUME OpInv, IccInv, driver = "ccid", CcidInv, Insert
    PROVE  CcidInv'
<1>1. op = None /\ UNCHANGED <<driver, slot, dd, op, at, told, cmd, reply, ran, link, ask, inbox, late, rdr, faults>>
  BY DEF Insert, opvars, linkvars
<1>2. at = "idle" /\ cmd = None /\ reply = None
  BY <1>1 DEF OpInv
<1>3. icc'.on = FALSE
  BY DEF Insert
<1>4. ~Live' /\ ~Unused'
  BY <1>3 DEF Live, Unused
<1>5. CcidStates' /\ CcidKnows' /\ CcidKinds' /\ CcidBuffer' /\ CcidCommands' /\ CcidReply' /\ CcidRan' /\ CcidTries'
  BY <1>1, <1>2 DEF CcidInv, CcidStates, CcidShape, CcidKnows, CcidOpened, CcidKinds, CcidBuffer, CcidCommands,
     CcidReply, CcidRan, CcidTries, CcidVoltages
<1>6. CcidLine'
  <2>1. Coming' = Coming /\ link.sent = None /\ \A m \in Coming : m.seq \in 0 .. 255 /\ m.seq # None
    BY <1>1, <1>2, CcidNumbers DEF CcidInv, CcidLine, Coming
  <2> QED
    BY <1>1, <1>2, <2>1 DEF CcidInv, CcidLine
<1>7. CcidSelection'
  BY <1>1, <1>2, <1>4 DEF CcidSelection, CcidSelecting, CcidPowered0
<1> QED
  BY <1>5, <1>6, <1>7 DEF CcidInv

LEMMA CcidDraws ==
    ASSUME OpInv, IccInv, driver = "ccid", CcidInv, Draw
    PROVE  CcidInv'
<1>1. icc' = None /\ UNCHANGED <<driver, slot, dd, op, at, told, cmd, reply, ran, link, ask, inbox, late, rdr, faults>>
  BY DEF Draw, opvars, linkvars
<1>2. ~Live' /\ ~Unused' /\ Wanted' = Wanted /\ CcidSpeed' = CcidSpeed /\ NeedsParams' = NeedsParams /\ CcidFresh'
  BY <1>1 DEF Live, Unused, Wanted, CcidSpeed, NeedsParams, CcidFresh
<1>3. /\ \A data : CcidSays(data) => CcidSays(data)'
      /\ CcidRefuses => CcidRefuses'
  BY <1>1, <1>2 DEF CcidSays, CcidRefuses
<1>4. CcidStates' /\ CcidKnows' /\ CcidKinds' /\ CcidBuffer'
  BY <1>1 DEF CcidInv, CcidStates, CcidShape, CcidKnows, CcidOpened, CcidKinds, CcidBuffer
<1>5. CcidCommands'
  <2>1. CcidCommand' = CcidCommand
    BY <1>1, <1>2 DEF CcidCommand
  <2> QED
    BY <1>1, <2>1 DEF CcidInv, CcidCommands
<1>6. CcidLine'
  <2>1. Coming' = Coming
    BY <1>1 DEF Coming
  <2>2. \A m : CcidMessage(m) => CcidMessage(m)'
    BY <1>1, <1>3 DEF CcidMessage
  <2> QED
    BY <1>1, <2>1, <2>2 DEF CcidInv, CcidLine
<1>7. CcidReply'
  BY <1>1, <1>3 DEF CcidInv, CcidReply, OK
<1>8. CcidRan' /\ CcidTries'
  BY <1>1 DEF CcidInv, CcidRan, CcidTries
<1>9. CcidSelection'
  BY <1>1, <1>2 DEF CcidInv, CcidSelection, CcidPowered0
<1> QED
  BY <1>4, <1>5, <1>6, <1>7, <1>8, <1>9 DEF CcidInv

LEMMA CcidLateArrives ==
    ASSUME OpInv, IccInv, driver = "ccid", CcidInv, LateArrives
    PROVE  CcidInv'
<1>1. /\ late # <<>> /\ inbox' = Append(inbox, Head(late)) /\ late' = Tail(late)
      /\ UNCHANGED <<driver, icc, slot, dd, op, at, told, cmd, reply, ran, link, ask, rdr, faults>>
  BY DEF LateArrives, opvars
<1>2. CcidLine /\ faults # 0
  BY <1>1 DEF CcidInv, CcidLine
<1>3. /\ Queue(inbox') /\ Queue(late')
      /\ ToSet(inbox') = ToSet(inbox) \cup {Head(late)}
      /\ ToSet(late) = {Head(late)} \cup ToSet(late')
  BY <1>1, <1>2, QueueHead, QueueAppend DEF CcidLine
<1>4. Coming' = Coming
  BY <1>3 DEF Coming
<1>5. /\ \A data : CcidSays(data) <=> CcidSays(data)'
      /\ CcidRefuses <=> CcidRefuses'
      /\ CcidSelection <=> CcidSelection'
  BY <1>1, CcidSame
<1>6. CcidLine'
  <2>1. \A m : CcidMessage(m) => CcidMessage(m)'
    BY <1>1, <1>5 DEF CcidMessage
  <2> QED
    BY <1>1, <1>2, <1>3, <1>4, <2>1 DEF CcidLine
<1>7. CcidReply'
  BY <1>1, <1>5 DEF CcidInv, CcidReply, OK
<1>8. CcidStates' /\ CcidKnows' /\ CcidKinds' /\ CcidBuffer'
  BY <1>1 DEF CcidInv, CcidStates, CcidShape, CcidKnows, CcidOpened, CcidKinds, CcidBuffer
<1>9. CcidCommands'
  <2>1. CcidCommand' = CcidCommand
    BY <1>1 DEF CcidCommand, Wanted, CcidSpeed
  <2> QED
    BY <1>1, <2>1 DEF CcidInv, CcidCommands
<1>10. CcidRan' /\ CcidTries'
  BY <1>1 DEF CcidInv, CcidRan, CcidTries
<1> QED
  BY <1>5, <1>6, <1>7, <1>8, <1>9, <1>10 DEF CcidInv

LEMMA CcidAsks ==
    ASSUME OpInv, IccInv, driver = "ccid", CcidInv, HandlerAsks
    PROVE  CcidInv'
<1>1. /\ op = None /\ op' \in Operations /\ op' # None /\ at' = op'.kind /\ op'.kind # "open"
      /\ ran' = <<>> /\ Serves(op'.kind) /\ Lives
      /\ UNCHANGED <<driver, icc, dd, told, cmd, reply, link, ask, inbox, late, rdr, faults>>
      /\ slot' = IF op'.kind = "reset" THEN [slot EXCEPT !.atr = None, !.proto = None] ELSE slot
  BY HandlerStarts DEF linkvars
<1>2. at = "idle" /\ cmd = None /\ reply = None
  BY <1>1 DEF OpInv
<1>3. op'.kind \in {"reset", "select", "transact", "poll"}
  BY <1>1 DEF Operations, Serves, Activated, KeyPads, MemoryReaders
<1>4. /\ slot'.proto \in {None, slot.proto} /\ slot'.atr \in {None, slot.atr}
      /\ op'.kind = "reset" => slot'.proto = None /\ slot'.atr = None
  BY <1>1 DEF OpInv, SlotInv, SlotType
<1>5. CcidStates'
  BY <1>1, <1>4 DEF CcidInv, CcidStates, CcidShape
<1>6. CcidKnows'
  <2>1. CcidOpened
    BY <1>1 DEF CcidInv, CcidKnows, Lives
  <2> QED
    BY <1>1, <2>1 DEF CcidKnows, CcidOpened
<1>7. CcidKinds' /\ CcidCommands' /\ CcidReply' /\ CcidRan' /\ CcidTries' /\ CcidBuffer'
  BY <1>1, <1>2, <1>3 DEF CcidKinds, CcidCommands, CcidReply, CcidRan, CcidTries, CcidBuffer, CcidVoltages
<1>8. CcidLine'
  <2>1. Coming' = Coming /\ link.sent = None /\ \A m \in Coming : m.seq \in 0 .. 255 /\ m.seq # None
    BY <1>1, <1>2, CcidNumbers DEF CcidInv, CcidLine, Coming
  <2> QED
    BY <1>1, <1>2, <2>1 DEF CcidInv, CcidLine
<1>9. CcidSelection'
  <2>1. (Live /\ slot.atr # None => slot.atr = icc.card) /\ CcidPowered0
    BY DEF CcidInv, CcidSelection
  <2> QED
    BY <1>1, <1>3, <1>4, <2>1 DEF CcidSelection, CcidSelecting, CcidPowered0, Live, Unused
<1> QED
  BY <1>5, <1>6, <1>7, <1>8, <1>9 DEF CcidInv

LEMMA CcidOutside ==
    ASSUME OpInv, IccInv, driver = "ccid", CcidInv, Insert \/ Draw \/ LateArrives \/ HandlerAsks
    PROVE  CcidInv'
BY CcidInserts, CcidDraws, CcidLateArrives, CcidAsks

LEMMA CcidInit0 ==
    Init => CcidInv
<1> SUFFICES ASSUME Init, driver = "ccid"
             PROVE  /\ CcidStates /\ CcidKnows /\ CcidKinds /\ CcidCommands /\ CcidLine /\ CcidReply
                    /\ CcidRan /\ CcidTries /\ CcidSelection /\ CcidBuffer
  BY DEF CcidInv
<1>1. /\ op = [kind |-> "open"] /\ at = "open" /\ cmd = None /\ reply = None /\ ran = <<>> /\ late = <<>>
      /\ ask = None /\ inbox = <<>> /\ icc = None /\ told = None /\ slot.proto = None /\ slot.atr = None
  BY DEF Init, DriverInit
<1>2. op.kind = "open" /\ ~Live /\ ~Unused
  BY <1>1 DEF Live, Unused
<1>3. CcidInit
  BY DEF Init
<1>4. rdr \in CcidRdr
  <2>1. PICK r \in CcidReaders :
          rdr = [features |-> r.features, protos |-> r.protos, volts |-> r.volts,
                 proto |-> "T0", speed |-> "default"]
    BY <1>3 DEF CcidInit
  <2>2. r \in [features : SUBSET STRING, protos : SUBSET {"T0", "T1"}, volts : SUBSET {"5V", "3V", "1.8V"}]
    BY CcidAssumption
  <2> QED
    BY <2>1, <2>2 DEF CcidRdr
<1>5. dd = [type |-> None, flags |-> {}, protos |-> {}, volts |-> {}, seen |-> "unknown",
            proto |-> None, par |-> None, ta1 |-> FALSE, sbuf |-> None]
  BY <1>3 DEF CcidInit
<1>6. CcidShape /\ dd.ta1 \in BOOLEAN
  BY <1>5 DEF CcidShape
<1>7. CcidLine
  <2>1. link = [seq |-> 0, sent |-> None]
    BY <1>3 DEF CcidInit
  <2>2. link \in [seq : 0 .. 255, sent : 0 .. 255 \cup {None}] /\ link.sent = None
    BY <2>1
  <2>3. Coming = {}
    BY <1>1, QueueEmpty DEF Coming
  <2> QED
    BY <1>1, <2>2, <2>3, QueueEmpty DEF CcidLine
<1>8. CcidSelection
  BY <1>1, <1>2 DEF CcidSelection, CcidSelecting, CcidPowered0
<1>9. CcidStates
  BY <1>1, <1>4, <1>6 DEF CcidStates
<1>10. CcidKnows /\ CcidKinds /\ CcidCommands /\ CcidReply
  <2>1. op # None
    BY CommonInit, <1>1 DEF OpInv
  <2> QED
    BY <1>1, <1>2, <2>1 DEF CcidKnows, CcidKinds, CcidCommands, CcidReply
<1>11. CcidRan /\ CcidTries /\ CcidBuffer
  BY <1>1, <1>2 DEF CcidRan, CcidTries, CcidBuffer, CcidVoltages
<1> QED
  BY <1>7, <1>8, <1>9, <1>10, <1>11

LEMMA CcidStep ==
    ASSUME OpInv, IccInv, CcidInv, ~Overdue, CcidNext
    PROVE  OpInv' /\ IccInv' /\ CcidInv' /\ Promises'
<1>1. driver = "ccid" /\ (CcidDriver \/ CcidHost \/ CcidReader)
  BY DEF CcidNext
<1>2. CASE CcidDriver
  BY <1>1, <1>2, CcidDriverPromises
<1>3. CASE CcidHost
  BY <1>1, <1>3, CcidHostStep
<1>4. CASE CcidReader
  BY <1>1, <1>4, CcidReaderStep
<1> QED
  BY <1>1, <1>2, <1>3, <1>4

LEMMA CcidStutters ==
    ASSUME UNCHANGED vars
    PROVE  CcidInv => CcidInv'
<1>1. UNCHANGED <<driver, icc, slot, dd, op, at, cmd, reply, told, ran, link, ask, inbox, late, rdr, faults, work>>
  BY DEF vars, opvars, linkvars
<1> SUFFICES ASSUME driver = "ccid", CcidInv PROVE CcidInv'
  BY <1>1 DEF CcidInv
<1>2. /\ \A data : CcidSays(data) <=> CcidSays(data)'
      /\ CcidRefuses <=> CcidRefuses'
      /\ CcidSelection <=> CcidSelection'
  BY <1>1, CcidSame
<1>3. CcidStates' /\ CcidKnows' /\ CcidKinds' /\ CcidBuffer' /\ CcidRan' /\ CcidTries'
  BY <1>1 DEF CcidInv, CcidStates, CcidShape, CcidKnows, CcidOpened, CcidKinds, CcidBuffer, CcidRan, CcidTries
<1>4. CcidCommands'
  <2>1. CcidCommand' = CcidCommand
    BY <1>1 DEF CcidCommand, Wanted, CcidSpeed
  <2> QED
    BY <1>1, <2>1 DEF CcidInv, CcidCommands
<1>5. CcidLine'
  <2>1. Coming' = Coming
    BY <1>1 DEF Coming
  <2>2. \A m : CcidMessage(m) => CcidMessage(m)'
    BY <1>1, <1>2 DEF CcidMessage
  <2> QED
    BY <1>1, <2>1, <2>2 DEF CcidInv, CcidLine
<1>6. CcidReply'
  BY <1>1, <1>2 DEF CcidInv, CcidReply, OK
<1> QED
  BY <1>2, <1>3, <1>4, <1>5, <1>6 DEF CcidInv

-----------------------------------------------------------------------------
(* The properties of the runs                                              *)

\* The drivers whose promises hold for all cards, commands and faults.
Proved == {"ccid", "cyberjack", "kaan"}

HandlerInv ==
    driver \in Proved => OpInv /\ IccInv /\ CcidInv /\ CjInv /\ KaanInv /\ Promises

LEMMA HandlerInit ==
    Init => HandlerInv
<1> SUFFICES ASSUME Init PROVE Promises
  BY CommonInit, CcidInit0, CjInit0, KaanInit0 DEF HandlerInv
<1>1. told = None /\ op.kind = "open"
  BY DEF Init, DriverInit
<1> QED
  BY <1>1 DEF Promises, AnswersOwn, RunsOnce, ProtocolAgreed, ResetTrue, StatusTrue, MemoryKept, Told

LEMMA OneDriver ==
    ASSUME Next
    PROVE  driver' = driver
<1>1. CASE GemNext
  BY <1>1 DEF GemNext, GemDriver, Keeps, GbpHost, GemReader
<1>2. CASE CcidNext
  BY <1>2 DEF CcidNext, CcidDriver, CcidHost, CcidReader
<1>3. CASE KaanNext
  BY <1>3 DEF KaanNext, KaanDriver, Terminal
<1>4. CASE CjNext
  BY <1>4 DEF CjNext, CjHost, CjDriver, CjTerminal
<1>5. CASE Insert \/ Draw \/ LateArrives
  BY <1>5 DEF Insert, Draw, LateArrives
<1>6. CASE HandlerAsks
  BY <1>6 DEF HandlerAsks, AskMemory, AskReset, AskSelect, AskTransact, AskVerify, Poll, Starts
<1> QED
  BY <1>1, <1>2, <1>3, <1>4, <1>5, <1>6 DEF Next, DriverSteps

LEMMA CjStep ==
    ASSUME OpInv, IccInv, CjInv, Promises, CjNext, "cyberjack" \notin Late
    PROVE  OpInv' /\ IccInv' /\ CjInv' /\ Promises'
<1>0. driver = "cyberjack" /\ driver' = driver
  BY OneDriver DEF CjNext, Next, DriverSteps
<1>1. CASE CjDriver
  <2>1. CjLine'
    BY <1>0, <1>1, CjDriverQuiet
  <2>2. CjInv'
    BY <1>0, <1>1, <2>1, CjDriverStep DEF CjInv
  <2> QED
    BY <1>0, <1>1, <2>2, CjDriverCommon, CjDriverPromises
<1>2. CASE CjHost
  <2>1. /\ op # None /\ faults' \in Nat
        /\ UNCHANGED <<driver, icc, opvars, ran, late, work>>
        /\ CjInv' /\ CjRan'
    BY <1>0, <1>2, CjHostStep DEF CjInv
  <2>2. OpInv' /\ IccInv'
    BY <2>1, CommonReader DEF IccInv
  <2>3. op' # None
    BY <2>1 DEF opvars
  <2> QED
    BY <2>1, <2>2, <2>3, RanOnce, PromisesUnderWay DEF CjRan
<1>3. CASE CjTerminal
  <2>1. OpInv' /\ IccInv' /\ CjInv' /\ op' # None
    BY <1>0, <1>3, CjTerminalStep
  <2> QED
    BY <1>0, <2>1, RanOnce, PromisesUnderWay DEF CjInv, CjRan
<1> QED
  BY <1>1, <1>2, <1>3 DEF CjNext

LEMMA KaanStep ==
    ASSUME OpInv, IccInv, KaanInv, KaanNext
    PROVE  OpInv' /\ IccInv' /\ KaanInv' /\ Promises'
<1>1. driver = "kaan" /\ (KaanDriver \/ Terminal)
  BY DEF KaanNext
<1>2. CASE KaanDriver
  BY <1>1, <1>2, KaanDriverStep, KaanDriverPromises
<1>3. CASE Terminal
  BY <1>1, <1>3, KaanTerminalStep
<1> QED
  BY <1>1, <1>2, <1>3

LEMMA HandlerStep ==
    ASSUME "cyberjack" \notin Late, HandlerInv, ~Overdue, Next
    PROVE  HandlerInv'
<1> SUFFICES ASSUME driver' \in Proved
             PROVE  OpInv' /\ IccInv' /\ CcidInv' /\ CjInv' /\ KaanInv' /\ Promises'
  BY DEF HandlerInv
<1>1. driver' = driver /\ OpInv /\ IccInv /\ CcidInv /\ CjInv /\ KaanInv /\ Promises
  BY OneDriver DEF HandlerInv
<1>2. CASE LateArrives \/ Insert \/ Draw \/ HandlerAsks
  <2>1. OpInv' /\ IccInv' /\ Promises'
    BY <1>1, <1>2, CommonOutside, PromisesOutside
  <2>2. CjInv'
    BY <1>1, <1>2, CjOutside DEF CjInv
  <2>3. KaanInv'
    BY <1>1, <1>2, KaanOutside DEF KaanInv
  <2>4. CcidInv'
    BY <1>1, <1>2, CcidOutside DEF CcidInv
  <2> QED
    BY <2>1, <2>2, <2>3, <2>4
<1>3. CASE KaanNext
  <2>1. driver' = "kaan"
    BY <1>1, <1>3 DEF KaanNext
  <2>2. CjInv' /\ CcidInv'
    BY <2>1 DEF CjInv, CcidInv
  <2> QED
    BY <1>1, <1>3, <2>2, KaanStep
<1>4. CASE CjNext
  <2>1. driver' = "cyberjack"
    BY <1>1, <1>4 DEF CjNext
  <2>2. KaanInv' /\ CcidInv'
    BY <2>1 DEF KaanInv, CcidInv
  <2> QED
    BY <1>1, <1>4, <2>2, CjStep
<1>5. CASE CcidNext
  <2>1. driver' = "ccid"
    BY <1>1, <1>5 DEF CcidNext
  <2>2. KaanInv' /\ CjInv'
    BY <2>1 DEF KaanInv, CjInv
  <2> QED
    BY <1>1, <1>5, <2>2, CcidStep
<1>6. ~GemNext
  BY <1>1 DEF GemNext, Proved
<1> QED
  BY <1>2, <1>3, <1>4, <1>5, <1>6 DEF Next, DriverSteps

LEMMA HandlerStutters ==
    ASSUME HandlerInv, UNCHANGED vars
    PROVE  HandlerInv'
<1>1. UNCHANGED <<driver, icc, slot, dd, op, at, cmd, reply, told, ran, link, ask, inbox, late, rdr, faults, work>>
  BY DEF vars, opvars, linkvars
<1>2. OpInv' = OpInv /\ IccInv' = IccInv
  BY <1>1, Zenon DEF OpInv, IccInv, SlotInv, Serves
<1>3. CjInv' = CjInv
  <2>1. CjStates' = CjStates /\ CjKinds' = CjKinds
    BY <1>1, Zenon DEF CjStates, CjKinds
  <2>2. CjCommand' = CjCommand
    BY <1>1, Zenon DEF CjCommand
  <2>3. CjCommands' = CjCommands
    BY <1>1, <2>2, Zenon DEF CjCommands
  <2>4. PinAnswers("63Cx")' = PinAnswers("63Cx")
    BY <1>1, Zenon DEF PinAnswers, PinAnswer, Pin
  <2>5. \A st, data : CjSays(st, data)' = CjSays(st, data)
    BY <1>1, <2>4, Zenon DEF CjSays
  <2>6. CjLine' = CjLine /\ CjReply' = CjReply
    BY <1>1, <2>5, Zenon DEF CjLine, CjReply, OK
  <2>7. CjRan' = CjRan /\ CjResetting' = CjResetting
    BY <1>1, Zenon DEF CjRan, CjResetting, HasObject
  <2> QED
    BY <1>1, <2>1, <2>3, <2>6, <2>7, Zenon DEF CjInv
<1>4. KaanInv' = KaanInv
  <2>1. KaanStates' = KaanStates /\ KaanKinds' = KaanKinds
    BY <1>1, Zenon DEF KaanStates, KaanKinds
  <2>2. KaanName' = KaanName /\ Wanted' = Wanted
    BY <1>1, Zenon DEF KaanName, Wanted
  <2>3. KaanCommands' = KaanCommands
    BY <1>1, <2>2, Zenon DEF KaanCommands
  <2>4. /\ PinAnswers("6402")' = PinAnswers("6402")
        /\ KaanFresh' = KaanFresh
        /\ \A mem : Chunk(mem)' = Chunk(mem)
    BY <1>1, Zenon DEF PinAnswers, PinAnswer, Pin, KaanFresh, Chunk
  <2>5. Chunk(icc.mem)' = Chunk(icc.mem)
    BY <1>1, Zenon DEF Chunk
  <2>6. \A st, data : KaanSays(st, data)' = KaanSays(st, data)
    BY <1>1, <2>2, <2>4, <2>5, SMT DEF KaanSays, IsCase4
  <2>7. KaanReply' = KaanReply
    BY <1>1, <2>6, Zenon DEF KaanReply, OK
  <2>8. KaanRan' = KaanRan /\ KaanResetting' = KaanResetting
    BY <1>1, <2>4, Zenon DEF KaanRan, KaanResetting
  <2>9. KaanWatch' = KaanWatch /\ KaanMemory' = KaanMemory
    BY <1>1, Zenon DEF KaanWatch, KaanMemory
  <2> QED
    BY <1>1, <2>1, <2>3, <2>7, <2>8, <2>9, Zenon DEF KaanInv
<1>5. CcidInv => CcidInv'
  BY CcidStutters
<1>6. Promises' = Promises
  <2>1. \A kind : Told(kind)' = Told(kind)
    BY <1>1, Zenon DEF Told
  <2>2. AnswersOwn' = AnswersOwn /\ RunsOnce' = RunsOnce
    BY <1>1, <2>1, Zenon DEF AnswersOwn, RunsOnce, CutShort, Fragmented, OutOfStep
  <2>3. ProtocolAgreed' = ProtocolAgreed
    BY <1>1, <2>1, Zenon DEF ProtocolAgreed, Agreed, CcidAgrees, ByItself, Renegotiates
  <2>4. ResetTrue' = ResetTrue /\ StatusTrue' = StatusTrue /\ MemoryKept' = MemoryKept
    BY <1>1, <2>1, Zenon DEF ResetTrue, Unready, MistakesSW, StatusTrue, Unwatched, MemoryKept
  <2> QED
    BY <2>2, <2>3, <2>4, Zenon DEF Promises
<1> QED
  BY <1>1, <1>2, <1>3, <1>4, <1>5, <1>6, Zenon DEF HandlerInv

LEMMA HandlerHolds ==
    ASSUME "cyberjack" \notin Late
    PROVE  Spec /\ []~Overdue => []HandlerInv
<1>1. HandlerInv /\ ~Overdue /\ [Next]_vars => HandlerInv'
  BY HandlerStep, HandlerStutters
<1> QED
  BY <1>1, HandlerInit, PTL DEF Spec

\* What a reader that answers in time leaves on the line: nothing, the command, its
\* answer, or the wish for more time and then the answer.
Prompt ==
    driver = "ccid" =>
        /\ late = <<>>
        /\ link \in [seq : 0 .. 255, sent : 0 .. 255 \cup {None}]
        /\ link.sent = None => ask = None /\ inbox = <<>>
        /\ link.sent # None => link.seq = (link.sent + 1) % 256
        /\ ask # None => ask.seq = link.sent /\ inbox = <<>>
        /\ \/ inbox = <<>>
           \/ \E m : m.seq = link.sent /\ m.st # "time" /\ inbox = <<m>>
           \/ \E t, m :
                /\ t.seq = link.sent /\ t.st = "time" /\ m.seq = link.sent /\ m.st # "time"
                /\ inbox = <<t, m>>

LEMMA PromptInit ==
    Init => Prompt
<1> SUFFICES ASSUME Init, driver = "ccid" PROVE Prompt
  BY DEF Prompt
<1>1. late = <<>> /\ ask = None /\ inbox = <<>> /\ link = [seq |-> 0, sent |-> None]
  BY DEF Init, DriverInit, CcidInit
<1> QED
  BY <1>1 DEF Prompt

LEMMA PromptSame ==
    ASSUME Prompt, UNCHANGED <<driver, linkvars>>
    PROVE  Prompt'
BY DEF Prompt, linkvars

LEMMA PromptHost ==
    ASSUME driver = "ccid", driver' = driver, Prompt, CcidHost
    PROVE  Prompt'
<1>1. CASE CcidSends
  <2>1. link.sent = None /\ ask = None /\ inbox = <<>> /\ late = <<>> /\ UNCHANGED <<inbox, late>>
    BY <1>1 DEF CcidSends, Prompt
  <2>2. CASE Len(cmd.data) > MaxMsg
    BY <1>1, <2>1, <2>2 DEF CcidSends, Prompt
  <2>3. CASE ~(Len(cmd.data) > MaxMsg)
    <3>1. ask' = [seq |-> link.seq, body |-> cmd] /\ link' = [seq |-> (link.seq + 1) % 256, sent |-> link.seq]
      BY <1>1, <2>3 DEF CcidSends
    <3>2. link.seq \in 0 .. 255
      BY DEF Prompt
    <3>3. (link.seq + 1) % 256 \in 0 .. 255
      BY <3>2, SMT
    <3>4. /\ link'.sent = link.seq /\ link'.seq = (link'.sent + 1) % 256 /\ ask'.seq = link'.sent
          /\ link' \in [seq : 0 .. 255, sent : 0 .. 255 \cup {None}] /\ link'.sent # None
      BY <3>1, <3>2, <3>3, CcidNumbers
    <3> QED
      BY <2>1, <3>4 DEF Prompt
  <2> QED
    BY <2>2, <2>3
<1>2. CASE CcidTimeout
  <2>1. Silent /\ link' = [link EXCEPT !.sent = None] /\ UNCHANGED <<ask, inbox, late>>
    BY <1>2 DEF CcidTimeout, Gives
  <2> QED
    BY <2>1 DEF Silent, Prompt
<1>3. CASE CcidReceives
  <2>1. ask = None /\ inbox # <<>> /\ inbox' = Tail(inbox) /\ UNCHANGED <<ask, late>>
    BY <1>3 DEF CcidReceives
  <2>2. CASE \E m : m.seq = link.sent /\ m.st # "time" /\ inbox = <<m>>
    <3>1. Mine(Head(inbox)) /\ Head(inbox).st # "time" /\ inbox' = <<>>
      BY <2>1, <2>2 DEF Mine
    <3>2. link' = [link EXCEPT !.sent = None]
      BY <1>3, <3>1 DEF CcidReceives, Gives
    <3> QED
      BY <2>1, <3>1, <3>2 DEF Prompt
  <2>3. ASSUME NEW t, NEW m, t.seq = link.sent, t.st = "time", m.seq = link.sent, m.st # "time", inbox = <<t, m>>
        PROVE  Prompt'
    <3>1. Head(inbox).st = "time" /\ inbox' = <<m>>
      BY <2>1, <2>3
    <3>2. link' = link
      BY <1>3, <3>1 DEF CcidReceives
    <3> QED
      BY <2>1, <2>3, <3>1, <3>2 DEF Prompt
  <2> QED
    BY <2>1, <2>2, <2>3 DEF Prompt
<1>4. CASE CcidUnsent
  <2>1. link' = [link EXCEPT !.seq = (@ + 1) % 256] /\ link.sent = None /\ UNCHANGED <<ask, inbox, late>>
    BY <1>4 DEF CcidUnsent
  <2>2. link.seq \in 0 .. 255
    BY DEF Prompt
  <2>3. (link.seq + 1) % 256 \in 0 .. 255
    BY <2>2, SMT
  <2>4. link' \in [seq : 0 .. 255, sent : 0 .. 255 \cup {None}] /\ link'.sent = None
    BY <2>1, <2>3 DEF Prompt
  <2>5. ask' = None /\ inbox' = <<>> /\ late' = <<>>
    BY <2>1 DEF Prompt
  <2> QED
    BY <2>4, <2>5 DEF Prompt
<1>5. CASE CcidReceivesShort
  <2>1. /\ ask = None /\ inbox # <<>> /\ inbox' = Tail(inbox) /\ UNCHANGED <<ask, late>>
        /\ Head(inbox).st # "time" /\ link' = [link EXCEPT !.sent = None]
    BY <1>5 DEF CcidReceivesShort, Gives
  <2>2. PICK m : inbox = <<m>>
    BY <2>1 DEF Prompt
  <2>3. inbox' = <<>>
    BY <2>1, <2>2
  <2> QED
    BY <2>1, <2>3 DEF Prompt
<1> QED
  BY <1>1, <1>2, <1>3, <1>4, <1>5 DEF CcidHost

LEMMA PromptReader ==
    ASSUME "ccid" \notin Late, driver = "ccid", driver' = driver, Prompt, CcidReader
    PROVE  Prompt'
<1>1. ask # None /\ ask.seq = link.sent /\ inbox = <<>> /\ link' = link
  BY DEF CcidReader, Prompt
<1>2. PICK type, st, data : st # "time" /\ (ReaderGives(type, st, data) \/ ReaderGivesTime(data))
  <2>1. CASE SlotStat
    BY <2>1 DEF SlotStat
  <2>2. CASE PowerOn
    BY <2>2 DEF PowerOn
  <2>3. CASE Params
    BY <2>3 DEF Params
  <2>4. CASE SetParams
    BY <2>4 DEF SetParams
  <2>5. CASE CardTakesPts
    BY <2>5 DEF CardTakesPts
  <2>6. CASE Transfers
    BY <2>6 DEF Transfers
  <2> QED
    BY <2>1, <2>2, <2>3, <2>4, <2>5, <2>6 DEF CcidReader
<1>3. CASE ReaderGives(type, st, data)
  <2>1. PICK a : a = [type |-> type, seq |-> ask.seq, st |-> st, data |-> data] /\ Answers(a, FALSE)
    BY <1>3 DEF ReaderGives
  <2>2. a.seq = link.sent /\ a.st # "time"
    BY <1>1, <1>2, <2>1
  <2>3. ask' = None /\ late' = late /\ inbox' \in {inbox, Append(inbox, a)}
    BY <2>1 DEF Answers
  <2>4. inbox' \in {<<>>, <<a>>}
    BY <1>1, <2>3
  <2> QED
    BY <1>1, <2>2, <2>3, <2>4 DEF Prompt
<1>4. CASE ReaderGivesTime(data)
  <2>1. PICK t, m : /\ t = [type |-> "data", seq |-> ask.seq, st |-> "time", data |-> <<>>]
                    /\ m = [type |-> "data", seq |-> ask.seq, st |-> "ok", data |-> data]
                    /\ inbox' = inbox \o <<t, m>>
    BY <1>4 DEF ReaderGivesTime
  <2>2. t.seq = link.sent /\ t.st = "time" /\ m.seq = link.sent /\ m.st # "time" /\ inbox' = <<t, m>>
    BY <1>1, <2>1
  <2>3. ask' = None /\ late' = late
    BY <1>4 DEF ReaderGivesTime
  <2> QED
    BY <1>1, <2>2, <2>3 DEF Prompt
<1> QED
  BY <1>2, <1>3, <1>4

LEMMA PromptStep ==
    ASSUME "ccid" \notin Late, Prompt, [Next]_vars
    PROVE  Prompt'
<1> SUFFICES ASSUME driver' = "ccid" PROVE Prompt'
  BY DEF Prompt
<1>1. driver' = driver /\ driver = "ccid"
  BY OneDriver DEF vars
<1>2. CASE CcidDriver \/ Insert \/ Draw \/ HandlerAsks \/ UNCHANGED vars
  <2>1. \A o : Starts(o) => UNCHANGED linkvars
    BY DEF Starts
  <2>2. HandlerAsks => UNCHANGED linkvars
    BY <2>1, Zenon DEF HandlerAsks, AskMemory, AskReset, AskSelect, AskTransact, AskVerify, Poll
  <2>3. CcidDriver \/ Insert \/ Draw \/ UNCHANGED vars => UNCHANGED linkvars
    BY DEF CcidDriver, Insert, Draw, vars, linkvars
  <2> QED
    BY <1>1, <1>2, <2>2, <2>3, PromptSame
<1>3. ~LateArrives
  BY <1>1 DEF LateArrives, Prompt
<1>4. Next => CcidDriver \/ CcidHost \/ CcidReader \/ LateArrives \/ Insert \/ Draw \/ HandlerAsks
  BY <1>1 DEF Next, DriverSteps, GemNext, CcidNext, KaanNext, CjNext
<1> QED
  BY <1>1, <1>2, <1>3, <1>4, PromptHost, PromptReader

LEMMA PromptInTime ==
    ASSUME Prompt
    PROVE  ~Overdue
<1> SUFFICES ASSUME driver = "ccid", NEW m \in Coming PROVE m.seq # link.seq
  BY DEF Overdue
<1>1. m \in ToSet(inbox) /\ inbox # <<>>
  BY QueueEmpty DEF Coming, Prompt
<1>2. m.seq = link.sent /\ link.sent # None
  <2>1. \A x : ToSet(<<x>>) = {x}
    BY SMT DEF ToSet
  <2>2. \A x, y : ToSet(<<x, y>>) = {x, y}
    <3>1. SUFFICES ASSUME NEW x, NEW y PROVE ToSet(<<x, y>>) = {x, y}
      OBVIOUS
    <3>2. DOMAIN <<x, y>> = {1, 2} /\ <<x, y>>[1] = x /\ <<x, y>>[2] = y
      BY SMT
    <3> QED
      BY <3>2 DEF ToSet
  <2> QED
    BY <1>1, <2>1, <2>2 DEF Prompt
<1>3. link.sent \in 0 .. 255 /\ link.seq = (link.sent + 1) % 256
  BY <1>2 DEF Prompt
<1>4. \A n \in 0 .. 255 : (n + 1) % 256 # n
  BY SMT
<1> QED
  BY <1>2, <1>3, <1>4

\* An answer can only be overdue if readers answer after the timeout (ccid_command
\* gives up on the line's silence): a reader that answers in time, or not at
\* all, leaves nothing on the line for the next command.
THEOREM NoneOverdue ==
    ASSUME "ccid" \notin Late
    PROVE  Spec => []~Overdue
<1>1. Prompt /\ [Next]_vars => Prompt'
  BY PromptStep
<1>2. Prompt => ~Overdue
  BY PromptInTime
<1> QED
  BY <1>1, <1>2, PromptInit, PTL DEF Spec

\* What a command or a PIN's verification returns is what the card made of that
\* command: ifd_card_command and ifd_card_perform_verify of a CCID, a Kaan or a
\* cyberJack reader, for all shapes of commands and whatever answers are lost; and
\* with ccid_command, however many come late, as long as the eight bits of their
\* number have not come round to the next command's.
THEOREM OwnAnswers ==
    ASSUME "cyberjack" \notin Late
    PROVE  Spec /\ []~Overdue => [](driver \in Proved => AnswersOwn)
<1>1. HandlerInv => (driver \in Proved => AnswersOwn)
  BY DEF HandlerInv, Promises
<1> QED
  BY <1>1, HandlerHolds, PTL

\* The card executes a command of these readers once at most (kaan_apdu_xcv with its
\* GET RESPONSE, cjppa_transceive and ccid_command with what asks for time).
THEOREM RanAtMostOnce ==
    ASSUME "cyberjack" \notin Late
    PROVE  Spec /\ []~Overdue => [](driver \in Proved => RunsOnce)
<1>1. HandlerInv => (driver \in Proved => RunsOnce)
  BY DEF HandlerInv, Promises
<1> QED
  BY <1>1, HandlerHolds, PTL

\* After a reset that chose a protocol, driver, reader and card agree on it and on the
\* speed, whichever of PTS, guard time and parameters the reader's features leave to
\* ccid_set_protocol and whatever the card makes of the PTS; and after a choice of T=1
\* that a CCID driver carries out (kaan_set_protocol; a cyberJack reader leaves the
\* driver nothing to disagree on).
THEOREM AgreedProtocol ==
    ASSUME "cyberjack" \notin Late
    PROVE  Spec /\ []~Overdue => [](driver \in Proved => ProtocolAgreed)
<1>1. HandlerInv => (driver \in Proved => ProtocolAgreed)
  BY DEF HandlerInv, Promises
<1> QED
  BY <1>1, HandlerHolds, PTL

\* A reset that succeeds has the ATR of the card that was there, and without faults
\* a card that stays can be reset, at whichever voltage it needs and the reader has
\* (ccid_card_reset, kaan_card_reset, cyberjack_card_reset).
THEOREM TrueResets ==
    ASSUME "cyberjack" \notin Late
    PROVE  Spec /\ []~Overdue => [](driver \in Proved => ResetTrue)
<1>1. HandlerInv => (driver \in Proved => ResetTrue)
  BY DEF HandlerInv, Promises
<1> QED
  BY <1>1, HandlerHolds, PTL

\* The status of a slot is that of the card when it was asked for, or later
\* (ccid_card_status, kaan_card_status with its frozen terminals,
\* cyberjack_card_status).
THEOREM TrueStatus ==
    ASSUME "cyberjack" \notin Late
    PROVE  Spec /\ []~Overdue => [](driver \in Proved => StatusTrue)
<1>1. HandlerInv => (driver \in Proved => StatusTrue)
  BY DEF HandlerInv, Promises
<1> QED
  BY <1>1, HandlerHolds, PTL

\* What is written to a memory card is on it, and what is read is what it holds, for
\* memories and requests of all lengths (kaan_read_binary, kaan_update_binary).
THEOREM KeptMemory ==
    ASSUME "cyberjack" \notin Late
    PROVE  Spec /\ []~Overdue => [](driver \in Proved => MemoryKept)
<1>1. HandlerInv => (driver \in Proved => MemoryKept)
  BY DEF HandlerInv, Promises
<1> QED
  BY <1>1, HandlerHolds, PTL
=============================================================================
