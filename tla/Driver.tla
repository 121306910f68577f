------------------------------- MODULE Driver -------------------------------
(***************************************************************************)
(* What the drivers of src/src/ifd/ifd-*.c have in common: the handler     *)
(* calls one operation of the driver at a time (src/src/ifd/reader.c,      *)
(* protocol.c); the driver sends the reader commands and goes on with each *)
(* answer.  A driver's module adds the operations, the link to the reader, *)
(* and as much of the reader as they presume.                              *)
(***************************************************************************)
EXTENDS Integers, Sequences, SequencesExt, TLC

CONSTANTS
    None,
    Drivers,      \* the drivers a handler may be started with
    Cards,        \* [protos, ta1, tc1, volt, size]: the protocols the ATR names,
                  \* whether it has TA1 and TC1; the card's voltage; its memory
    Shapes,       \* [lc, le]: lengths of the applications' commands and answers
    Lengths,      \* of what they read from and write to memory cards
    MaxFaults,    \* answers that are lost, late or garbled, and refusals
    Late,         \* the drivers whose readers may answer late
    MaxWork       \* things the user and the applications do

\* The operations of a driver; all but the first know the card that was in the reader
\* when they began.
Operations ==
    LET seen == Cards \cup {None}
    IN  [kind : {"open"}]
        \cup [kind : {"reset"}, wait : BOOLEAN, card : seen]
        \cup [kind : {"select"}, proto : {"T0", "T1"}, card : seen]
        \cup [kind : {"transact"}, id : Nat, lc : Nat, le : Nat, card : seen]
        \cup [kind : {"poll", "status"}, card : seen]
        \cup [kind : {"read", "write"}, id : Nat, len : Nat, card : seen]
        \cup [kind : {"verify"}, id : Nat, full : BOOLEAN, card : seen]

\* An ATR names a protocol; a card with memory to read and write has the I2C bus.
ASSUME DriverAssumption ==
    /\ \A c \in Cards :
         /\ c \in [protos : Seq({"T0", "T1", "I2C"}), ta1 : BOOLEAN, tc1 : BOOLEAN,
                   volt : {"5V", "3V", "1.8V"}, size : Nat]
         /\ c.protos # <<>>
         /\ IF c.size > 0 THEN c.protos = <<"I2C">> ELSE "I2C" \notin ToSet(c.protos)
    /\ Shapes \subseteq [lc : Nat, le : Nat]
    /\ Lengths \subseteq Nat
    /\ None \notin Cards \cup Operations \cup {"T0", "T1", "I2C", "transparent"}
    /\ None \notin [op : Operations, ok : BOOLEAN, data : {<<>>}, in : BOOLEAN]

VARIABLES
    driver,       \* the driver this handler serves
    icc,          \* card in the reader: None or [card, on, proto, fresh,
                  \* speed, mem]
    event,        \* the reader has a card's removal to report
    slot,         \* [atr, proto, status]: slot->atr, slot->proto, the last status
    dd,           \* reader->driver_data
    op,           \* operation of the handler under way, or None
    at,           \* where the driver is in it, or "idle"
    cmd,          \* command for the reader that the link is to exchange
    reply,        \* what the exchange returned: [rc, st, data], or None
    told,         \* what the last operation returned: [op, ok, data], and
                  \* whether a card was in the reader then
    ran,          \* commands the card has executed since it began
    link,         \* state of the link
    ask,          \* what the reader is sent and has not read
    inbox,        \* what it has answered and the driver has not read
    late,         \* answers that come after their timeout
    rdr,          \* the reader's own state
    faults,
    work

linkvars == <<link, ask, inbox, late, rdr>>
opvars == <<slot, dd, op, at, told>>
vars == <<driver, icc, event, slot, dd, op, at, cmd, reply, told, ran, link,
          ask, inbox, late, rdr, faults, work>>

\* A command: its header and its data.  The answer: its data and the status word,
\* or a status word that refuses.
Units(id, n) == [i \in 1 .. n |-> <<id, i>>]
Bytes(c) == <<<<c.id, 0>>>> \o Units(c.id, c.lc)
AnswerTo(c) == Units(c.id, c.le) \o <<<<c.id, 0>>>>
Refusal(c) == <<<<c.id, -1>>>>

\* The card executes a command; more than MaxRan are as bad as MaxRan.
MaxRan == 2
Executes(c) == ran' = IF Len(ran) < MaxRan THEN Append(ran, c) ELSE ran

Fault == faults < MaxFaults /\ faults' = faults + 1
Works == work < MaxWork /\ work' = work + 1

DriverInit ==
    /\ icc = None
    /\ event = FALSE
    /\ slot = [atr |-> None, proto |-> None, status |-> "absent"]
    /\ op = [kind |-> "open"]
    /\ at = "open"
    /\ cmd = None
    /\ reply = None
    /\ told = None
    /\ ran = <<>>
    /\ ask = None
    /\ inbox = <<>>
    /\ late = <<>>
    /\ faults = 0
    /\ work = 0

-----------------------------------------------------------------------------
(* The user                                                                *)

\* The drivers that know memory cards, those that wait for a card, that verify PINs
\* and that have something to activate.
MemoryReaders == {"kaan"}
Requesters == {"kaan"}
KeyPads == {"kaan", "cyberjack"}
Activated == {"cyberjack"}

Insert ==
    /\ op = None
    /\ icc = None
    /\ Works
    /\ \E c \in Cards :
         /\ c.size > 0 => driver \in MemoryReaders
         /\ icc' = [card |-> c, on |-> FALSE, proto |-> None,
                               fresh |-> FALSE, speed |-> "default",
                               mem |-> [i \in 1 .. c.size |-> 0]]
    /\ UNCHANGED <<driver, event, opvars, cmd, reply, ran, linkvars, faults>>

Draw ==
    /\ icc # None
    /\ Works
    /\ icc' = None
    /\ event' = TRUE
    /\ UNCHANGED <<driver, opvars, cmd, reply, ran, linkvars, faults>>

-----------------------------------------------------------------------------
(* The handler                                                             *)

\* A driver that cannot open the reader ends the handler.
Lives == told # None => told.ok \/ told.op.kind # "open"

Here == IF icc = None THEN None ELSE icc.card

Starts(o) ==
    /\ Lives
    /\ op = None
    /\ op' = o
    /\ at' = o.kind
    /\ ran' = <<>>
    /\ UNCHANGED <<driver, icc, event, dd, told, linkvars, cmd, reply, faults>>

\* ifd_card_request: the old ATR and protocol are dropped first.
AskReset ==
    /\ Works
    /\ slot' = [slot EXCEPT !.atr = None, !.proto = None]
    /\ \E w \in BOOLEAN :
         /\ w => driver \in Requesters
         /\ Starts([kind |-> "reset", wait |-> w, card |-> Here])

\* ifd_set_protocol
AskSelect ==
    /\ Works
    /\ \E p \in {"T0", "T1"} : Starts([kind |-> "select", proto |-> p, card |-> Here])
    /\ UNCHANGED slot

\* ifd_card_command
AskTransact ==
    /\ slot.proto # None
    /\ Works
    /\ \E s \in Shapes :
         Starts([kind |-> "transact", id |-> work, lc |-> s.lc, le |-> s.le, card |-> Here])
    /\ UNCHANGED slot

\* ifd_poll; do_status activates the reader before it looks.
Poll ==
    /\ Works
    /\ \E k \in {"poll", "status"} :
         /\ k = "status" => driver \in Activated
         /\ Starts([kind |-> k, card |-> Here])
    /\ UNCHANGED slot

\* ifd_card_read_memory, ifd_card_write_memory
AskMemory ==
    /\ slot.proto = "I2C"
    /\ Works
    /\ \E k \in {"read", "write"}, n \in Lengths :
         Starts([kind |-> k, id |-> work, len |-> n, card |-> Here])
    /\ UNCHANGED slot

\* ifd_card_perform_verify
AskVerify ==
    /\ driver \in KeyPads
    /\ Works
    /\ \E full \in BOOLEAN :
         Starts([kind |-> "verify", id |-> work, full |-> full, card |-> Here])
    /\ UNCHANGED slot

\* ctbcs_build_verify_apdu: without a prompt or a PIN's template there is no command.
CanBuildVerify == op.full

HandlerAsks == AskMemory \/ AskReset \/ AskSelect \/ AskTransact \/ AskVerify \/ Poll

-----------------------------------------------------------------------------
(* The driver's steps                                                      *)

\* It sends the reader a command, to go on at label.
Call(label, c) ==
    /\ at' = label
    /\ cmd' = c
    /\ reply' = None

Returns(ok, data) ==
    /\ op' = None
    /\ at' = "idle"
    /\ told' = [op |-> op, ok |-> ok, data |-> data, in |-> icc # None]
    /\ cmd' = None
    /\ reply' = None

Fails == Returns(FALSE, <<>>)

\* The driver uses a state it does not have, and that ends the handler.
Crashes ==
    /\ at' = "crashed"
    /\ UNCHANGED <<op, told, cmd, reply>>

\* Where it waits for the status it needs.
Asked == [poll |-> "poll-status", reset |-> "reset-status"]

Goes(label) == at' = label /\ UNCHANGED <<cmd, reply>>
Stays == UNCHANGED <<op, told>>

\* ifd_card_status forgets the ATR if the card has changed.
HasStatus(s, changed) ==
    /\ slot' = [slot EXCEPT !.status = s, !.atr = IF changed THEN None ELSE @]
    /\ Returns(TRUE, <<>>)

\* The driver has reset the card: ifd_protocol_select calls its set_protocol with the
\* protocol the ATR names first.  If that fails the reset has succeeded all the same.
HasAtr(c) ==
    /\ slot' = [slot EXCEPT !.atr = c]
    /\ Goes("set_protocol")
    /\ Stays

Wanted == IF op.kind = "select" THEN op.proto ELSE Head(slot.atr.protos)
SelectFails == Returns(op.kind = "reset", <<>>)

\* The driver is at label, and what it last sent has been exchanged.
At(label) == at = label /\ cmd = None /\ reply # None

OK == reply.rc >= 0

\* What comes of a PIN asked for at the key pad: the card gets it, or not.
Pin(outcome) == <<<<op.id, outcome>>>>
PinAnswer(st, outcome) == [st |-> st, run |-> outcome \in {"right", "wrong"}, pin |-> Pin(outcome)]
PinAnswers(mismatch) ==
    {PinAnswer("9000", "right"), PinAnswer(mismatch, "wrong"),
     PinAnswer("6401", "cancel"), PinAnswer("6400", "timeout")}

-----------------------------------------------------------------------------
(* The line to the reader                                                  *)

\* The answer comes, or it is lost, late or garbled.
Answers(a, serial) ==
    /\ ask' = None
    /\ \/ inbox' = Append(inbox, a) /\ UNCHANGED <<late, faults>>
       \/ Fault /\ UNCHANGED <<inbox, late>>
       \/ serial /\ Fault /\ inbox' = Append(inbox, [type |-> "garbled"]) /\ UNCHANGED late
       \/ driver \in Late /\ Fault /\ late' = Append(late, a) /\ UNCHANGED inbox

LateArrives ==
    /\ late # <<>>
    /\ inbox' = Append(inbox, Head(late))
    /\ late' = Tail(late)
    /\ UNCHANGED <<driver, icc, event, opvars, cmd, reply, ran, link, ask, rdr, faults, work>>

Silent == ask = None /\ inbox = <<>>
=============================================================================
