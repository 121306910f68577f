--------------------------------- MODULE Ccid -------------------------------
(***************************************************************************)
(* The driver of CCID readers (src/src/ifd/ifd-ccid.c): the numbered       *)
(* commands and their answers, a card's power, the selection of a protocol *)
(* as the reader's features demand it, and the exchanges.  One slot, whose *)
(* status is asked for; CardStatus has the interrupt pipe.                 *)
(***************************************************************************)
EXTENDS Driver

CONSTANTS
    CcidReaders,  \* [features, protos, volts]: the readers' class descriptors
    MaxMsg        \* bytes of a command that fit into a message

\* The commands, and the voltages, parameters, PTS and bytes they are sent with.
CommandNames == {"slotstat", "poweron", "getparams", "setparams", "pts", "xfrblock"}
CommandData ==
    {"auto", "5V", "3V", "1.8V", "T0", "T1", "default", "ta1"}
    \cup [proto : {"T0", "T1"}, ta1 : BOOLEAN] \cup (Nat \X Nat)

ASSUME CcidAssumption ==
    /\ CcidReaders \subseteq [features : SUBSET STRING, protos : SUBSET {"T0", "T1"},
                              volts : SUBSET {"5V", "3V", "1.8V"}]
    /\ MaxMsg \in Nat \ {0}
    /\ None \notin 0 .. 255
    /\ None \notin {"5V", "3V", "1.8V"}
    /\ None \notin [seq : 0 .. 255, body : [name : CommandNames, data : Seq(CommandData)]]

CcidInit ==
    /\ \E r \in CcidReaders :
         /\ rdr = [features |-> r.features, protos |-> r.protos, volts |-> r.volts,
                   proto |-> "T0", speed |-> "default"]
    /\ link = [seq |-> 0, sent |-> None]
    /\ dd = [type |-> None, flags |-> {}, protos |-> {}, volts |-> {}, seen |-> "unknown",
             proto |-> None, par |-> None, ta1 |-> FALSE, sbuf |-> None]

-----------------------------------------------------------------------------
(* ccid_command: an answer counts if it has the number of the command.     *)

CcidSends ==
    /\ cmd # None /\ link.sent = None
    /\ IF Len(cmd.data) > MaxMsg
       THEN /\ cmd' = None
            /\ reply' = [rc |-> -1, st |-> "unsupported", data |-> <<>>]
            /\ UNCHANGED <<link, ask>>
       ELSE /\ ask' = [seq |-> link.seq, body |-> cmd]
            /\ link' = [seq |-> (link.seq + 1) % 256, sent |-> link.seq]
            /\ UNCHANGED <<cmd, reply>>
    /\ UNCHANGED <<inbox, late, rdr, faults>>

\* ifd_device_send fails: the number is used up.
CcidUnsent ==
    /\ cmd # None /\ link.sent = None
    /\ Len(cmd.data) <= MaxMsg
    /\ Fault
    /\ cmd' = None
    /\ reply' = [rc |-> -1, st |-> "unsent", data |-> <<>>]
    /\ link' = [link EXCEPT !.seq = (@ + 1) % 256]
    /\ UNCHANGED <<ask, inbox, late, rdr>>

Gives(rc, st, data) ==
    /\ cmd' = None
    /\ reply' = [rc |-> rc, st |-> st, data |-> data]
    /\ link' = [link EXCEPT !.sent = None]

\* The answers the simple commands expect; a transfer takes any.
Expected(name) ==
    CASE name \in {"slotstat"} -> {"slotstat"}
      [] name \in {"getparams", "setparams"} -> {"params"}
      [] name \in {"poweron"} -> {"data"}
      [] OTHER -> {"data", "slotstat", "params"}

\* A mutant takes the next answer, whatever its number.
Mine_Any(m) == TRUE
Mine(m) == m.seq = link.sent

CcidReceives ==
    /\ link.sent # None /\ ask = None /\ inbox # <<>>
    /\ LET m == Head(inbox)
       IN  CASE ~Mine(m) \/ m.st = "time" -> UNCHANGED <<cmd, reply, link>>
             [] Mine(m) /\ m.st = "ok" ->
                  IF m.type \in Expected(cmd.name)
                  THEN Gives(Len(m.data), "ok", m.data)
                  ELSE Gives(-1, "type", <<>>)
             [] OTHER -> Gives(-1, m.st, <<>>)
    /\ inbox' = Tail(inbox)
    /\ UNCHANGED <<ask, late, rdr, faults>>

\* An empty or short answer, of whatever number, or one whose data do not fit, ends the
\* command.  (That one that asks for time is short is left out.)
CcidReceivesShort ==
    /\ link.sent # None /\ ask = None /\ inbox # <<>> /\ Head(inbox).st # "time"
    /\ Fault
    /\ Gives(-1, "short", <<>>)
    /\ inbox' = Tail(inbox)
    /\ UNCHANGED <<ask, late, rdr>>

CcidTimeout ==
    /\ link.sent # None /\ Silent
    /\ Gives(-1, "timeout", <<>>)
    /\ UNCHANGED <<ask, inbox, late, rdr, faults>>

CcidHost ==
    /\ CcidSends \/ CcidUnsent \/ CcidReceives \/ CcidReceivesShort \/ CcidTimeout
    /\ UNCHANGED <<driver, icc, event, opvars, ran, work>>

-----------------------------------------------------------------------------
(* ccid_open_usb: a reader that leaves too much to the host is refused.    *)

FlagsOf(f) ==
    (IF "atrparse" \in f THEN {"auto_atrparse"} ELSE {})
    \cup (IF "activate" \in f THEN {"auto_activate"} ELSE {})
    \cup (IF "params" \in f THEN {"no_pts", "no_setparam"} ELSE {})
    \cup (IF "pps" \in f THEN {"no_pts"} ELSE {})
TypeOf(f) == CASE "tpdu" \in f -> "tpdu" [] "tpdu" \notin f /\ "apdu" \in f -> "apdu" [] OTHER -> "char"

CcidOpens ==
    /\ at = "open"
    /\ LET f == rdr.features
           volts == rdr.volts \cup (IF "voltage" \in f THEN {"auto"} ELSE {})
       IN  IF rdr.protos # {} /\ {"clock", "rate"} \subseteq f /\ volts # {}
           THEN /\ dd' = [dd EXCEPT !.type = TypeOf(f), !.flags = FlagsOf(f),
                                    !.protos = rdr.protos, !.volts = volts]
                /\ Returns(TRUE, <<>>)
           ELSE Fails /\ UNCHANGED dd
    /\ UNCHANGED slot

-----------------------------------------------------------------------------
(* ccid_card_status without interrupt pipe, and ccid_card_reset            *)

Ccid(name, data) == [name |-> name, data |-> data]

CcidPoll ==
    /\ at \in {"poll", "reset"}
    /\ Call(Asked[at], Ccid("slotstat", <<>>))
    /\ UNCHANGED <<op, told, slot, dd>>

Probed == IF OK THEN Head(reply.data) ELSE "absent"
ProbeFailed == ~OK /\ reply.st # "mute"

CcidPolled ==
    /\ at \in {"poll-status", "reset-status"} /\ At(at)
    /\ IF ProbeFailed
       THEN Fails /\ UNCHANGED <<slot, dd>>
       ELSE /\ dd' = [dd EXCEPT !.seen = Probed]
            /\ IF at = "poll-status"
               THEN HasStatus(Probed, Probed # dd.seen)
               ELSE /\ UNCHANGED slot
                    /\ CASE Probed = "absent" -> Fails
                         [] Probed = "present" /\ ({"auto"} \cap dd.volts # {} \/ "auto_activate" \in dd.flags) ->
                              Call("poweron-auto", Ccid("poweron", <<"auto">>)) /\ Stays
                         [] OTHER -> Goes("poweron-manual") /\ Stays

\* The voltages the reader has, in turn.  A mutant tries one.
Volts == <<"5V", "3V", "1.8V">>
Left_First(v) == IF v = None THEN {1} ELSE {}
Left(v) == {i \in DOMAIN Volts : Volts[i] \in dd.volts /\ (v # None => \E j \in 1 .. i - 1 : Volts[j] = v)}
NextVolt(v) == Volts[CHOOSE i \in Left(v) : \A j \in Left(v) : i <= j]
Tries(volt) == Call(volt, Ccid("poweron", <<volt>>))

CcidPowered ==
    /\ at = "poweron-auto" /\ At(at)
    /\ CASE OK -> HasAtr(Head(reply.data))
         [] ~OK /\ "auto" \in dd.volts -> Fails /\ UNCHANGED slot
         [] OTHER -> Goes("poweron-manual") /\ Stays /\ UNCHANGED slot
    /\ UNCHANGED dd

CcidTriesVolts ==
    /\ at = "poweron-manual"
    /\ IF Left(None) = {} THEN Fails ELSE Tries(NextVolt(None)) /\ Stays
    /\ UNCHANGED <<slot, dd>>

CcidTriedVolt ==
    /\ at \in ToSet(Volts) /\ At(at)
    /\ CASE OK -> HasAtr(Head(reply.data))
         [] ~OK /\ Left(at) # {} -> Tries(NextVolt(at)) /\ Stays /\ UNCHANGED slot
         [] OTHER -> Fails /\ UNCHANGED slot
    /\ UNCHANGED dd

-----------------------------------------------------------------------------
(* ccid_set_protocol                                                       *)

Selected(p) ==
    /\ slot' = [slot EXCEPT !.proto =
                  IF dd.type = "apdu" \/ (dd.type = "tpdu" /\ p = "T0") THEN "transparent" ELSE p]
    /\ dd' = [dd EXCEPT !.proto = p]
    /\ Returns(TRUE, <<>>)

CcidSelects ==
    /\ at \in {"set_protocol", "select"}
    /\ CASE Wanted \notin dd.protos -> SelectFails /\ UNCHANGED <<slot, dd>>
         [] Wanted \in dd.protos /\ dd.type = "apdu" -> Selected(Wanted)
         [] Wanted \in dd.protos /\ dd.type # "apdu" /\ slot.atr = None -> Fails /\ UNCHANGED <<slot, dd>>
         [] OTHER ->
              /\ dd' = [dd EXCEPT !.ta1 = slot.atr.ta1]
              /\ IF "no_setparam" \in dd.flags
                 THEN Goes("pts") ELSE Call("getparams", Ccid("getparams", <<>>))
              /\ UNCHANGED <<op, told, slot>>

\* The guard time goes before the PTS.
CcidGotParams ==
    /\ At("getparams")
    /\ IF OK
       THEN /\ dd' = [dd EXCEPT !.par = Head(reply.data)]
            /\ IF dd.flags \cap {"no_pts", "auto_atrparse"} = {} /\ slot.atr.tc1
               THEN Call("guard", Ccid("setparams", <<Wanted, Head(reply.data)>>))
               ELSE Goes("pts")
            /\ Stays
       ELSE SelectFails /\ UNCHANGED dd
    /\ UNCHANGED slot

CcidGuarded ==
    /\ At("guard")
    /\ IF OK THEN Goes("pts") /\ Stays ELSE SelectFails
    /\ UNCHANGED <<slot, dd>>

\* ifd_build_pts; without a PTS the parameters are next.  A mutant leaves it to the card.
NeedsPts_ForSpeed == "no_pts" \notin dd.flags /\ dd.ta1
NeedsPts == "no_pts" \notin dd.flags /\ (Wanted = "T1" \/ dd.ta1)

CcidPts ==
    /\ at = "pts"
    /\ CASE NeedsPts /\ Wanted \notin ToSet(slot.atr.protos) -> SelectFails
         [] NeedsPts /\ Wanted \in ToSet(slot.atr.protos) ->
              Call("pts-sent", Ccid("pts", <<[proto |-> Wanted, ta1 |-> dd.ta1]>>)) /\ Stays
         [] OTHER -> Goes("setparams") /\ Stays
    /\ UNCHANGED <<slot, dd>>

\* ifd_verify_pts: the card's answer may leave out the speed.
CcidPtsDone ==
    /\ At("pts-sent")
    /\ IF OK
       THEN /\ dd' = [dd EXCEPT !.ta1 = @ /\ Head(reply.data).ta1]
            /\ Goes("setparams")
            /\ Stays
       ELSE SelectFails /\ UNCHANGED dd
    /\ UNCHANGED slot

NeedsParams ==
    "no_setparam" \notin dd.flags /\ ("auto_atrparse" \notin dd.flags \/ Wanted # "T0")

CcidSetsParams ==
    /\ at = "setparams"
    /\ IF NeedsParams
       THEN /\ Call("params-set", Ccid("setparams",
                    <<Wanted, IF "auto_atrparse" \notin dd.flags /\ dd.ta1 THEN "ta1" ELSE dd.par>>))
            /\ UNCHANGED <<op, told, slot, dd>>
       ELSE Selected(Wanted)

\* The array of the parameters is cleared then, from r on; nothing uses it any more.
CcidParamsSet ==
    /\ At("params-set")
    /\ IF OK THEN Selected(Wanted) ELSE SelectFails /\ UNCHANGED <<slot, dd>>

-----------------------------------------------------------------------------
(* ccid_transparent, ccid_send and ccid_recv                               *)

CcidTransact ==
    /\ at = "transact"
    /\ IF slot.proto = "transparent"
       THEN Call("xfr", Ccid("xfrblock", Bytes(op))) /\ UNCHANGED dd
       ELSE Goes("recv") /\ dd' = [dd EXCEPT !.sbuf = Bytes(op)]
    /\ UNCHANGED <<op, told, slot>>

CcidRecv ==
    /\ at = "recv"
    /\ Call("xfr", Ccid("xfrblock", dd.sbuf))
    /\ dd' = [dd EXCEPT !.sbuf = None]
    /\ UNCHANGED <<op, told, slot>>

CcidTransacted ==
    /\ At("xfr")
    /\ IF OK THEN Returns(TRUE, reply.data) ELSE Fails
    /\ UNCHANGED <<slot, dd>>

CcidDriver ==
    /\ \/ CcidOpens \/ CcidPoll \/ CcidPolled \/ CcidPowered \/ CcidTriesVolts \/ CcidTriedVolt
       \/ CcidSelects \/ CcidGotParams \/ CcidGuarded \/ CcidPts \/ CcidPtsDone
       \/ CcidSetsParams \/ CcidParamsSet \/ CcidTransact \/ CcidRecv \/ CcidTransacted
    /\ UNCHANGED <<driver, icc, event, ran, linkvars, faults, work>>

-----------------------------------------------------------------------------
(* The reader: what the driver presumes of it                              *)

ReaderGives(type, st, data) ==
    LET a == [type |-> type, seq |-> ask.seq, st |-> st, data |-> data]
    IN  Answers(a, FALSE)

\* A transfer may take a card longer than the reader waits without a word.
ReaderGivesTime(data) ==
    /\ ask' = None
    /\ inbox' = inbox \o <<[type |-> "data", seq |-> ask.seq, st |-> "time", data |-> <<>>],
                           [type |-> "data", seq |-> ask.seq, st |-> "ok", data |-> data]>>
    /\ UNCHANGED <<late, faults>>

SlotStat ==
    /\ ask.body.name = "slotstat"
    /\ ReaderGives("slotstat", "ok", <<IF icc = None THEN "absent" ELSE "present">>)
    /\ UNCHANGED <<rdr, icc, ran>>

ByItself == rdr.features \cap {"atrparse", "params", "apdu"} # {}

\* A card whose voltage is another is mute.
PowerOn ==
    /\ ask.body.name = "poweron"
    /\ UNCHANGED ran
    /\ IF icc # None /\ (Head(ask.body.data) = icc.card.volt \/ "voltage" \in rdr.features)
       THEN /\ icc' = [icc EXCEPT !.on = TRUE, !.proto = Head(icc.card.protos), !.fresh = TRUE, !.speed = "default"]
            /\ rdr' = [rdr EXCEPT !.proto = IF ByItself THEN Head(icc.card.protos) ELSE "T0", !.speed = "default"]
            /\ ReaderGives("data", "ok", <<icc.card>>)
       ELSE /\ ReaderGives("slotstat", "mute", <<>>)
            /\ UNCHANGED <<rdr, icc>>

Params ==
    /\ ask.body.name = "getparams"
    /\ ReaderGives("params", "ok", <<rdr.speed>>)
    /\ UNCHANGED <<rdr, icc, ran>>

\* A reader with the feature pps negotiates when it is given parameters.
SetParams ==
    /\ ask.body.name = "setparams"
    /\ LET p == ask.body.data[1]
           s == ask.body.data[2]
       IN  IF "pps" \in rdr.features
           THEN IF icc # None /\ icc.on /\ (icc.fresh \/ (p = icc.proto /\ s = icc.speed)) /\ p \in ToSet(icc.card.protos)
                THEN /\ icc' = [icc EXCEPT !.proto = p, !.speed = s, !.fresh = FALSE]
                     /\ rdr' = [rdr EXCEPT !.proto = p, !.speed = s]
                     /\ ReaderGives("params", "ok", <<s>>)
                ELSE /\ ReaderGives("params", "protocol", <<>>)
                     /\ UNCHANGED <<rdr, icc>>
           ELSE /\ rdr' = [rdr EXCEPT !.proto = p, !.speed = s]
                /\ ReaderGives("params", "ok", <<s>>)
                /\ UNCHANGED icc
    /\ UNCHANGED ran

\* A card takes a PTS before anything else; a card may refuse the speed.
CardTakesPts ==
    /\ ask.body.name = "pts"
    /\ UNCHANGED <<rdr, ran>>
    /\ LET pts == Head(ask.body.data)
       IN  IF icc # None /\ icc.on /\ icc.fresh /\ pts.proto \in ToSet(icc.card.protos)
           THEN \E agrees \in {pts.ta1, FALSE} :
                  /\ icc' = [icc EXCEPT !.proto = pts.proto, !.fresh = FALSE,
                                        !.speed = IF agrees THEN "ta1" ELSE "default"]
                  /\ ReaderGives("data", "ok", <<[pts EXCEPT !.ta1 = agrees]>>)
           ELSE /\ ReaderGives("slotstat", "mute", <<>>)
                /\ UNCHANGED icc

\* Driver, reader and card speak one protocol at one speed.
CcidAgrees ==
    /\ dd.type = "apdu" \/ dd.proto = rdr.proto
    /\ rdr.proto = icc.proto
    /\ ByItself \/ rdr.speed = icc.speed

Transfers ==
    /\ ask.body.name = "xfrblock"
    /\ UNCHANGED rdr
    /\ IF icc # None /\ icc.on /\ CcidAgrees
       THEN /\ Executes(ask.body.data)
            /\ icc' = [icc EXCEPT !.fresh = FALSE]
            /\ ReaderGives("data", "ok", AnswerTo(op)) \/ ReaderGivesTime(AnswerTo(op))
       ELSE ReaderGives("slotstat", "parity", <<>>) /\ UNCHANGED <<icc, ran>>

\* An application's choice that the driver carries out: not T=0 after T=1, and not if the
\* reader leaves no choice.
Renegotiates == told.op.proto = "T1" /\ "params" \notin rdr.features /\ dd.type # "apdu"

CcidReader ==
    /\ ask # None
    /\ SlotStat \/ PowerOn \/ Params \/ SetParams \/ CardTakesPts \/ Transfers
    /\ UNCHANGED <<driver, event, opvars, cmd, reply, link, work>>

CcidNext == driver = "ccid" /\ (CcidDriver \/ CcidHost \/ CcidReader)
=============================================================================
