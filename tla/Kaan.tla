--------------------------------- MODULE Kaan -------------------------------
(***************************************************************************)
(* The driver of Kobil Kaan and Telesec B1 terminals                       *)
(* (src/src/ifd/ifd-kaan.c) on a serial line.  The terminal takes commands *)
(* over T=1, and talks to the card itself; an exchange is one command and  *)
(* one answer, or fails when it has or has not been carried out            *)
(* (T1Protocol).  A terminal that has nothing to do is frozen, and then    *)
(* tells by a wire that its card has changed.                              *)
(***************************************************************************)
EXTENDS Driver

CONSTANT FileMax  \* 256: bytes of one READ or UPDATE BINARY

ASSUME KaanAssumption == FileMax \in Nat \ {0}

KaanInit ==
    /\ rdr \in [frozen : {FALSE}, known : {FALSE}, old : BOOLEAN, keypad : BOOLEAN]
    /\ link = [timeout |-> "default"]
    /\ \E b \in BOOLEAN :
         dd = [b1 |-> b, frozen |-> FALSE, proto |-> None, then |-> None, total |-> 0, res |-> <<>>]

Ct(name) == [name |-> name, data |-> <<>>, wait |-> FALSE, addr |-> 0]
CtData(name, data) == [Ct(name) EXCEPT !.data = data]
CtFile(name, addr, data) == [Ct(name) EXCEPT !.data = data, !.addr = addr]

SW(sw) == OK /\ reply.st = sw
Good == SW("9000")

\* __kaan_apdu_xcv notes the terminal's activity; kaan_transparent does not.
Awake(d) == [d EXCEPT !.frozen = FALSE]
IfAnswered(d) == IF OK THEN Awake(d) ELSE d

-----------------------------------------------------------------------------
(* kaan_open and b1_open                                                   *)

\* A B1 terminal has to lower DSR, and then to raise it within 5 s.
KaanOpens ==
    /\ at = "open"
    /\ \/ dd.b1 /\ Fails
       \/ /\ Call(IF dd.b1 THEN "reset_ct" ELSE "resync", Ct(IF dd.b1 THEN "reset_ct" ELSE "resync"))
          /\ Stays
    /\ UNCHANGED <<slot, dd>>

\* kaan_reset_ct: older terminals have another command.
KaanResets ==
    /\ at \in {"resync", "reset_ct", "reset_ct_old"} /\ At(at)
    /\ CASE at = "resync" /\ OK -> Call("reset_ct", Ct("reset_ct")) /\ Stays
         [] at = "reset_ct" /\ SW("6b00") -> Call("reset_ct_old", Ct("reset_ct_old")) /\ Stays
         [] at # "resync" /\ Good -> Call("units", Ct("units")) /\ Stays
         [] OTHER -> Fails
    /\ UNCHANGED <<slot, dd>>

KaanUnits ==
    /\ At("units")
    /\ IF OK THEN Returns(TRUE, <<>>) ELSE Fails
    /\ UNCHANGED <<slot, dd>>

-----------------------------------------------------------------------------
(* kaan_get_tlv_from_file: three files are selected and the last is read,  *)
(* for a status or a protocol.  They are short: kaan_read_binary's further *)
(* exchanges, until there are no more data, change nothing, and fail as    *)
(* the first one does.                                                     *)

AfterFile == [select_mf |-> "select_df", select_df |-> "select_ef", select_ef |-> "read_ef"]

KaanSelectsFile ==
    /\ at \in DOMAIN AfterFile /\ At(at)
    /\ IF Good
       THEN Call(AfterFile[at], Ct(IF at = "select_ef" THEN dd.then ELSE "select_file")) /\ Stays
       ELSE Fails
    /\ UNCHANGED <<slot, dd>>

-----------------------------------------------------------------------------
(* kaan_card_status, b1_card_status, kaan_freeze                           *)

\* FREEZE_DELAY seconds without activity.
KaanFreezes ==
    /\ at = "poll" /\ ~dd.frozen
    /\ Call("frozen", CtData("freeze", <<slot.status # "absent">>))
    /\ Stays /\ UNCHANGED <<slot, dd>>

KaanFrozen ==
    /\ At("frozen")
    /\ IF Good
       THEN dd' = [dd EXCEPT !.frozen = TRUE] /\ Goes("poll") /\ Stays
       ELSE Fails /\ UNCHANGED dd
    /\ UNCHANGED slot

\* ifd_serial_get_dsr.  A mutant looks for a card only.
Dsr_Inserted == rdr.frozen /\ icc # None /\ ~rdr.known
Dsr == rdr.frozen /\ (event \/ (icc # None) # rdr.known)

\* A frozen terminal that shows nothing has the card it had.
KaanQuiet ==
    /\ at = "poll" /\ dd.frozen /\ ~Dsr
    /\ Returns(TRUE, <<>>)
    /\ UNCHANGED <<slot, dd>>

KaanPolls ==
    /\ at = "poll" /\ (dd.frozen => Dsr)
    /\ IF dd.b1
       THEN /\ Call("select_mf", Ct("select_file"))
            /\ dd' = [Awake(dd) EXCEPT !.then = "read_status"]
       ELSE /\ Call("status", Ct("read_status"))
            /\ dd' = Awake(dd)
    /\ Stays /\ UNCHANGED slot

KaanPolled ==
    /\ At("status") \/ (At("read_ef") /\ dd.then = "read_status")
    /\ IF Good
       THEN HasStatus(Head(reply.data), FALSE)
       ELSE Fails /\ UNCHANGED slot
    /\ UNCHANGED dd

-----------------------------------------------------------------------------
(* kaan_do_reset, kaan_sync_detect                                         *)

KaanResetsCard ==
    /\ at = "reset"
    /\ Call("card_reset", [Ct("reset_icc") EXCEPT !.wait = op.wait])
    /\ dd' = [dd EXCEPT !.proto = None]
    /\ Stays /\ UNCHANGED slot

\* 9000 stands for 62a6 too.  What else a terminal may say of a memory card is left out:
\* 62a5, of a phone card in a B1, and 62a7, which has the handler look for its
\* protocol (Session).
KaanHasReset ==
    /\ At("card_reset")
    /\ CASE SW("9001") -> HasAtr(Head(reply.data)) /\ dd' = Awake(dd)
         [] SW("9000") -> /\ Call("select_mf", Ct("select_file"))
                          /\ dd' = [Awake(dd) EXCEPT !.then = "read_proto", !.res = reply.data]
                          /\ Stays /\ UNCHANGED slot
         [] OTHER -> Fails /\ dd' = IfAnswered(dd) /\ UNCHANGED slot

KaanSyncCard ==
    /\ At("read_ef") /\ dd.then = "read_proto"
    /\ IF Good
       THEN /\ slot' = [slot EXCEPT !.atr = Head(dd.res), !.proto = Head(reply.data)]
            /\ dd' = [dd EXCEPT !.proto = Head(reply.data), !.res = <<>>]
            /\ IF dd.b1
               THEN Call("select_app", Ct("select_file")) /\ Stays
               ELSE Returns(TRUE, <<>>)
       ELSE Fails /\ dd' = [dd EXCEPT !.res = <<>>] /\ UNCHANGED slot

\* The application of a health card, if it is one.
KaanSelectsApp ==
    /\ At("select_app")
    /\ Returns(TRUE, <<>>)
    /\ UNCHANGED <<slot, dd>>

-----------------------------------------------------------------------------
(* kaan_set_protocol                                                       *)

KaanSelects ==
    /\ at \in {"set_protocol", "select"}
    /\ Call("protocol_set", CtData("set_proto", <<Wanted>>))
    /\ Stays /\ UNCHANGED <<slot, dd>>

\* 6985 counts as success, for health cards in B1 terminals.
KaanSelected ==
    /\ At("protocol_set")
    /\ IF Good \/ SW("6985")
       THEN /\ slot' = [slot EXCEPT !.proto = "transparent"]
            /\ dd' = [Awake(dd) EXCEPT !.proto = Wanted]
            /\ Returns(TRUE, <<>>)
       ELSE /\ SelectFails
            /\ dd' = IfAnswered(dd)
            /\ UNCHANGED slot

-----------------------------------------------------------------------------
(* kaan_transparent, kaan_read_binary, kaan_update_binary.  The memory     *)
(* functions first make the slot's protocol the terminal's, if it is not:  *)
(* it is, whenever the slot has a memory card's protocol, but while the    *)
(* handler looks for one.                                                  *)

KaanTransact ==
    /\ at = "transact"
    /\ IF slot.proto = "transparent"
       THEN Call("apdu", CtData("apdu", Bytes(op))) /\ Stays
       ELSE Fails
    /\ UNCHANGED <<slot, dd>>

\* A card that speaks T=0 keeps the answer of a case 4 command until it is asked.
IsCase4 == op.lc > 0 /\ op.le > 0
Asks == SW("61xx") /\ at = "apdu" /\ IsCase4

KaanTransacted ==
    /\ at \in {"apdu", "get_response"} /\ At(at)
    /\ CASE Asks -> Call("get_response", Ct("get_response")) /\ Stays
         [] ~Asks /\ OK -> Returns(TRUE, reply.data)
         [] OTHER -> Fails
    /\ UNCHANGED <<slot, dd>>

Least(a, b) == IF a < b THEN a ELSE b

\* The count of a chunk is that of the whole, also in the chunks that follow.  A mutant
\* reads the same chunk again.
NextByte_Same == 0
NextByte == dd.total

KaanReads ==
    /\ at = "read"
    /\ Call("reading", CtFile("read", NextByte, <<Least(op.len, FileMax)>>))
    /\ Stays /\ UNCHANGED <<slot, dd>>

\* An answer without data ends the file.  A mutant goes on until it has it all.
More_UntilLen(n) == dd.total + n < op.len
More(n) == n > 0 /\ dd.total + n < op.len

KaanHasRead ==
    /\ At("reading")
    /\ LET n == Len(reply.data)
           done(d) == [d EXCEPT !.total = 0, !.res = <<>>]
       IN  CASE Good /\ More(n) ->
                  /\ dd' = [dd EXCEPT !.total = @ + n, !.res = @ \o reply.data]
                  /\ Goes("read") /\ Stays
             [] (Good /\ ~More(n)) \/ SW("6282") \/ SW("6b00") ->
                  /\ dd' = done(dd)
                  /\ Returns(TRUE, dd.res \o reply.data)
             [] OTHER -> dd' = done(dd) /\ Fails
    /\ UNCHANGED slot

\* kaan_check_sw returns the length of the answer's data, which is 0, and the loop ends
\* after the first chunk.
KaanWrites ==
    /\ at = "write"
    /\ Call("written", CtFile("update", 0, [i \in 1 .. Least(op.len, FileMax) |-> op.id]))
    /\ Stays /\ UNCHANGED <<slot, dd>>

KaanHasWritten ==
    /\ At("written")
    /\ IF Good THEN Returns(TRUE, <<>>) ELSE Fails
    /\ UNCHANGED <<slot, dd>>

(* kaan_perform_verify: a terminal without a key pad has nothing to do.    *)

KaanVerifies ==
    /\ at = "verify"
    /\ CASE ~rdr.keypad -> Returns(TRUE, <<>>)
         [] rdr.keypad /\ ~CanBuildVerify -> Fails
         [] OTHER -> Call("verified", Ct("verify")) /\ Stays
    /\ UNCHANGED <<slot, dd>>

KaanVerified ==
    /\ At("verified")
    /\ CASE SW("6400") -> Returns(FALSE, <<"timeout">>) /\ dd' = Awake(dd)
         [] SW("6401") -> Returns(FALSE, <<"cancel">>) /\ dd' = Awake(dd)
         [] SW("6402") -> Returns(FALSE, <<"wrong">>) /\ dd' = Awake(dd)
         [] OK /\ reply.st \notin {"6400", "6401", "6402"} -> Returns(TRUE, <<reply.st>>) /\ dd' = Awake(dd)
         [] OTHER -> Fails /\ UNCHANGED dd
    /\ UNCHANGED slot

KaanDriver ==
    /\ \/ KaanOpens \/ KaanResets \/ KaanUnits \/ KaanSelectsFile
       \/ KaanFreezes \/ KaanFrozen \/ KaanQuiet \/ KaanPolls \/ KaanPolled
       \/ KaanResetsCard \/ KaanHasReset \/ KaanSyncCard \/ KaanSelectsApp
       \/ KaanSelects \/ KaanSelected \/ KaanTransact \/ KaanTransacted
       \/ KaanVerifies \/ KaanVerified
       \/ KaanReads \/ KaanHasRead \/ KaanWrites \/ KaanHasWritten
    /\ UNCHANGED <<driver, icc, event, ran, linkvars, faults, work>>

-----------------------------------------------------------------------------
(* The exchange, and what the driver presumes of the terminal              *)

\* The timeout of a request is taken back only if the exchange succeeds.
Overrides(ok) ==
    link' = [timeout |-> IF ~ok /\ cmd.wait THEN "long" ELSE link.timeout]

\* An answer, or the exchange fails after all.
TerminalAnswers(st, data) ==
    /\ cmd' = None
    /\ \/ /\ reply' = [rc |-> Len(data), st |-> st, data |-> data]
          /\ Overrides(TRUE)
          /\ UNCHANGED faults
       \/ /\ Fault
          /\ reply' = [rc |-> -1, st |-> None, data |-> <<>>]
          /\ Overrides(FALSE)

Wakes == rdr' = [rdr EXCEPT !.frozen = FALSE]

NeverCame ==
    /\ Fault
    /\ cmd' = None
    /\ reply' = [rc |-> -1, st |-> None, data |-> <<>>]
    /\ Overrides(FALSE)
    /\ UNCHANGED <<rdr, icc, event, ran>>

Keeping ==
    /\ cmd.name \in {"resync", "reset_ct", "reset_ct_old", "units", "select_file", "read_status"}
    /\ CASE cmd.name = "reset_ct" /\ rdr.old -> TerminalAnswers("6b00", <<>>)
         [] cmd.name = "read_status" ->
              TerminalAnswers("9000", <<IF icc = None THEN "absent" ELSE "present">>)
         [] OTHER -> TerminalAnswers("9000", <<>>)
    /\ IF cmd.name \in {"select_file"} THEN UNCHANGED rdr ELSE Wakes
    /\ UNCHANGED <<icc, event, ran>>

Freezes ==
    /\ cmd.name = "freeze"
    /\ rdr' = [rdr EXCEPT !.frozen = TRUE, !.known = Head(cmd.data)]
    /\ event' = FALSE
    /\ TerminalAnswers("9000", <<>>)
    /\ UNCHANGED <<icc, ran>>

IsSync(c) == Head(c.protos) = "I2C"

ResetsIcc ==
    /\ cmd.name = "reset_icc"
    /\ Wakes
    /\ IF icc = None
       THEN TerminalAnswers("6200", <<>>) /\ UNCHANGED icc
       ELSE /\ icc' = [icc EXCEPT !.on = TRUE, !.proto = Head(icc.card.protos), !.fresh = TRUE]
            /\ TerminalAnswers(IF IsSync(icc.card) THEN "9000" ELSE "9001", <<icc.card>>)
    /\ UNCHANGED <<event, ran>>

TellsProto ==
    /\ cmd.name = "read_proto"
    /\ IF icc # None /\ IsSync(icc.card)
       THEN TerminalAnswers("9000", <<"I2C">>)
       ELSE TerminalAnswers("6a82", <<>>)
    /\ UNCHANGED <<rdr, icc, event, ran>>

SetsProto ==
    /\ cmd.name = "set_proto"
    /\ Wakes
    /\ IF icc # None /\ icc.on /\ Head(cmd.data) \in ToSet(icc.card.protos)
          /\ (icc.fresh \/ icc.proto = Head(cmd.data))
       THEN /\ icc' = [icc EXCEPT !.proto = Head(cmd.data), !.fresh = FALSE]
            /\ TerminalAnswers("9000", <<>>)
       ELSE /\ \E st \in {"6985", "6a80"} : TerminalAnswers(st, <<>>)
            /\ UNCHANGED icc
    /\ UNCHANGED <<event, ran>>

Runs ==
    /\ cmd.name = "apdu"
    /\ IF icc # None /\ icc.on /\ icc.proto = dd.proto
       THEN /\ Executes(cmd.data)
            /\ icc' = [icc EXCEPT !.fresh = FALSE]
            /\ IF icc.proto = "T0" /\ IsCase4
               THEN TerminalAnswers("61xx", <<<<op.id, 0>>>>)
               ELSE TerminalAnswers("9000", AnswerTo(op))
       ELSE TerminalAnswers("6400", Refusal(op)) /\ UNCHANGED <<icc, ran>>
    /\ UNCHANGED <<rdr, event>>

GivesResponse ==
    /\ cmd.name = "get_response"
    /\ TerminalAnswers("9000", IF icc # None /\ icc.on THEN AnswerTo(op) ELSE Refusal(op))
    /\ UNCHANGED <<rdr, icc, event, ran>>

\* What a memory card holds is the mark of who wrote it.  Nobody says how its end is
\* told.
Reads ==
    /\ cmd.name = "read"
    /\ LET last == Least(Len(icc.mem), cmd.addr + Head(cmd.data))
       IN  IF icc # None /\ icc.on
           THEN \E st \in IF cmd.addr < Len(icc.mem) THEN {"9000"} ELSE {"9000", "6282", "6b00"} :
                  TerminalAnswers(st, SubSeq(icc.mem, cmd.addr + 1, last))
           ELSE TerminalAnswers("6400", <<>>)
    /\ UNCHANGED <<rdr, icc, event, ran>>

Updates ==
    /\ cmd.name = "update"
    /\ IF icc # None /\ icc.on
       THEN /\ icc' = [icc EXCEPT !.mem = [i \in DOMAIN @ |->
                         IF i \in cmd.addr + 1 .. cmd.addr + Len(cmd.data)
                         THEN cmd.data[i - cmd.addr] ELSE @[i]]]
            /\ TerminalAnswers("9000", <<>>)
       ELSE TerminalAnswers("6400", <<>>) /\ UNCHANGED icc
    /\ UNCHANGED <<rdr, event, ran>>

VerifiesPin ==
    /\ cmd.name = "verify"
    /\ Wakes
    /\ \E answer \in PinAnswers("6402") :
         /\ answer.run => icc # None /\ icc.on
         /\ IF answer.run THEN Executes(answer.pin) ELSE UNCHANGED ran
         /\ TerminalAnswers(answer.st, <<>>)
    /\ UNCHANGED <<icc, event>>

Terminal ==
    /\ cmd # None
    /\ \/ NeverCame \/ Keeping \/ Freezes \/ ResetsIcc \/ TellsProto \/ SetsProto
       \/ Runs \/ GivesResponse \/ Reads \/ Updates \/ VerifiesPin
    /\ UNCHANGED <<driver, opvars, ask, inbox, late, work>>

KaanNext == driver = "kaan" /\ (KaanDriver \/ Terminal)
=============================================================================
