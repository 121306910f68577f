------------------------------ MODULE CyberJack -----------------------------
(***************************************************************************)
(* The driver of Reiner SCT cyberJack readers                              *)
(* (src/src/ifd/ifd-cyberjack.c).  The terminal takes commands over T=1    *)
(* and talks to the card itself.  The driver has one protocol object,      *)
(* which is its own (spare) until a protocol is selected, then the slot's, *)
(* and comes back when the card is seen to be gone.                        *)
(***************************************************************************)
EXTENDS Driver

CONSTANTS
    MaxTries,     \* 20, or 100: blocks read for one answer
    MaxExtends    \* blocks the terminal sends before its answer

ASSUME CjAssumption == MaxTries \in Nat /\ MaxExtends \in Nat

CjInit ==
    /\ link = [sent |-> FALSE, tries |-> 0]
    /\ dd = [active |-> FALSE, spare |-> FALSE]
    /\ rdr = [waits |-> FALSE, extends |-> 0]

Cj(name, data) == [name |-> name, data |-> data]
CjGood == OK /\ reply.st = "9000"

-----------------------------------------------------------------------------
(* cyberjack_recv: the blocks that only ask for time, or tell of a key,    *)
(* are answered.  After the last try the block goes to T=1, which grants   *)
(* time as well and knows nothing of keys.                                 *)

CjGives(rc, st, data) ==
    /\ cmd' = None
    /\ reply' = [rc |-> rc, st |-> st, data |-> data]
    /\ link' = [sent |-> FALSE, tries |-> 0]
    /\ ask' = None
    /\ rdr' = [waits |-> FALSE, extends |-> 0]

CjSends ==
    /\ cmd # None /\ ~link.sent
    /\ ask' = cmd
    /\ link' = [sent |-> TRUE, tries |-> MaxTries]
    /\ UNCHANGED <<cmd, reply, inbox, rdr, faults>>

Interim(m) == m.type \in {"wtx", "key"}

CjReceives ==
    /\ link.sent /\ inbox # <<>>
    /\ LET m == Head(inbox)
           again == link.tries > 1
       IN  CASE Interim(m) /\ (again \/ m.type = "wtx") ->
                  /\ rdr' = [rdr EXCEPT !.waits = FALSE]
                  /\ link' = [link EXCEPT !.tries = IF again THEN @ - 1 ELSE MaxTries]
                  /\ UNCHANGED <<cmd, reply, ask>>
             [] Interim(m) /\ ~again /\ m.type = "key" -> CjGives(-1, "protocol", <<>>)
             [] OTHER -> CjGives(Len(m.data), m.st, m.data)
    /\ inbox' = Tail(inbox)
    /\ UNCHANGED faults

\* Nothing comes any more, or the time for the PIN is over.
CjTimeout ==
    /\ link.sent
    /\ \/ Silent /\ UNCHANGED faults
       \/ cmd.name = "verify" /\ Fault
    /\ CjGives(-1, "timeout", <<>>)
    /\ inbox' = <<>>

CjHost ==
    /\ CjSends \/ CjReceives \/ CjTimeout
    /\ UNCHANGED <<driver, icc, event, opvars, ran, late, work>>

-----------------------------------------------------------------------------
(* cyberjack_activate, when the handler starts and whenever a client asks  *)
(* for the status: the state and its protocol object are new.              *)

CjActivates ==
    /\ at \in {"open", "status"}
    /\ dd' = [active |-> FALSE, spare |-> FALSE]
    /\ Call("synced", Cj("resync", <<>>))
    /\ Stays /\ UNCHANGED slot

CjSynced ==
    /\ At("synced")
    /\ IF OK THEN Call("ct_reset", Cj("reset_ct", <<>>)) /\ Stays ELSE Fails
    /\ UNCHANGED <<slot, dd>>

CjReset ==
    /\ At("ct_reset")
    /\ IF CjGood THEN Call("synced_again", Cj("resync", <<>>)) /\ Stays ELSE Fails
    /\ UNCHANGED <<slot, dd>>

CjActivated ==
    /\ At("synced_again")
    /\ IF OK
       THEN /\ dd' = [active |-> TRUE, spare |-> TRUE]
            /\ IF op.kind = "open" THEN Returns(TRUE, <<>>) ELSE Goes("poll") /\ Stays
       ELSE Fails /\ UNCHANGED dd
    /\ UNCHANGED slot

-----------------------------------------------------------------------------
(* cyberjack_card_status, cyberjack_card_reset, cyberjack_set_protocol.    *)
(* The last two use the state without asking whether there is one.         *)

HasObject == slot.proto # None \/ dd.spare

CjPolls ==
    /\ at = "poll"
    /\ IF dd.active /\ HasObject THEN Call("polled", Cj("status", <<>>)) /\ Stays ELSE Fails
    /\ UNCHANGED <<slot, dd>>

CjPolled ==
    /\ At("polled")
    /\ CASE ~OK -> Fails /\ UNCHANGED <<slot, dd>>
         [] CjGood /\ reply.data = <<"present">> -> HasStatus("present", FALSE) /\ UNCHANGED dd
         [] OTHER ->
              IF slot.proto = None
              THEN HasStatus("absent", FALSE) /\ UNCHANGED dd
              ELSE /\ dd' = [dd EXCEPT !.spare = TRUE]
                   /\ slot' = [atr |-> None, proto |-> None, status |-> "absent"]
                   /\ Returns(TRUE, <<>>)

CjResets ==
    /\ at = "reset"
    /\ CASE ~dd.active -> Crashes
         [] dd.active /\ HasObject -> Call("card_reset", Cj("request_icc", <<>>)) /\ Stays
         [] OTHER -> Fails
    /\ UNCHANGED <<slot, dd>>

\* The answer is taken for the ATR with the status word it ends in, and if it is
\* only a status word.
StatusWord == [protos |-> <<"T0">>, ta1 |-> FALSE, tc1 |-> FALSE, volt |-> None, size |-> 0]

CjHasReset ==
    /\ At("card_reset")
    /\ IF OK
       THEN HasAtr(IF reply.data = <<>> THEN StatusWord ELSE Head(reply.data))
       ELSE Fails /\ UNCHANGED slot
    /\ UNCHANGED dd

CjSelects ==
    /\ at \in {"set_protocol", "select"}
    /\ CASE ~dd.active -> Crashes /\ UNCHANGED <<slot, dd>>
         [] dd.active /\ dd.spare ->
              /\ slot' = [slot EXCEPT !.proto = "T1"]
              /\ dd' = [dd EXCEPT !.spare = FALSE]
              /\ Returns(TRUE, <<>>)
         [] OTHER -> SelectFails /\ UNCHANGED <<slot, dd>>

-----------------------------------------------------------------------------
(* The card's commands, and cyberjack_perform_verify                       *)

CjTransact ==
    /\ at = "transact"
    /\ IF dd.active THEN Call("answered", Cj("apdu", Bytes(op))) /\ Stays ELSE Crashes
    /\ UNCHANGED <<slot, dd>>

CjTransacted ==
    /\ At("answered")
    /\ IF OK THEN Returns(TRUE, reply.data) ELSE Fails
    /\ UNCHANGED <<slot, dd>>

CjVerifies ==
    /\ at = "verify"
    /\ IF dd.active /\ CanBuildVerify /\ slot.proto # None
       THEN Call("verified", Cj("verify", <<>>)) /\ Stays
       ELSE Fails
    /\ UNCHANGED <<slot, dd>>

CjVerified ==
    /\ At("verified")
    /\ CASE OK /\ reply.st = "6400" -> Returns(FALSE, <<"timeout">>)
         [] OK /\ reply.st = "6401" -> Returns(FALSE, <<"cancel">>)
         [] OK /\ reply.st = "63Cx" -> Returns(FALSE, <<"wrong">>)
         [] OK /\ reply.st \notin {"6400", "6401", "63Cx"} -> Returns(TRUE, <<reply.st>>)
         [] OTHER -> Fails
    /\ UNCHANGED <<slot, dd>>

CjDriver ==
    /\ \/ CjActivates \/ CjSynced \/ CjReset \/ CjActivated \/ CjPolls \/ CjPolled
       \/ CjResets \/ CjHasReset \/ CjSelects \/ CjTransact \/ CjTransacted
       \/ CjVerifies \/ CjVerified
    /\ UNCHANGED <<driver, icc, event, ran, linkvars, faults, work>>

-----------------------------------------------------------------------------
(* What the driver presumes of the terminal                                *)

CjExtends ==
    /\ rdr.extends < MaxExtends
    /\ \E t \in IF ask.name = "verify" THEN {"wtx", "key"} ELSE {"wtx"} :
         inbox' = Append(inbox, [type |-> t])
    /\ rdr' = [waits |-> TRUE, extends |-> rdr.extends + 1]
    /\ UNCHANGED <<icc, event, ran, ask, late, faults>>

CjReplies(st, data) ==
    /\ Answers([type |-> "answer", st |-> st, data |-> data], FALSE)
    /\ UNCHANGED rdr

CjKeeps ==
    /\ ask.name \in {"resync", "reset_ct", "status"}
    /\ CjReplies("9000", IF ask.name = "status" /\ icc # None THEN <<"present">> ELSE <<>>)
    /\ IF ask.name = "reset_ct" /\ icc # None
       THEN icc' = [icc EXCEPT !.on = FALSE] ELSE UNCHANGED icc
    /\ UNCHANGED <<event, ran>>

CjPowersUp ==
    /\ ask.name = "request_icc"
    /\ IF icc = None
       THEN CjReplies("6200", <<>>) /\ UNCHANGED icc
       ELSE /\ icc' = [icc EXCEPT !.on = TRUE, !.proto = Head(icc.card.protos)]
            /\ CjReplies("9001", <<icc.card>>)
    /\ UNCHANGED <<event, ran>>

CjRuns ==
    /\ ask.name = "apdu"
    /\ IF icc # None /\ icc.on
       THEN Executes(ask.data) /\ CjReplies("9000", AnswerTo(op))
       ELSE CjReplies("6400", Refusal(op)) /\ UNCHANGED ran
    /\ UNCHANGED <<icc, event>>

CjVerifiesPin ==
    /\ ask.name = "verify"
    /\ \E answer \in PinAnswers("63Cx") :
         /\ answer.run => icc # None /\ icc.on
         /\ IF answer.run THEN Executes(answer.pin) ELSE UNCHANGED ran
         /\ CjReplies(answer.st, <<>>)
    /\ UNCHANGED <<icc, event>>

CjTerminal ==
    /\ ask # None /\ ~rdr.waits
    /\ CjExtends \/ CjKeeps \/ CjPowersUp \/ CjRuns \/ CjVerifiesPin
    /\ UNCHANGED <<driver, opvars, cmd, reply, link, work>>

CjNext == driver = "cyberjack" /\ (CjHost \/ CjDriver \/ CjTerminal)
=============================================================================
