-------------------------------- MODULE GemPc -------------------------------
(***************************************************************************)
(* The driver of GemPC readers on a serial line (src/src/ifd/ifd-gempc.c)  *)
(* above GBP.  The reader speaks the card's protocol itself; the driver    *)
(* hands it whole APDUs, in fragments when they are long.                  *)
(***************************************************************************)
EXTENDS Gbp

CONSTANTS
    InputMax,     \* 248: bytes of an APDU in one ISO INPUT
    ExchangeMax,  \* 254: in one ISO EXCHANGE APDU
    BlockMax      \* bytes of an answer in one block

gbpstate == <<link, ask, inbox, late, rdr>>
Keeps == UNCHANGED <<driver, icc, event, ran, link, ask, late, rdr, faults, work>>

Gem(name) == [name |-> name, data |-> <<>>]
GemData(name, data) == [name |-> name, data |-> data]

GemInit ==
    /\ GbpInit
    /\ dd = [speed |-> "slow", proto |-> None, powered |-> FALSE, res |-> <<>>]

\* gpc_command: what it makes of the status.
GemOK == OK /\ reply.st \in {"ok", "refused"}

-----------------------------------------------------------------------------
(* gpc_open: the reader is told to speed the line up, and may be as fast   *)
(* already.                                                                *)

GemOpens ==
    /\ at = "open"
    /\ Call("serial", Gem("serial"))
    /\ UNCHANGED <<op, told, slot, dd, inbox>>

GemFaster ==
    /\ At("serial")
    /\ dd' = [dd EXCEPT !.speed = "fast"]
    /\ inbox' = <<>>
    /\ Call("mode", Gem("mode"))
    /\ UNCHANGED <<op, told, slot>>

\* A reader that does not answer is given up, and the handler ends.
GemMode ==
    /\ At("mode")
    /\ UNCHANGED <<slot, dd, inbox>>
    /\ IF GemOK \/ (OK /\ reply.st = "unknown")
       THEN Call("version", Gem("version")) /\ Stays
       ELSE Fails

GemVersion ==
    /\ At("version")
    /\ Returns(TRUE, <<>>)
    /\ UNCHANGED <<slot, dd, inbox>>

-----------------------------------------------------------------------------
(* gpc_card_status and gpc_card_reset                                      *)

GemPoll ==
    /\ at \in {"poll", "reset"}
    /\ Call(Asked[at], Gem("status"))
    /\ UNCHANGED <<op, told, slot, dd, inbox>>

\* A card that has lost its power is taken for a new one.
StatusIn(s) == IF s.in THEN "present" ELSE "absent"
LostPower(s) == dd.powered /\ ~s.on

GemPolled ==
    /\ At("poll-status")
    /\ IF GemOK
       THEN /\ HasStatus(StatusIn(reply.data[1]), LostPower(reply.data[1]))
            /\ dd' = [dd EXCEPT !.powered = reply.data[1].on]
       ELSE Fails /\ UNCHANGED <<slot, dd>>
    /\ UNCHANGED inbox

GemResets ==
    /\ At("reset-status")
    /\ IF GemOK
       THEN /\ dd' = [dd EXCEPT !.powered = reply.data[1].on]
            /\ IF reply.data[1].in
               THEN Call("reset_auto_pps", Gem("reset")) /\ Stays
               ELSE Fails
       ELSE Fails /\ UNCHANGED dd
    /\ UNCHANGED <<slot, inbox>>

\* The ways to reset a card, in the order they are tried.
NextReset ==
    [reset_auto_pps |-> "reset_no_pps", reset_no_pps |-> "reset_emv", reset_emv |-> "set_mode",
     set_mode |-> "reset_emv_again", reset_emv_again |-> "none"]

GemHasReset ==
    /\ at \in DOMAIN NextReset /\ At(at)
    /\ CASE at # "set_mode" /\ ~OK -> Fails /\ UNCHANGED slot
         [] at # "set_mode" /\ OK /\ reply.st = "ok" -> HasAtr(Head(reply.data))
         [] OTHER ->
              /\ IF NextReset[at] = "none"
                 THEN Fails
                 ELSE Call(NextReset[at], Gem(IF NextReset[at] = "set_mode" THEN "mode" ELSE "reset")) /\ Stays
              /\ UNCHANGED slot
    /\ UNCHANGED <<dd, inbox>>

\* gpc_set_protocol, called by ifd_protocol_select with the protocol the ATR names
\* first, or by an application.
GemSetProtocol ==
    /\ at \in {"set_protocol", "select"}
    /\ slot' = [slot EXCEPT !.proto = "transparent"]
    /\ dd' = [dd EXCEPT !.proto = Wanted]
    /\ Returns(TRUE, <<>>)
    /\ UNCHANGED inbox

-----------------------------------------------------------------------------
(* gpc_transceive                                                          *)

Iso ==
    CASE dd.proto = "T0" /\ op.le = 0 -> "input"
      [] dd.proto = "T0" /\ op.lc = 0 /\ op.le > 0 -> "output"
      [] OTHER -> "exchange"
IsoMax == IF Iso = "input" THEN InputMax ELSE ExchangeMax

\* A long command: part of its data goes first.  The part should be its end.
GemTransact ==
    /\ at = "transact"
    /\ LET c == Bytes(op)
           chunk == Len(c) - IsoMax
       IN  IF Iso # "output" /\ chunk > 0
           THEN Call("frag", GemData("frag", SubSeq(c, chunk + 1, 2 * chunk)))
           ELSE Call(Iso, GemData(Iso, c))
    /\ dd' = [dd EXCEPT !.res = <<>>]
    /\ UNCHANGED <<op, told, slot, inbox>>

GemHead ==
    /\ At("frag")
    /\ IF GemOK
       THEN Call(Iso, GemData(Iso, SubSeq(Bytes(op), 1, IsoMax))) /\ Stays
       ELSE Fails
    /\ UNCHANGED <<slot, dd, inbox>>

GemInput ==
    /\ At("input")
    /\ IF GemOK THEN Returns(TRUE, reply.data) ELSE Fails
    /\ UNCHANGED <<slot, dd, inbox>>

\* How many bytes gpc_iso_output and gpc_iso_exchange_apdu wait for: by the fifth
\* byte, which is Lc when there are data.
Expect ==
    CASE op.lc = 0 /\ op.le = 0 -> 0
      [] op.lc > 0 -> op.lc + 1
      [] OTHER -> op.le + 1

\* gpc_iso_recv_frag: the answer is complete.  A card that refuses says so by a status
\* that ends the loop, so that to end it for two bytes where 258 are
\* expected makes no difference.
Whole(res) == reply.rc = 0 \/ reply.st = "refused" \/ Len(res) >= Expect

GemFragment ==
    /\ at \in {"output", "exchange"} /\ At(at)
    /\ LET res == dd.res \o reply.data
       IN  CASE ~OK \/ reply.st \notin {"ok", "more", "refused"} -> Fails /\ UNCHANGED dd
             [] OK /\ reply.st \in {"ok", "more", "refused"} /\ Whole(res) ->
                  Returns(TRUE, res) /\ dd' = [dd EXCEPT !.res = <<>>]
             [] OTHER -> Call(at, Gem("more")) /\ dd' = [dd EXCEPT !.res = res] /\ Stays
    /\ UNCHANGED <<slot, inbox>>

GemDriver ==
    /\ \/ GemOpens \/ GemFaster \/ GemMode \/ GemVersion
       \/ GemPoll \/ GemPolled \/ GemResets \/ GemHasReset \/ GemSetProtocol
       \/ GemTransact \/ GemHead \/ GemInput \/ GemFragment
    /\ Keeps

-----------------------------------------------------------------------------
(* The reader: what the driver presumes of it                              *)

Replies(r, st, data) ==
    LET answer == IBlock(rdr.rs, [st |-> st, data |-> data])
    IN  /\ rdr' = [r EXCEPT !.rs = 1 - @, !.last = answer]
        /\ Answers(answer, TRUE)

Housekeeping ==
    /\ ask.body.name \in {"serial", "mode", "version"}
    /\ Replies(IF ask.body.name = "serial" THEN [rdr EXCEPT !.speed = "fast"] ELSE [rdr EXCEPT !.held = <<>>], "ok", <<>>)
    /\ UNCHANGED <<icc, ran>>

TellsStatus ==
    /\ ask.body.name = "status"
    /\ Replies([rdr EXCEPT !.held = <<>>], "ok", <<[in |-> icc # None, on |-> icc # None /\ icc.on]>>)
    /\ UNCHANGED <<icc, ran>>

\* Cards that are reset answer; some not to every way of resetting them.
ResetsCard ==
    /\ ask.body.name = "reset"
    /\ UNCHANGED ran
    /\ \/ /\ icc = None
          /\ Replies(rdr, "error", <<>>)
          /\ UNCHANGED icc
       \/ /\ icc # None
          /\ icc' = [icc EXCEPT !.on = TRUE, !.proto = Head(icc.card.protos)]
          /\ Replies([rdr EXCEPT !.held = <<>>, !.left = <<>>], "ok", <<icc.card>>)
       \/ /\ icc # None /\ Fault
          /\ icc' = [icc EXCEPT !.on = FALSE, !.proto = None]
          /\ ask' = None
          /\ LET a == IBlock(rdr.rs, [st |-> "error", data |-> <<>>])
             IN  rdr' = [rdr EXCEPT !.rs = 1 - @, !.last = a] /\ inbox' = Append(inbox, a)
          /\ UNCHANGED late

HoldsFragment ==
    /\ ask.body.name = "frag"
    /\ Replies([rdr EXCEPT !.held = ask.body.data], "ok", <<>>)
    /\ UNCHANGED <<icc, ran>>

\* It gives the card the command and answers as much as goes into a block.
AnswersPart(r, data, refused) ==
    LET n == IF Len(data) > BlockMax THEN BlockMax ELSE Len(data)
        left == SubSeq(data, n + 1, Len(data))
    IN  Replies([r EXCEPT !.held = <<>>, !.left = left],
                CASE left # <<>> -> "more" [] left = <<>> /\ refused -> "refused" [] OTHER -> "ok",
                SubSeq(data, 1, n))

Exchanges ==
    /\ ask.body.name \in {"input", "output", "exchange"}
    /\ UNCHANGED icc
    /\ IF icc # None /\ icc.on /\ (ask.body.name # "exchange" => icc.proto = "T0")
       THEN /\ Executes(IF ask.body.name = "output" THEN ask.body.data ELSE ask.body.data \o rdr.held)
            /\ \E refuses \in BOOLEAN :
                 AnswersPart(rdr, IF refuses THEN Refusal(op) ELSE AnswerTo(op), refuses)
       ELSE Replies(rdr, "error", <<>>) /\ UNCHANGED ran

\* Nobody says what it answers when nothing is left.
TellsMore ==
    /\ ask.body.name = "more"
    /\ UNCHANGED <<icc, ran>>
    /\ IF rdr.left # <<>>
       THEN AnswersPart(rdr, rdr.left, FALSE)
       ELSE \E st \in {"ok", "error"} : Replies(rdr, st, <<>>)

ReaderExecutes ==
    /\ ask # None /\ ask.type = "I" /\ ask.seq = rdr.rs
    /\ Housekeeping \/ TellsStatus \/ ResetsCard \/ HoldsFragment \/ Exchanges \/ TellsMore

GemReader ==
    /\ IF rdr.speed = dd.speed
       THEN ReaderExecutes \/ ReaderRepeats \/ ReaderStartsOver \/ ReaderMissed
       ELSE ReaderDeaf
    /\ UNCHANGED <<driver, event, opvars, cmd, reply, link, work>>

GemNext == driver = "gempc" /\ (GemDriver \/ GbpHost \/ GemReader)
=============================================================================
