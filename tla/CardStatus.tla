------------------------------ MODULE CardStatus ------------------------------
(***************************************************************************)
(* How a card that is put into a CCID reader becomes known: the reader's   *)
(* notification on its interrupt pipe, the driver's card_status and event  *)
(* (src/ifd/ifd-ccid.c, src/ifd/sys-linux.c), the sequence numbers that    *)
(* the handler publishes in the status file (src/ifd/reader.c), and the    *)
(* client that looks at them (src/ct/client.c).                            *)
(*                                                                         *)
(* The handler is one thread.  While it waits inside a capture the card    *)
(* and the reader move on, so the steps of a capture are actions of their  *)
(* own.  A card is named by the number of its insertion; the code keeps    *)
(* only whether there is one, so nothing below compares two cards.         *)
(***************************************************************************)
EXTENDS Integers, FiniteSets

CONSTANTS
  NSlots,         \* slots of the reader
  Pipes,          \* does the reader have an interrupt pipe (a set: either may be)
  EventModes,     \* does the loop wait for events (not with -p, force_poll)
  Clients,        \* applications that ask for the status of a card
  SeqLimit,       \* card_seq is unsigned: 2^32
  MaxInsertions,  \* bound on the cards put in
  MaxFailures     \* bound on the captures and probes that fail

ASSUME CardAssumption ==
  /\ NSlots \in Nat \ {0} /\ SeqLimit \in Nat \ {0}
  /\ Pipes \subseteq BOOLEAN /\ EventModes \subseteq BOOLEAN
  /\ MaxInsertions \in Nat /\ MaxFailures \in Nat

Slots == 0 .. (NSlots - 1)
Cards == 0 .. (MaxInsertions + 1)     \* 0: no card, 1: there from the start
Unknown == -1                         \* icc_present is 0xFF
Failed  == -2                         \* card_status returned an error

VARIABLES
  card,        \* what is in each slot
  inserted,    \* the cards named so far
  dirty,       \* slots whose change the reader has not told of yet
  interrupt,   \* the reader has an interrupt pipe
  events,      \* st->events_active
  urb,         \* "none", "submitted" or "completed"
  notice,      \* the last notification an URB has brought
  icc,         \* icc_present: Unknown, or the card last read of
  phase,       \* of card_status: "idle", "capture", "cancel", "probe", "done"
  caller,      \* "poll" or "command"
  target,      \* the slot it is called for
  any, stat,   \* its variables: a notification was read; what it said
  polling,     \* ifd_poll is called: in every round, or before the first event
  turn,        \* the slot ifd_poll looks at next
  listening,   \* event_cap is there
  ctCard,      \* ct_card of the status file
  seq,         \* card_seq
  told,        \* h->card of every client
  failures,
  \* History: the card ct_card stands for, the one a client was told of, a
  \* notification was dropped, a command took the notification of a change.
  published, learnt, missed, taken

deviceVars  == <<card, inserted, dirty, interrupt, events>>
driverVars  == <<icc, phase, caller, target, any, stat, failures>>
pipeVars    == <<urb, notice, listening, missed>>
loopVars    == <<polling, turn>>
publicVars  == <<ctCard, seq, published>>
clientVars  == <<told, learnt>>
vars == <<deviceVars, driverVars, pipeVars, loopVars, publicVars, clientVars, taken>>

Nothing == [card |-> 0, changed |-> FALSE]
Nowhere == [s \in Slots |-> FALSE]
NoCards == [s \in Slots |-> 0]

Init == /\ card \in {c \in [Slots -> {0, 1}] :
                       Cardinality({s \in Slots : c[s] = 1}) <= 1}
        /\ inserted = 1 /\ dirty = Nowhere
        /\ interrupt \in Pipes
        /\ events \in {e \in EventModes : e => interrupt}
        /\ urb = "none" /\ notice = [s \in Slots |-> Nothing]
        /\ listening = FALSE /\ missed = FALSE
        /\ icc = [s \in Slots |-> Unknown]
        /\ phase = "idle" /\ caller = "poll" /\ target = 0
        /\ any = FALSE /\ stat = Nothing /\ failures = 0
        /\ polling = TRUE /\ turn = 0
        /\ ctCard = NoCards /\ seq = 1 /\ published = NoCards
        /\ told = [c \in Clients |-> NoCards] /\ learnt = told
        /\ taken = Nowhere

-------------------------------------------------------------------------------
(* The reader and its user (external) *)

Insert(s) ==
  /\ card[s] = 0 /\ inserted <= MaxInsertions
  /\ inserted' = inserted + 1
  /\ card' = [card EXCEPT ![s] = inserted']
  /\ dirty' = [dirty EXCEPT ![s] = TRUE]
  /\ UNCHANGED <<interrupt, events, driverVars, pipeVars, loopVars, publicVars,
                 clientVars, taken>>

Remove(s) ==
  /\ card[s] # 0
  /\ card' = [card EXCEPT ![s] = 0]
  /\ dirty' = [dirty EXCEPT ![s] = TRUE]
  /\ UNCHANGED <<inserted, interrupt, events, driverVars, pipeVars, loopVars,
                 publicVars, clientVars, taken>>

\* A notification has, for every slot, whether there is a card and whether that
\* has changed since the notification before.
Notify ==
  /\ interrupt /\ urb = "submitted"
  /\ \E s \in Slots : dirty[s]
  /\ urb' = "completed"
  /\ notice' = [s \in Slots |-> [card |-> card[s], changed |-> dirty[s]]]
  /\ dirty' = Nowhere
  /\ UNCHANGED <<card, inserted, interrupt, events, driverVars, listening, missed,
                 loopVars, publicVars, clientVars, taken>>

Arrived == urb = "completed"

-------------------------------------------------------------------------------
(* The sequence numbers of the status file *)

\* A plausible bug: only the coming of a card gives it a number, not its swap.
SlotStatusUpdate_PresenceOnly(T, status) ==
  LET Fresh == {s \in T : status[s].card # 0 /\ ctCard[s] = 0}
  IN  /\ ctCard' = [s \in Slots |-> IF s \in T /\ status[s].card = 0 THEN 0
                                    ELSE IF s \in Fresh THEN seq % SeqLimit
                                    ELSE ctCard[s]]
      /\ seq' = (seq + Cardinality(Fresh)) % SeqLimit
      /\ published' = [s \in Slots |-> IF s \in T THEN status[s].card
                                       ELSE published[s]]
      /\ taken' = taken

\* New numbers for the slots of T, in their order, after what card_status or the
\* event said of them.
SlotStatusUpdate(T, status) ==
  LET present(s) == status[s].card # 0
      Fresh == {s \in T : present(s) /\ (ctCard[s] = 0 \/ status[s].changed)}
      Seq(s) == (seq + Cardinality({t \in Fresh : t < s})) % SeqLimit
  IN  /\ ctCard' = [s \in Slots |-> IF s \in T /\ ~present(s) THEN 0
                                    ELSE IF s \in Fresh THEN Seq(s)
                                    ELSE ctCard[s]]
      /\ seq' = (seq + Cardinality(Fresh)) % SeqLimit
      /\ published' = [s \in Slots |-> IF s \in T THEN status[s].card
                                       ELSE published[s]]
      /\ taken' = [s \in Slots |-> /\ taken[s]
                                   /\ s \in T => present(s) /\ s \notin Fresh]

-------------------------------------------------------------------------------
(* ccid_card_status, for ifd_poll and for a command *)

\* An URB is discarded: if it had been completed, what it brought is thrown away.
EndOwnCapture == urb' = "none" /\ missed' = (missed \/ Arrived)

\* ccid_before_command: the capture of the event loop ends.
BeforeCommand == missed' = (missed \/ (listening /\ Arrived))

\* The call begins; with an interrupt pipe it submits an URB of its own, which may
\* fail.
Begin(who, s) ==
  /\ phase = "idle"
  /\ caller' = who /\ target' = s
  /\ any' = FALSE
  /\ BeforeCommand /\ listening' = FALSE
  /\ \/ /\ ~interrupt
        /\ phase' = "probe" /\ stat' = Nothing
        /\ urb' = "none"
        /\ UNCHANGED failures
     \/ /\ interrupt
        /\ phase' = "capture" /\ stat' = Nothing
        /\ urb' = "submitted"
        /\ UNCHANGED failures
     \/ /\ interrupt /\ failures < MaxFailures
        /\ phase' = "done" /\ stat' = [Nothing EXCEPT !.card = Failed]
        /\ urb' = "none"
        /\ failures' = failures + 1
  /\ UNCHANGED <<deviceVars, notice, icc, loopVars, publicVars, clientVars, taken>>

\* ifd_poll: a slot that was looked at less than a second ago is passed over.
Poll(s) == polling /\ turn = s /\ Begin("poll", s)
Skip == /\ phase = "idle" /\ polling /\ ~events
        /\ turn' = (turn + 1) % NSlots
        /\ UNCHANGED <<deviceVars, driverVars, pipeVars, polling, publicVars,
                       clientVars, taken>>

\* A client's CT_CMD_STATUS or CT_CMD_RESET, between two rounds.
BetweenRounds == phase = "idle" /\ turn = 0 /\ (events => ~polling)
Command(s) == BetweenRounds /\ Begin("command", s)

\* A notification is read.  The changed bits of several add up; the presence is
\* the last one's, and every other slot's part is passed over.
Read ==
  /\ phase = "capture" /\ Arrived
  /\ any' = TRUE
  /\ stat' = [card |-> notice[target].card,
              changed |-> stat.changed \/ notice[target].changed]
  /\ urb' = "submitted" /\ missed' = FALSE
  /\ taken' = [taken EXCEPT ![target] =
                 @ \/ (caller = "command" /\ notice[target].changed)]
  /\ UNCHANGED <<deviceVars, notice, icc, phase, caller, target, failures, listening,
                 loopVars, publicVars, clientVars>>

\* 100 ms without one.
TimeOut == /\ phase = "capture" /\ urb = "submitted"
           /\ phase' = "cancel"
           /\ UNCHANGED <<deviceVars, icc, caller, target, any, stat, failures,
                          pipeVars, loopVars, publicVars, clientVars, taken>>

\* Plausible bugs: what was read is not cached; the URB is only discarded when
\* nothing was read.
EndCapture_NotCached ==
  /\ phase = "cancel"
  /\ EndOwnCapture
  /\ phase' = IF ~any /\ icc[target] = Unknown THEN "probe" ELSE "done"
  /\ stat' = IF any \/ icc[target] = Unknown THEN stat
             ELSE [card |-> icc[target], changed |-> FALSE]
  /\ UNCHANGED <<deviceVars, icc, notice, caller, target, any, failures,
                 listening, loopVars, publicVars, clientVars, taken>>

\* The URB is discarded, and the answer is what was read, what is cached, or else
\* what the reader says when it is asked.
EndCapture ==
  /\ phase = "cancel"
  /\ EndOwnCapture
  /\ phase' = IF ~any /\ icc[target] = Unknown THEN "probe" ELSE "done"
  /\ icc' = IF any THEN [icc EXCEPT ![target] = stat.card] ELSE icc
  /\ stat' = IF any \/ icc[target] = Unknown THEN stat
             ELSE [card |-> icc[target], changed |-> FALSE]
  /\ UNCHANGED <<deviceVars, notice, caller, target, any, failures, listening,
                 loopVars, publicVars, clientVars, taken>>

\* CCID_CMD_GETSLOTSTAT, for slot 0 whatever the slot.
Probe ==
  LET said == card[0]
  IN  /\ phase = "probe"
      /\ phase' = "done"
      /\ stat' = [card |-> said,
                  changed |-> \/ icc[target] = Unknown
                              \/ (said # 0) # (icc[target] # 0)]
      /\ icc' = [icc EXCEPT ![target] = said]
      /\ taken' = [taken EXCEPT ![target] = @ \/ caller = "command"]
      /\ UNCHANGED <<deviceVars, caller, target, any, failures, pipeVars, loopVars,
                     publicVars, clientVars>>

ProbeFails ==
  /\ phase = "probe" /\ failures < MaxFailures
  /\ failures' = failures + 1
  /\ phase' = "done" /\ stat' = [Nothing EXCEPT !.card = Failed]
  /\ UNCHANGED <<deviceVars, icc, caller, target, any, pipeVars, loopVars,
                 publicVars, clientVars, taken>>

\* ccid_after_command: the event loop's capture begins.
AfterCommand == /\ urb' = IF events THEN "submitted" ELSE urb
                /\ listening' = events

\* The call returns to ifd_poll, which goes on with the next slot.  In event mode
\* the only poll is over with the last slot and the loop starts to listen.
ReturnToPoll ==
  LET last == target = NSlots - 1
  IN  /\ phase = "done" /\ caller = "poll"
      /\ phase' = "idle"
      /\ turn' = (turn + 1) % NSlots
      /\ polling' = ~(events /\ last)
      /\ IF events /\ last THEN AfterCommand ELSE UNCHANGED <<urb, listening>>
      /\ IF stat.card = Failed THEN UNCHANGED <<publicVars, taken>>
         ELSE SlotStatusUpdate({target}, [s \in {target} |-> stat])
      /\ UNCHANGED <<deviceVars, icc, caller, target, any, stat, failures, notice, missed,
                     clientVars>>

\* It returns to the command, which publishes nothing.
ReturnToCommand ==
  /\ phase = "done" /\ caller = "command"
  /\ phase' = "idle"
  /\ AfterCommand
  /\ UNCHANGED <<deviceVars, icc, caller, target, any, stat, failures, notice, missed,
                 loopVars, publicVars, clientVars, taken>>

-------------------------------------------------------------------------------
(* The event loop and the commands that do not ask for the status *)

\* ifd_event hands the driver an array it has not set, and the driver only sets
\* the changed bit: a slot may be taken to have changed when it has not.
Event ==
  /\ phase = "idle" /\ listening /\ Arrived
  /\ \E garbage \in [Slots -> BOOLEAN] :
       SlotStatusUpdate(Slots, [s \in Slots |->
         [card |-> notice[s].card, changed |-> notice[s].changed \/ garbage[s]]])
  /\ icc' = [s \in Slots |-> notice[s].card]
  /\ urb' = "submitted" /\ missed' = FALSE
  /\ UNCHANGED <<deviceVars, phase, caller, target, any, stat, failures,
                 notice, listening, loopVars, clientVars>>

OtherCommand ==
  /\ events /\ BetweenRounds
  /\ BeforeCommand /\ AfterCommand
  /\ UNCHANGED <<deviceVars, notice, driverVars, loopVars, publicVars, clientVars, taken>>

\* One that cannot be parsed, or is not known, returns before after_command.
BadCommand ==
  /\ events /\ BetweenRounds
  /\ BeforeCommand /\ listening' = FALSE /\ urb' = "none"
  /\ UNCHANGED <<deviceVars, notice, driverVars, loopVars, publicVars, clientVars, taken>>

-------------------------------------------------------------------------------
(* ct_card_status reads the mapped file *)

CardStatus(c, s) ==
  /\ told' = [told EXCEPT ![c][s] = ctCard[s]]
  /\ learnt' = [learnt EXCEPT ![c][s] = published[s]]
  /\ UNCHANGED <<deviceVars, driverVars, pipeVars, loopVars, publicVars, taken>>

Returns == ReturnToPoll \/ ReturnToCommand
Next == \/ \E s \in Slots : Insert(s) \/ Remove(s) \/ Poll(s) \/ Command(s)
        \/ Notify \/ Read \/ TimeOut \/ EndCapture \/ Probe \/ ProbeFails
        \/ Skip \/ Returns \/ Event \/ OtherCommand \/ BadCommand
        \/ \E c \in Clients, s \in Slots : CardStatus(c, s)

\* The reader tells of a change when it can, the handler goes on, and comes back
\* to every slot: the loop polls once a second however many commands there are.
Fairness == /\ SF_vars(Notify)
            /\ WF_vars(Read) /\ WF_vars(TimeOut) /\ WF_vars(EndCapture)
            /\ WF_vars(Probe) /\ WF_vars(Returns) /\ WF_vars(Event)
            /\ \A s \in Slots : SF_vars(Poll(s))

Spec == Init /\ [][Next]_vars /\ Fairness

-------------------------------------------------------------------------------
(* Properties *)

\* A card that is put in is published, and one that is taken out stops being so:
\* ifd_poll sees to that whatever the commands read, unless the last notification
\* was dropped with the URB that had brought it.  The event loop, which looks at
\* the slots once and then only at notifications, has more ways to be left
\* behind: that first look failed, a command took the notification, or one that
\* returned early left the loop deaf.
LeftBehind(s) == missed \/ (events /\ (failures > 0 \/ taken[s] \/ ~listening))
CardsSeen ==
  \A s \in Slots : <>[](LeftBehind(s) \/ (ctCard[s] # 0 <=> card[s] # 0))

\* A client that would be told "present, not changed" was told of this very card,
\* however often cards came and went in between - unless a command took the
\* notification, or the reader has no pipe to tell of a swap.
SwapSeen ==
  \A c \in Clients, s \in Slots :
    interrupt /\ ~taken[s] /\ ctCard[s] # 0 /\ told[c][s] = ctCard[s]
      => learnt[c][s] = published[s]
===============================================================================
