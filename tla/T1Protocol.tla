------------------------------ MODULE T1Protocol ------------------------------
(***************************************************************************)
(* The T=1 block protocol of a reader (src/ifd/proto-t1.c) talking to a    *)
(* card over a line that garbles or loses blocks.  The line carries one    *)
(* block at a time: the host sends a block and waits for the next          *)
(* (t1_xcv).  A garbled block is one whose checksum fails; after a lost    *)
(* one the read of the driver times out.                                   *)
(*                                                                         *)
(* An APDU is a sequence of units, as is its answer; the host puts at most *)
(* ifsc units into a block, the card one.  The card is external: it does   *)
(* what ISO 7816-3 asks of it, and executes every complete command.        *)
(***************************************************************************)
EXTENDS Integers, Sequences, SequencesExt

CONSTANTS
  CommandLen,   \* units of each APDU
  AnswerLen,    \* units of the answer to each
  RcvLens,      \* units that fit into the caller's buffer
  Ifsc,         \* ifsc after a reset
  Ifscs,        \* sizes the card asks for in an S(IFS) block
  CardErrors,   \* error bits in the R-block for a block the card cannot use
  Retries,      \* t1->retries
  Resyncs,      \* resyncs of one exchange
  RetryMod,     \* `retries` is unsigned: 2^32
  MaxErrors,    \* bound on the blocks garbled or lost
  MaxRequests,  \* bound on the S requests of the card
  MaxCommands   \* bound on the APDUs

ASSUME T1Assumption ==
  /\ MaxErrors \in Nat /\ MaxRequests \in Nat /\ MaxCommands \in Nat
  /\ CommandLen \in [1 .. MaxCommands -> Nat \ {0}]
  /\ AnswerLen \in [1 .. MaxCommands -> Nat \ {0}]
  /\ RcvLens \subseteq Nat
  /\ Ifsc \in Nat \ {0} /\ Ifscs \subseteq Nat \ {0}
  /\ CardErrors \subseteq BOOLEAN
  /\ Retries \in Nat \ {0} /\ Resyncs \in Nat
  /\ RetryMod > Retries

IBlock(seq, more, data)  == [type |-> "I", seq |-> seq, more |-> more, data |-> data]
RBlock(seq, error)       == [type |-> "R", seq |-> seq, error |-> error]
SRequest(kind, value)    == [type |-> "S", response |-> FALSE, kind |-> kind,
                             value |-> value]
SResponse(kind, value)   == [type |-> "S", response |-> TRUE, kind |-> kind,
                             value |-> value]
Garbled                  == [type |-> "garbled"]
NoBlock                  == [type |-> "none"]

Command(k) == [i \in 1 .. CommandLen[k] |-> <<k, "command", i>>]

\* What the card answers to the k-th APDU, and to anything else.
Answer(k, command) ==
  IF command = Command(k) THEN [i \in 1 .. AnswerLen[k] |-> <<k, "answer", i>>]
                          ELSE << <<k, "refused", 1>> >>

VARIABLES
  state,     \* t1->state
  ns, nr,    \* t1->ns, t1->nr
  ifsc,      \* t1->ifsc
  retries, resyncs,
  sbuf,      \* units of the APDU not known to have arrived
  lastSend,  \* last_send
  sent,      \* sent_length > 0
  rbuf,      \* units received
  room,      \* rcv_len
  ret,       \* "none", or of this exchange: "busy", "ok", "error"
  toCard, toHost,       \* the block on the line
  cs, cr,    \* the card's next send and receive sequence numbers
  got,       \* units of a command that is not complete
  out,       \* units of the answer the card has not sent
  last,      \* the card's last block
  later,     \* the block that waits for the answer to the card's S request
  n,         \* APDUs so far
  executed,  \* what the card has executed of this exchange
  phase,     \* "fresh" after a reset, or the request on its way: "ifsd", "resync", "none"
  tries,     \* `retries` of t1_resynchronize
  resynced,  \* this exchange has resynchronised
  strayed,   \* it has gone on with an I-block that came before the answer to S(RESYNC)
  errors, requests

hostVars  == <<state, ns, nr, ifsc, retries, resyncs, sbuf, lastSend, sent, rbuf, room, ret>>
cardVars  == <<cs, cr, got, out, last, later, executed, requests>>
askVars == <<phase, tries>>
vars == <<hostVars, cardVars, askVars, toCard, toHost, n, resynced, strayed, errors>>
-------------------------------------------------------------------------------
Init == /\ state = "SENDING" /\ ns = 0 /\ nr = 0 /\ ifsc = Ifsc
        /\ retries = 0 /\ resyncs = 0
        /\ sbuf = <<>> /\ lastSend = 0 /\ sent = FALSE /\ rbuf = <<>>
        /\ room = 0
        /\ ret = "none"
        /\ toCard = NoBlock /\ toHost = NoBlock
        /\ cs = 0 /\ cr = 0 /\ got = <<>> /\ out = <<>>
        /\ last = NoBlock /\ later = NoBlock
        /\ n = 0 /\ executed = <<>> /\ resynced = FALSE /\ strayed = FALSE
        /\ errors = 0 /\ requests = 0
        /\ phase = "fresh" /\ tries = 0

-------------------------------------------------------------------------------
(* Faulty variants, named <definition>_<fault>.  No specification uses      *)
(* them; each breaks a property when it takes the place of the definition.  *)

AnswerBegins_SameNs ==
  IF state = "SENDING"
  THEN /\ sbuf' = SubSeq(sbuf, lastSend + 1, Len(sbuf))
       /\ lastSend' = 0
       /\ ns' = ns
  ELSE UNCHANGED <<sbuf, lastSend, ns>>

-------------------------------------------------------------------------------
(* t1_transceive.  `retries` is kept as it is after the decrement at the    *)
(* head of the loop.                                                        *)

Fewer(k) == (k - 1) % RetryMod

Chunk(units)  == SubSeq(units, 1, IF Len(units) < ifsc THEN Len(units) ELSE ifsc)
Rest(units, k) == SubSeq(units, k + 1, Len(units))

\* t1_build for an I-block with the next units of the APDU.
SendChunk(units, seq) ==
  /\ toCard' = IBlock(seq, Len(units) > ifsc, Chunk(units))
  /\ lastSend' = Len(Chunk(units))

Fail == /\ state' = "DEAD"
        /\ ret' = "error"
        /\ toCard' = NoBlock
        /\ UNCHANGED <<ns, nr, retries, resyncs, resynced>>

\* The label resync.
Resync ==
  IF resyncs = 0
  THEN Fail
  ELSE /\ resyncs' = resyncs - 1
       /\ ns' = 0 /\ nr' = 0
       /\ state' = "RESYNCH"
       /\ toCard' = SRequest("resync", 0)
       /\ retries' = Fewer(retries)
       /\ resynced' = TRUE
       /\ UNCHANGED ret

\* Faulty variants that need the definitions above.
HostRSending_WrongLength ==
  /\ toHost.type = "R" /\ ~toHost.error
  /\ state # "RECEIVING"
  /\ LET arrived == toHost.seq # ns
         units == IF arrived THEN Rest(sbuf, ifsc) ELSE sbuf
     IN /\ sbuf' = units
        /\ sent' = (sent \/ (arrived /\ lastSend > 0))
        /\ IF units = <<>>
           THEN /\ Resync
                /\ lastSend' = IF arrived THEN 0 ELSE lastSend
           ELSE /\ ns' = IF arrived THEN 1 - ns ELSE ns
                /\ SendChunk(units, ns')
                /\ retries' = Fewer(Retries)
                /\ UNCHANGED <<state, nr, resyncs, ret, resynced>>
  /\ UNCHANGED <<ifsc, rbuf>>

TakeAnswer_SameNr ==
  /\ nr' = nr
  /\ state' = "RECEIVING"
  /\ retries' = Fewer(Retries)
  /\ rbuf' = toHost.data
  /\ IF toHost.more
     THEN toCard' = RBlock(nr', FALSE) /\ UNCHANGED ret
     ELSE toCard' = NoBlock /\ ret' = "ok"

HostResynced_KeepsReply ==
  /\ toHost.type = "S" /\ toHost.response
  /\ state = "RESYNCH"
  /\ state' = "SENDING"
  /\ sent' = FALSE
  /\ resyncs' = Resyncs /\ retries' = Fewer(Retries)
  /\ SendChunk(sbuf, ns)
  /\ strayed' = FALSE
  /\ UNCHANGED <<ns, nr, ifsc, sbuf, rbuf, ret, resynced>>

Transceive ==
  /\ ret # "busy" /\ state # "DEAD"
  /\ n < MaxCommands
  /\ n' = n + 1
  /\ state' = "SENDING"
  /\ retries' = Fewer(Retries) /\ resyncs' = Resyncs
  /\ sbuf' = Command(n') /\ sent' = FALSE /\ rbuf' = <<>>
  /\ room' \in RcvLens
  /\ SendChunk(sbuf', ns)
  /\ ret' = "busy"
  /\ executed' = <<>> /\ resynced' = FALSE /\ strayed' = FALSE
  /\ phase' = "none"
  /\ UNCHANGED <<ns, nr, ifsc, toHost, cs, cr, got, out, last, later, requests, errors, tries>>

\* The checksum of what came in is wrong.
HostGarbled ==
  /\ toHost = Garbled
  /\ IF retries = 0 \/ sent
     THEN Resync
     ELSE /\ toCard' = RBlock(nr, TRUE)
          /\ retries' = Fewer(retries)
          /\ UNCHANGED <<state, ns, nr, resyncs, ret, resynced>>
  /\ UNCHANGED <<ifsc, sbuf, lastSend, sent, rbuf>>

HostRError ==
  /\ toHost.type = "R" /\ toHost.error
  /\ Resync
  /\ UNCHANGED <<ifsc, sbuf, lastSend, sent, rbuf>>

HostRReceiving ==
  /\ toHost.type = "R" /\ ~toHost.error
  /\ state = "RECEIVING"
  /\ toCard' = RBlock(nr, FALSE)
  /\ retries' = Fewer(Retries)
  /\ UNCHANGED <<state, ns, nr, ifsc, resyncs, sbuf, lastSend, sent, rbuf, ret,
                 resynced>>

\* A request for the next sequence number means that the last block of the
\* chain has arrived.
HostRSending ==
  /\ toHost.type = "R" /\ ~toHost.error
  /\ state # "RECEIVING"
  /\ LET arrived == toHost.seq # ns
         units == IF arrived THEN Rest(sbuf, lastSend) ELSE sbuf
     IN /\ sbuf' = units
        /\ sent' = (sent \/ (arrived /\ lastSend > 0))
        /\ IF units = <<>>
           THEN /\ Resync
                /\ lastSend' = IF arrived THEN 0 ELSE lastSend
           ELSE /\ ns' = IF arrived THEN 1 - ns ELSE ns
                /\ SendChunk(units, ns')
                /\ retries' = Fewer(Retries)
                /\ UNCHANGED <<state, nr, resyncs, ret, resynced>>
  /\ UNCHANGED <<ifsc, rbuf>>

\* The first I-block of the answer means the same of the last block of all.
AnswerBegins ==
  IF state = "SENDING"
  THEN /\ sbuf' = Rest(sbuf, lastSend)
       /\ lastSend' = 0
       /\ ns' = 1 - ns
  ELSE UNCHANGED <<sbuf, lastSend, ns>>

\* The expected I-block, and the next one asked for if there are more.
TakeAnswer ==
  /\ nr' = 1 - nr
  /\ IF Len(rbuf) + Len(toHost.data) > room
     THEN /\ state' = "DEAD" /\ ret' = "error"
          /\ toCard' = NoBlock
          /\ UNCHANGED <<rbuf, retries>>
     ELSE /\ rbuf' = rbuf \o toHost.data
          /\ state' = "RECEIVING"
          /\ retries' = Fewer(Retries)
          /\ IF toHost.more
             THEN toCard' = RBlock(nr', FALSE) /\ UNCHANGED ret
             ELSE toCard' = NoBlock /\ ret' = "ok"

HostI ==
  /\ toHost.type = "I"
  /\ strayed' = (strayed \/ state = "RESYNCH")
  /\ AnswerBegins
  /\ IF toHost.seq = nr
     THEN TakeAnswer
     ELSE /\ state' = "RECEIVING"
          /\ toCard' = RBlock(nr, TRUE)
          /\ retries' = Fewer(retries)
          /\ UNCHANGED <<nr, rbuf, ret>>
  /\ UNCHANGED <<ifsc, resyncs, sent, resynced>>

\* The response to our S(RESYNC): what is left of the APDU is sent anew.
HostResynced ==
  /\ toHost.type = "S" /\ toHost.response
  /\ state = "RESYNCH"
  /\ state' = "SENDING"
  /\ sent' = FALSE
  /\ resyncs' = Resyncs /\ retries' = Fewer(Retries)
  /\ rbuf' = <<>>
  /\ SendChunk(sbuf, ns)
  /\ strayed' = FALSE
  /\ UNCHANGED <<ns, nr, ifsc, sbuf, ret, resynced>>

HostS ==
  /\ toHost.type = "S"
  /\ ~(toHost.response /\ state = "RESYNCH")
  /\ IF \/ toHost.response
        \/ toHost.kind = "resync"
        \/ toHost.kind = "ifs" /\ toHost.value = 0
     THEN Resync /\ UNCHANGED ifsc
     ELSE /\ ifsc' = IF toHost.kind = "ifs" THEN toHost.value ELSE ifsc
          /\ toCard' = SResponse(toHost.kind, toHost.value)
          /\ retries' = Fewer(Retries)
          /\ UNCHANGED <<state, ns, nr, resyncs, ret, resynced>>
  /\ UNCHANGED <<sbuf, lastSend, sent, rbuf>>

Host ==
  /\ toHost # NoBlock /\ phase = "none"
  /\ toHost' = NoBlock
  /\ \/ /\ HostGarbled \/ HostRError \/ HostRReceiving \/ HostRSending \/ HostS
        /\ UNCHANGED strayed
     \/ HostI
     \/ HostResynced
  /\ UNCHANGED <<cardVars, askVars, room, n, errors>>

-------------------------------------------------------------------------------
(* t1_negotiate_ifsd, which a driver calls after a reset, and               *)
(* t1_resynchronize, with which it fails.                                   *)

Resynchronize ==
  /\ ns' = 0 /\ nr' = 0
  /\ toCard' = SRequest("resync", 0)
  /\ phase' = "resync" /\ tries' = 2
  /\ UNCHANGED ret

Negotiate ==
  /\ ret # "busy" /\ phase = "fresh"
  /\ ret' = "busy" /\ phase' = "ifsd"
  /\ toCard' = SRequest("ifsd", 1)
  /\ UNCHANGED <<state, ns, nr, ifsc, retries, resyncs, sbuf, lastSend, sent, rbuf, room, cardVars,
                 toHost, tries, n, resynced, strayed, errors>>

\* Its `retries` never change: the request is repeated until it is answered.
AsksIfs ==
  /\ phase = "ifsd"
  /\ IF toHost = SResponse("ifsd", 1)
     THEN ret' = "none" /\ phase' = "none" /\ toCard' = NoBlock
     ELSE toCard' = SRequest("ifsd", 1) /\ UNCHANGED <<ret, phase>>
  /\ UNCHANGED <<state, tries>>

\* The caller is told of an error, and the protocol is DEAD as it was before.
AsksResync ==
  /\ phase = "resync"
  /\ IF toHost # SResponse("resync", 0) /\ tries > 0
     THEN toCard' = SRequest("resync", 0) /\ tries' = tries - 1 /\ UNCHANGED <<ret, phase>>
     ELSE toCard' = NoBlock /\ ret' = "error" /\ phase' = "none" /\ tries' = 0
  /\ state' = "DEAD"

Asks ==
  /\ toHost # NoBlock
  /\ toHost' = NoBlock
  /\ AsksIfs \/ AsksResync
  /\ UNCHANGED <<ns, nr, ifsc, retries, resyncs, sbuf, lastSend, sent, rbuf, room, cardVars,
                 n, resynced, strayed, errors>>

\* ifd_card_reset makes a new protocol object; the card starts anew.
Reset ==
  /\ ret # "busy"
  /\ state' = "SENDING" /\ ns' = 0 /\ nr' = 0 /\ ifsc' = Ifsc
  /\ ret' = "none"
  /\ cs' = 0 /\ cr' = 0 /\ got' = <<>> /\ out' = <<>>
  /\ last' = NoBlock /\ later' = NoBlock
  /\ executed' = <<>> /\ resynced' = FALSE /\ strayed' = FALSE
  /\ phase' = "fresh" /\ tries' = 0
  /\ UNCHANGED <<retries, resyncs, sbuf, lastSend, sent, rbuf, room, toCard, toHost, n,
                 errors, requests>>

-------------------------------------------------------------------------------
(* The line *)

Garble ==
  /\ errors < MaxErrors
  /\ errors' = errors + 1
  /\ \/ toCard # NoBlock /\ toCard' = Garbled /\ UNCHANGED toHost
     \/ toHost # NoBlock /\ toHost' = Garbled /\ UNCHANGED toCard
  /\ UNCHANGED <<hostVars, cardVars, askVars, n, resynced, strayed>>

\* A block is lost, or the card stays mute: the host waits for its timeout.
Lose ==
  /\ errors < MaxErrors
  /\ errors' = errors + 1
  /\ toCard # NoBlock \/ toHost # NoBlock
  /\ toHost' = NoBlock /\ state' = "DEAD"
  /\ IF phase = "ifsd" THEN Resynchronize
     ELSE toCard' = NoBlock /\ ret' = "error" /\ phase' = "none" /\ tries' = 0 /\ UNCHANGED <<ns, nr>>
  /\ UNCHANGED <<ifsc, retries, resyncs, sbuf, lastSend, sent, rbuf, room, cardVars, n, resynced,
                 strayed>>

-------------------------------------------------------------------------------
(* The card *)

\* Before it says what it has to say, the card may make a request of its own.
Say(block) ==
  \/ /\ toHost' = block /\ last' = block
     /\ later' = NoBlock
     /\ UNCHANGED requests
  \/ /\ requests < MaxRequests
     /\ requests' = requests + 1
     /\ \E request \in {SRequest("wtx", 1)} \cup {SRequest("ifs", k) : k \in Ifscs} :
          toHost' = request /\ last' = request
     /\ later' = block

Repeat == toHost' = last /\ UNCHANGED <<last, later, requests>>

Refuse == /\ \E error \in CardErrors : toHost' = RBlock(cr, error) /\ last' = toHost'
          /\ UNCHANGED <<later, requests>>

SayNext(units) ==
  /\ Say(IBlock(cs, Len(units) > 1, <<Head(units)>>))
  /\ cs' = 1 - cs
  /\ out' = Tail(units)

CardI ==
  /\ toCard.type = "I" /\ toCard.seq = cr
  /\ cr' = 1 - cr
  /\ LET command == got \o toCard.data
     IN IF toCard.more
        THEN /\ got' = command
             /\ Say(RBlock(cr', FALSE))
             /\ UNCHANGED <<cs, out, executed>>
        ELSE /\ got' = <<>>
             /\ executed' = Append(executed, command)
             /\ SayNext(Answer(n, command))

\* R-blocks number the I-block the host expects.
CardR ==
  /\ toCard.type = "R"
  /\ IF toCard.seq = cs /\ out # <<>>
     THEN SayNext(out)
     ELSE Repeat /\ UNCHANGED <<cs, out>>
  /\ UNCHANGED <<cr, got, executed>>

CardResync ==
  /\ toCard = SRequest("resync", 0)
  /\ cs' = 0 /\ cr' = 0 /\ got' = <<>> /\ out' = <<>>
  /\ toHost' = SResponse("resync", 0) /\ last' = toHost'
  /\ later' = NoBlock
  /\ UNCHANGED <<executed, requests>>

CardIfs ==
  /\ toCard = SRequest("ifsd", 1)
  /\ toHost' = SResponse("ifsd", 1) /\ last' = toHost'
  /\ UNCHANGED <<cs, cr, got, out, later, executed, requests>>

CardResponse ==
  /\ toCard.type = "S" /\ toCard.response
  /\ later # NoBlock
  /\ toHost' = later /\ last' = later
  /\ later' = NoBlock
  /\ UNCHANGED <<cs, cr, got, out, executed, requests>>

\* Anything else is no block the card can use.
CardRefuses ==
  /\ \/ toCard = Garbled
     \/ toCard.type = "I" /\ toCard.seq # cr
     \/ toCard.type = "S" /\ toCard.response /\ later = NoBlock
  /\ Refuse
  /\ UNCHANGED <<cs, cr, got, out, executed>>

Card ==
  /\ toCard # NoBlock
  /\ toCard' = NoBlock
  /\ CardI \/ CardR \/ CardResync \/ CardIfs \/ CardResponse \/ CardRefuses
  /\ UNCHANGED <<hostVars, askVars, n, resynced, strayed, errors>>

Next == Transceive \/ Host \/ Negotiate \/ Asks \/ Reset \/ Garble \/ Lose \/ Card

\* t1_transceive runs on, and the card answers every block that arrives.
Spec == Init /\ [][Next]_vars /\ WF_vars(Host) /\ WF_vars(Asks) /\ WF_vars(Card)

-------------------------------------------------------------------------------
(* Properties *)

\* The bytes a successful t1_transceive returns are the whole answer to the
\* last command the card has executed: no block of it is missing, doubled, out
\* of order, or left over from before a resynchronisation or another APDU.  (The
\* code breaks it when it strays: an I-block that comes before the response to
\* S(RESYNC) is taken for the next one of the answer.)
ReplyIsAnswer ==
  ret = "ok" /\ ~strayed => executed # <<>> /\ rbuf = Answer(n, Last(executed))

\* Without a resynchronisation the card executes nothing but the APDU, once at
\* most, and once if t1_transceive succeeds, however many blocks of either side
\* are garbled and repeated.
ExecutedOnce ==
  ~resynced => /\ executed = <<>> \/ executed = <<Command(n)>>
               /\ ret = "ok" => executed = <<Command(n)>>

\* Between two exchanges the host and the card agree on the sequence number of
\* the next I-block in either direction, and no chain is open: the next APDU is
\* not taken for a repetition or for the rest of this one.  (An exchange that strayed
\* may leave the sequence numbers of the commands apart.)
InStep ==
  ret # "busy" /\ state # "DEAD" =>
    /\ cs = nr
    /\ ~strayed => cr = ns
    /\ got = <<>> /\ out = <<>>
    /\ toCard = NoBlock /\ toHost = NoBlock

\* t1_transceive comes to an end, with an answer or an error, once the line
\* stops failing: no block of R or S type is sent for ever.
ExchangeEnds == ret = "busy" ~> ret # "busy"
=============================================================================
