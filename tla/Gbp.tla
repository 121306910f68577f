--------------------------------- MODULE Gbp --------------------------------
(***************************************************************************)
(* The Gemplus block protocol between host and reader                      *)
(* (src/src/ifd/proto-gbp.c): one I block each way, acknowledged by the    *)
(* answer; R blocks ask for the last block again; S blocks start over.     *)
(* The reader's side is what the host's presumes.                          *)
(***************************************************************************)
EXTENDS Driver

\* gbp->retries, and what the unsigned counter of a command is after 0.
MaxRetries == 3
Wrapped == -1
Less(n) == IF n = Wrapped THEN Wrapped ELSE n - 1

GbpInit ==
    /\ link = [state |-> "alive", ns |-> 0, seq |-> 0, busy |-> FALSE, retries |-> 0, resyncs |-> 0]
    /\ \E s \in {"slow", "fast"} :
         rdr = [rs |-> 0, last |-> None, speed |-> s, held |-> <<>>, left |-> <<>>]

IBlock(seq, body) == [type |-> "I", seq |-> seq, body |-> body]
RBlock(seq) == [type |-> "R", seq |-> seq]
\* The host asks for the answer to its block.  A mutant names the next one.
Again_Next(l) == RBlock(1 - l.ns)
Again(l) == RBlock(l.ns)
SBlock(response) == [type |-> "S", response |-> response]

-----------------------------------------------------------------------------
(* The host: gbp_transceive.  A step stands for the code from an answer to *)
(* the next block; l is gbp_state_t and the command's counters.            *)

Sends(l, block) ==
    /\ link' = [l EXCEPT !.retries = Less(@)]
    /\ ask' = block
    /\ UNCHANGED <<cmd, reply>>

ReturnsTo(l, r) ==
    /\ link' = [l EXCEPT !.busy = FALSE, !.retries = 0, !.resyncs = 0]
    /\ ask' = None
    /\ cmd' = None
    /\ reply' = r

Broken == [rc |-> -1, st |-> 0, data |-> <<>>]
Dies(l) == ReturnsTo([l EXCEPT !.state = "dead"], Broken)

\* The label resync: the loop goes on, and may find the retries used up once more.
Resync(l) ==
    LET again == [l EXCEPT !.resyncs = @ - 1, !.ns = 0, !.state = "resynch"]
        twice == [again EXCEPT !.resyncs = @ - 1, !.retries = Wrapped]
    IN  CASE l.resyncs = 0 -> Dies(l)
          [] l.resyncs > 0 /\ l.retries # 0 -> Sends(again, SBlock(FALSE))
          [] OTHER -> IF again.resyncs = 0 THEN Dies(again) ELSE Sends(twice, SBlock(FALSE))

\* The head of the loop: retries-- == 0
Round(l, block) ==
    IF l.retries = 0 THEN Resync([l EXCEPT !.retries = Wrapped]) ELSE Sends(l, block)

\* The command begins: with a resync if the last one left the protocol dead.  The
\* number the answer is to have is taken before.
GbpBegins ==
    /\ cmd # None /\ ~link.busy
    /\ LET l == [link EXCEPT !.seq = link.ns, !.busy = TRUE, !.retries = MaxRetries, !.resyncs = 3]
       IN  IF link.state = "dead"
           THEN Round([l EXCEPT !.ns = 0, !.state = "resynch"], SBlock(FALSE))
           ELSE Round(l, IBlock(link.ns, cmd))
    /\ UNCHANGED <<inbox, late, rdr, faults>>

\* An I block: the answer, if it has the number.
IsAnswer(l, b) == b.seq = l.seq

TakesI(l, b) ==
    IF IsAnswer(l, b)
    THEN ReturnsTo([l EXCEPT !.ns = 1 - @],
                   [rc |-> Len(b.body.data), st |-> b.body.st, data |-> b.body.data])
    ELSE Round(l, Again(l))

\* An R block: the command again, with new retries.
TakesR(l, b) ==
    IF b.seq # l.ns
    THEN Round(l, Again(l))
    ELSE Round([l EXCEPT !.retries = MaxRetries], IBlock(l.ns, cmd))

\* An S block: the answer to a resync, or a surprise.
TakesS(l, b) ==
    IF b.response /\ l.state = "resynch"
    THEN Round([l EXCEPT !.state = "alive", !.resyncs = 3, !.retries = MaxRetries],
               IBlock(l.ns, cmd))
    ELSE Resync(l)

GbpReceives ==
    /\ link.busy /\ ask = None /\ inbox # <<>>
    /\ LET b == Head(inbox)
       IN  CASE b.type = "garbled" -> Round(link, Again(link))
             [] b.type = "I" -> TakesI(link, b)
             [] b.type = "R" -> TakesR(link, b)
             [] b.type = "S" -> TakesS(link, b)
    /\ inbox' = Tail(inbox)
    /\ UNCHANGED <<late, rdr, faults>>

\* gbp_xcv fails.
GbpTimeout ==
    /\ link.busy /\ Silent
    /\ Dies(link)
    /\ UNCHANGED <<inbox, late, rdr, faults>>

GbpHost ==
    /\ GbpBegins \/ GbpReceives \/ GbpTimeout
    /\ UNCHANGED <<driver, icc, event, opvars, ran, work>>

-----------------------------------------------------------------------------
(* The reader                                                              *)

\* It executes a command that has the number it expects, with Executes(body, answer)
\* in the module of the reader; it repeats its answer, or says what it expects.
Repeats(b) ==
    \/ b.type = "I" /\ b.seq # rdr.rs
    \/ b.type = "R"

ReaderRepeats ==
    /\ ask # None /\ Repeats(ask)
    /\ Answers(IF ask.type = "R" /\ rdr.last # None /\ rdr.last.seq = ask.seq
               THEN rdr.last ELSE RBlock(rdr.rs), TRUE)
    /\ UNCHANGED <<rdr, icc, ran>>

ReaderStartsOver ==
    /\ ask # None /\ ask.type = "S"
    /\ rdr' = [rdr EXCEPT !.rs = 0, !.last = None, !.held = <<>>]
    /\ Answers(SBlock(TRUE), TRUE)
    /\ UNCHANGED <<icc, ran>>

\* A block that came garbled.
ReaderMissed ==
    /\ ask # None /\ Fault
    /\ ask' = None
    /\ inbox' = Append(inbox, RBlock(rdr.rs))
    /\ UNCHANGED <<rdr, icc, ran, late>>

\* The line's speeds differ: nobody understands anything.
ReaderDeaf ==
    /\ ask # None
    /\ ask' = None
    /\ UNCHANGED <<inbox, late, rdr, icc, ran, faults>>
=============================================================================
