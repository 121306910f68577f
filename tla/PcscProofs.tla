------------------------------ MODULE PcscProofs ------------------------------
(***************************************************************************)
(* Proofs about the PC/SC driver and the CT-API library, for any programs, *)
(* threads, readers, channels and terminals.                               *)
(***************************************************************************)
EXTENDS Pcsc, TLAPS

Fields == {"op", "ctn", "reader", "cmd", "at", "cur", "prev", "node", "rc", "rsp"}

ThreadTypes ==
  /\ DOMAIN th = Threads /\ \A t \in Threads : DOMAIN th[t] = Fields
  /\ alive \in [Programs -> BOOLEAN] /\ resets \in Nat
  /\ DOMAIN context = Ctns /\ DOMAIN mutex = Ctns /\ DOMAIN newest = Ctns

\* Where a thread is in the library.
Places == {"init", "publish", "fill", "lock", "close", "unlink", "data", "dispatch", "asks", "note",
           "returned"}

\* Thread t goes on in its call.
GoesOn(t) ==
  /\ DOMAIN th' = Threads /\ \A u \in Threads \ {t} : th'[u] = th[u]
  /\ DOMAIN th'[t] = Fields
  /\ th'[t].op = th[t].op /\ th'[t].ctn = th[t].ctn /\ th'[t].cmd = th[t].cmd
  /\ th'[t].reader = th[t].reader
  /\ th[t].at \in Places \ {"returned"} /\ th'[t].at \in Places

-------------------------------------------------------------------------------
\* A thread's call is the record it has moved to.
LEMMA MovesTo ==
  ASSUME ThreadTypes, NEW t \in Threads, NEW call, Moves(t, call)
  PROVE  th'[t] = call /\ DOMAIN th' = Threads /\ \A u \in Threads \ {t} : th'[u] = th[u]
BY DEF ThreadTypes, Moves

\* A step of the library takes its thread on, or its program is undefined from there on.
LEMMA LibraryGoesOn ==
  ASSUME ThreadTypes, NEW t \in Threads, CtSteps(t)
  PROVE  \/ Undefined(t)
         \/ /\ GoesOn(t) /\ UNCHANGED alive /\ resets' \in Nat
            /\ resets' # resets => /\ th[t].at = "asks" /\ th[t].cmd.ins = "reset"
                                   /\ th'[t].at = "note" /\ th'[t].rsp.number = resets'
<1> DEFINE Same(call) == /\ DOMAIN call = Fields /\ call.at \in Places
                         /\ call.op = th[t].op /\ call.ctn = th[t].ctn /\ call.cmd = th[t].cmd
                         /\ call.reader = th[t].reader
<1>0. resets \in Nat /\ DOMAIN th[t] = Fields
  BY DEF ThreadTypes
<1>1. SUFFICES ASSUME ~Undefined(t)
               PROVE  /\ UNCHANGED alive /\ th[t].at \in Places \ {"returned"}
                      /\ th' = th \/ \E call : Moves(t, call) /\ Same(call)
                      /\ \/ UNCHANGED resets
                         \/ /\ th[t].at = "asks" /\ th[t].cmd.ins = "reset" /\ resets' = resets + 1
                            /\ th'[t].at = "note" /\ th'[t].rsp.number = resets'
  <2> SUFFICES ASSUME ~Undefined(t) PROVE GoesOn(t)
    BY <1>0, <1>1
  <2>1. CASE th' = th
    BY <1>0, <1>1, <2>1 DEF GoesOn, ThreadTypes
  <2>2. ASSUME NEW call, Moves(t, call), Same(call)
        PROVE  GoesOn(t)
    <3>1. th'[t] = call /\ DOMAIN th' = Threads /\ \A u \in Threads \ {t} : th'[u] = th[u]
      BY <2>2, MovesTo
    <3> QED BY <1>1, <2>2, <3>1 DEF GoesOn
  <2> QED BY <1>1, <2>1, <2>2
<1>2. ASSUME NEW rc, NEW rsp, Returns(t, rc, rsp)
      PROVE  \E call : Moves(t, call) /\ Same(call)
  <2>1. Same([th[t] EXCEPT !.at = "returned", !.rc = rc, !.rsp = rsp])
    BY <1>0 DEF Fields, Places
  <2> QED BY <1>2, <2>1 DEF Returns
<1>3. ASSUME NEW n, NEW cur, NEW prev, NEW a \in Places, NEW c \in Places
      PROVE  /\ Same([th[t] EXCEPT !.at = a]) /\ Same([th[t] EXCEPT !.at = a, !.node = n])
             /\ Same([th[t] EXCEPT !.at = a, !.rc = n]) /\ Same([th[t] EXCEPT !.at = a, !.rsp = n])
             /\ Same([th[t] EXCEPT !.at = a, !.cur = cur, !.prev = prev])
             /\ th[t].at = c => Same([th[t] EXCEPT !.cur = cur, !.prev = prev])
             /\ [th[t] EXCEPT !.at = a, !.rsp = n].at = a
             /\ [th[t] EXCEPT !.at = a, !.rsp = n].rsp = n
  BY <1>0 DEF Fields
<1>4. "publish" \in Places /\ "fill" \in Places /\ "lock" \in Places /\ "close" \in Places /\ "unlink" \in Places
      /\ "dispatch" \in Places /\ "asks" \in Places /\ "note" \in Places
  BY DEF Places
<1> HIDE DEF Same
<1>5. CASE InitConnects(t)
  BY <1>2, <1>3, <1>4, <1>5, ZenonT(60) DEF InitConnects, At, Places
<1>6. CASE InitPublishes(t) \/ InitFills(t) \/ InitLocks(t)
  BY <1>2, <1>3, <1>4, <1>6, ZenonT(60) DEF InitPublishes, InitFills, InitLocks, At, Places
<1>7. CASE CloseBegins(t)
  BY <1>3, <1>4, <1>7, ZenonT(60) DEF CloseBegins, At, Places
<1>12. CASE CloseFrees(t) \/ CloseEnds(t)
  BY <1>2, <1>12 DEF CloseFrees, CloseEnds, At, Places
<1>13. CASE ClosePasses(t)
  <2>1. th[t].at = "unlink" /\ UNCHANGED <<alive, resets>>
        /\ \E cur, prev : Moves(t, [th[t] EXCEPT !.cur = cur, !.prev = prev])
    BY <1>13 DEF ClosePasses, At
  <2> QED BY <1>3, <1>4, <2>1 DEF Places
<1>8. CASE DataFinds(t) \/ Dispatches(t)
  BY <1>2, <1>3, <1>4, <1>8, ZenonT(60) DEF DataFinds, Dispatches, At, Places
<1>9. CASE HandlerAnswers(t)
  <2>1. th[t].at = "asks" /\ th[t].at \in Places \ {"returned"} /\ UNCHANGED alive
    BY <1>9 DEF HandlerAnswers, At, Places
  <2> DEFINE noted == [number |-> resets + 1, kind |-> card[node[th[t].node].reader]]
  <2>2. \/ UNCHANGED resets /\ \E rc, rsp : Returns(t, rc, rsp)
        \/ /\ th[t].cmd.ins = "reset" /\ resets' = resets + 1
           /\ Moves(t, [th[t] EXCEPT !.at = "note", !.rsp = noted])
    BY <1>9 DEF HandlerAnswers
  <2>5. noted.number = resets + 1
    OBVIOUS
  <2> HIDE DEF noted
  <2>3. CASE UNCHANGED resets /\ \E rc, rsp : Returns(t, rc, rsp)
    BY <1>2, <2>1, <2>3
  <2>4. ASSUME th[t].cmd.ins = "reset", resets' = resets + 1, NEW rsp, rsp.number = resets + 1,
               Moves(t, [th[t] EXCEPT !.at = "note", !.rsp = rsp])
        PROVE  /\ \E call : Moves(t, call) /\ Same(call)
               /\ th'[t].at = "note" /\ th'[t].rsp.number = resets'
    <3>1. PICK call : call = [th[t] EXCEPT !.at = "note", !.rsp = rsp]
      OBVIOUS
    <3>2. Same(call) /\ call.at = "note" /\ call.rsp = rsp
      BY <1>3, <1>4, <3>1
    <3>3. Moves(t, call) /\ th'[t] = call
      BY <2>4, <3>1, MovesTo
    <3> QED BY <2>4, <3>2, <3>3
  <2> QED BY <2>1, <2>2, <2>3, <2>4, <2>5
<1>10. CASE ResetNotes(t)
  BY <1>2, <1>10 DEF ResetNotes, At, Places
<1>11. ~ (\/ InitOfFreed(t) \/ CloseFreesTwice(t) \/ DataFindsFreed(t) \/ DispatchesFreed(t)
          \/ ResetNotesFreed(t))
  BY <1>1 DEF InitOfFreed, CloseFreesTwice, DataFindsFreed, DispatchesFreed, ResetNotesFreed
<1> QED BY <1>5, <1>6, <1>7, <1>8, <1>9, <1>10, <1>11, <1>12, <1>13 DEF CtSteps

\* What a power action's thread does in the library: only the answer to its reset of the
\* card is a success, and it is that reset's ATR.
LEMMA PowerStep ==
  ASSUME ThreadTypes, NEW t \in Threads, CtSteps(t), ~Undefined(t),
         th[t].op \in Powers, th[t].cmd = Command(th[t].op),
         th[t].at \in {"data", "dispatch", "asks", "note"}
  PROVE  /\ th'[t].at \in {"dispatch", "asks", "note", "returned"}
         /\ th'[t].at = "note" =>
              th[t].op = "power up" /\ resets' # resets /\ th'[t].rsp.number = resets'
         /\ th[t].at = "note" => th'[t].at = "returned" /\ th'[t].rc = "OK" /\ UNCHANGED resets
         /\ th[t].op = "power up" /\ th'[t].at = "returned" /\ th'[t].rc = "OK" =>
              th[t].at = "note" /\ th'[t].rsp.data = <<th[t].rsp.number>> /\ UNCHANGED resets
<1>0. /\ resets \in Nat /\ DOMAIN th[t] = Fields
      /\ \A call : Moves(t, call) => th'[t] = call
  BY MovesTo DEF ThreadTypes
<1>1. /\ th[t].cmd.dad = "ct" /\ ~IsFile(th[t].cmd)
      /\ th[t].op = "power up" => /\ Refusals(th[t].cmd) = {} /\ th[t].cmd.ins = "reset"
                                  /\ th[t].cmd.want = "atr"
      /\ th[t].op = "power down" => th[t].cmd.ins # "reset"
  <2>1. ASSUME NEW cmd, NEW ins, NEW want, cmd = Terminal(ins, want, None)
        PROVE  /\ cmd.dad = "ct" /\ cmd.ins = ins /\ cmd.want = want
               /\ cmd.wellformed /\ ~cmd.message /\ cmd.unit = 1
    BY <2>1 DEF Terminal
  <2>2. CASE th[t].op = "power up"
    <3>1. th[t].cmd = Terminal("reset", "atr", None)
      BY <2>2 DEF Command
    <3>2. /\ th[t].cmd.dad = "ct" /\ th[t].cmd.ins = "reset" /\ th[t].cmd.want = "atr"
          /\ th[t].cmd.wellformed /\ ~th[t].cmd.message /\ th[t].cmd.unit = 1
      BY <2>1, <3>1
    <3>3. Refusals(th[t].cmd) = {}
      BY <3>2 DEF Refusals
    <3> QED BY <2>2, <3>2, <3>3 DEF IsFile
  <2>3. CASE th[t].op = "power down"
    <3>1. th[t].cmd = Terminal("eject", None, None)
      BY <2>3 DEF Command
    <3>2. th[t].cmd.dad = "ct" /\ th[t].cmd.ins = "eject"
      BY <2>1, <3>1
    <3> QED BY <2>3, <3>2 DEF IsFile
  <2> QED BY <2>2, <2>3 DEF Powers
<1>2. ASSUME NEW rc, NEW rsp, Returns(t, rc, rsp)
      PROVE  th'[t].at = "returned" /\ th'[t].rc = rc /\ th'[t].rsp = rsp
  BY <1>0, <1>2 DEF Returns, Fields
<1>3. CASE th[t].at = "data"
  <2>1. DataFinds(t)
    BY <1>3 DEF CtSteps, At, InitConnects, InitPublishes, InitFills, InitLocks, InitOfFreed, CloseBegins,
                CloseFrees, ClosePasses, CloseFreesTwice, CloseEnds, DataFindsFreed, Dispatches,
                DispatchesFreed, HandlerAnswers, ResetNotes, ResetNotesFreed
  <2>2. Returns(t, "INVALID", None) \/ \E n : Moves(t, [th[t] EXCEPT !.at = "dispatch", !.node = n])
    BY <2>1 DEF DataFinds
  <2>3. ASSUME NEW n, Moves(t, [th[t] EXCEPT !.at = "dispatch", !.node = n])
        PROVE  th'[t].at = "dispatch"
    BY <1>0, <2>3 DEF Fields
  <2>4. th'[t].at = "dispatch" \/ (th'[t].at = "returned" /\ th'[t].rc = "INVALID")
    BY <1>2, <2>2, <2>3
  <2> QED BY <1>3, <2>4
<1>4. CASE th[t].at = "dispatch"
  <2>1. Dispatches(t)
    BY <1>4 DEF CtSteps, At, InitConnects, InitPublishes, InitFills, InitLocks, InitOfFreed, CloseBegins,
                CloseFrees, ClosePasses, CloseFreesTwice, CloseEnds, DataFinds, DataFindsFreed,
                DispatchesFreed, HandlerAnswers, ResetNotes, ResetNotesFreed
  <2>2. \/ th[t].op = "power down" /\ \E rc, rsp : Returns(t, rc, rsp)
        \/ Moves(t, [th[t] EXCEPT !.at = "asks"])
    BY <1>1, <2>1 DEF Dispatches, Powers
  <2>3. ASSUME Moves(t, [th[t] EXCEPT !.at = "asks"])
        PROVE  th'[t].at = "asks"
    BY <1>0, <2>3 DEF Fields
  <2>4. th'[t].at = "asks" \/ (th'[t].at = "returned" /\ th[t].op = "power down")
    BY <1>2, <2>2, <2>3
  <2> QED BY <1>4, <2>4
<1>5. CASE th[t].at = "asks"
  <2>1. HandlerAnswers(t)
    BY <1>5 DEF CtSteps, At, InitConnects, InitPublishes, InitFills, InitLocks, InitOfFreed, CloseBegins,
                CloseFrees, ClosePasses, CloseFreesTwice, CloseEnds, DataFinds, DataFindsFreed,
                Dispatches, DispatchesFreed, ResetNotes, ResetNotesFreed
  <2> DEFINE noted == [number |-> resets + 1, kind |-> card[node[th[t].node].reader]]
  <2>2. \/ Returns(t, "INVALID", None)
        \/ th[t].op = "power down" /\ \E rc, rsp : Returns(t, rc, rsp)
        \/ /\ th[t].op = "power up" /\ resets' = resets + 1
           /\ Moves(t, [th[t] EXCEPT !.at = "note", !.rsp = noted])
    <3>1. th[t].op = "power up" => th[t].cmd.ins # "status" /\ th[t].cmd.ins # "protocol"
      BY <1>1
    <3> QED BY <1>1, <2>1, <3>1 DEF HandlerAnswers, Powers
  <2>3. noted.number = resets + 1
    OBVIOUS
  <2> HIDE DEF noted
  <2>4. ASSUME resets' = resets + 1, Moves(t, [th[t] EXCEPT !.at = "note", !.rsp = noted])
        PROVE  th'[t].at = "note" /\ th'[t].rsp.number = resets' /\ resets' # resets
    <3>1. th'[t] = [th[t] EXCEPT !.at = "note", !.rsp = noted]
      BY <1>0, <2>4
    <3> QED BY <1>0, <2>3, <2>4, <3>1 DEF Fields
  <2>5. \/ th'[t].at = "returned" /\ th'[t].rc = "INVALID"
        \/ th'[t].at = "returned" /\ th[t].op = "power down"
        \/ /\ th'[t].at = "note" /\ th[t].op = "power up" /\ th'[t].rsp.number = resets'
           /\ resets' # resets
    BY <1>2, <2>2, <2>4
  <2> QED BY <1>5, <2>5
<1>6. CASE th[t].at = "note"
  <2>1. ResetNotes(t)
    BY <1>6 DEF CtSteps, At, InitConnects, InitPublishes, InitFills, InitLocks, InitOfFreed, CloseBegins,
                CloseFrees, ClosePasses, CloseFreesTwice, CloseEnds, DataFinds, DataFindsFreed,
                Dispatches, DispatchesFreed, HandlerAnswers, ResetNotesFreed
  <2>2. UNCHANGED resets /\ \E rsp : /\ Returns(t, "OK", rsp)
                                     /\ th[t].cmd.want = "atr" => rsp.data = <<th[t].rsp.number>>
    BY <2>1 DEF ResetNotes
  <2> QED BY <1>1, <1>2, <1>6, <2>2
<1> QED BY <1>3, <1>4, <1>5, <1>6

-------------------------------------------------------------------------------
(* The ATR of a channel.  A power action keeps the channel's mutex from its    *)
(* start to its end, so that no other comes between a reset and its ATR.       *)

\* Thread t has its channel's mutex: not for the commands of applications.
Holds(t) == \/ th[t].at = "locked"
            \/ th[t].op \in Powers \cup {"create", "protocol"} /\ th[t].at # "enter"

PowerPlaces == {"data", "dispatch", "asks", "note", "returned"}

ThreadInv(t) ==
  /\ th[t].op \in DriverOps => Program(t) = Pcscd /\ th[t].ctn \in Ctns
  /\ th[t].at \in {"enter", "locked"} => th[t].op \in Locking
  /\ th[t].op \in Powers =>
       \/ th[t].at \in {"enter", "locked"}
       \/ th[t].at \in PowerPlaces /\ th[t].cmd = Command(th[t].op)
  /\ Holds(t) => mutex[th[t].ctn] = t
  /\ th[t].op = "power up" =>
       /\ th[t].at = "note" => th[t].rsp.number = newest[th[t].ctn]
       /\ th[t].at = "returned" /\ th[t].rc = "OK" => th[t].rsp.data = <<newest[th[t].ctn]>>

\* Thread t has an ATR that its channel's context does not hold yet.
HasAtr(t) == th[t].op = "power up" /\ (th[t].at = "note" \/ (th[t].at = "returned" /\ th[t].rc = "OK"))

ChannelInv(c) ==
  context[c] # None => context[c] = newest[c] \/ \E t \in Threads : th[t].ctn = c /\ HasAtr(t)

PcscInv == /\ ThreadTypes /\ \A t \in Threads : ThreadInv(t)
           /\ \A c \in Ctns : ChannelInv(c)

\* What another thread does with its own channel, or with one that nobody has, leaves a
\* thread's channel alone.
LEMMA OthersStay ==
  ASSUME PcscAssumption, NEW u \in Threads, ThreadInv(u), th'[u] = th[u], NEW t, t # u,
         \A c \in Ctns : \/ mutex[c] \in {None, t}
                         \/ mutex'[c] = mutex[c] /\ newest'[c] = newest[c]
  PROVE  ThreadInv(u)'
<1>1. Holds(u) => /\ mutex'[th[u].ctn] = mutex[th[u].ctn] /\ newest'[th[u].ctn] = newest[th[u].ctn]
  <2>1. Holds(u) => th[u].ctn \in Ctns /\ mutex[th[u].ctn] = u /\ u # None
    BY DEF ThreadInv, Holds, DriverOps, Locking, PcscAssumption
  <2> QED BY <2>1
<1>2. th[u].op = "power up" /\ th[u].at \in {"note", "returned"} => Holds(u)
  BY DEF Holds, Powers
<1>3. UNCHANGED <<th[u].op, th[u].at, th[u].ctn, th[u].cmd, th[u].rsp, th[u].rc>>
  OBVIOUS
<1>4. Holds(u)' <=> Holds(u)
  BY <1>3 DEF Holds
<1> QED BY <1>1, <1>2, <1>3, <1>4 DEF ThreadInv

\* Channels that a thread does not touch stay as they are.
LEMMA ChannelsStay ==
  ASSUME PcscInv, NEW t \in Threads, NEW c \in Ctns,
         context'[c] = context[c], newest'[c] = newest[c],
         \A u \in Threads \ {t} : th'[u] = th[u],
         HasAtr(t) => HasAtr(t)' /\ th'[t].ctn = th[t].ctn
  PROVE  ChannelInv(c)'
<1>1. \A u \in Threads \ {t} : HasAtr(u)' <=> HasAtr(u)
  BY DEF HasAtr
<1>2. \A u \in Threads : HasAtr(u) => HasAtr(u)' /\ th'[u].ctn = th[u].ctn
  BY <1>1
<1> QED BY <1>2 DEF PcscInv, ChannelInv

\* A step of one thread that keeps what holds of its own call keeps it of all.
LEMMA OneThread ==
  ASSUME PcscAssumption, PcscInv, NEW t \in Threads, ThreadInv(t)',
         \A u \in Threads \ {t} : th'[u] = th[u],
         \A c \in Ctns : \/ mutex[c] \in {None, t}
                         \/ mutex'[c] = mutex[c] /\ newest'[c] = newest[c]
  PROVE  \A u \in Threads : ThreadInv(u)'
BY OthersStay DEF PcscInv

\* A thread that is in no call has nothing to keep.
LEMMA IdleInv ==
  ASSUME PcscAssumption, NEW t, th'[t] = Idle
  PROVE  ThreadInv(t)' /\ ~HasAtr(t)' /\ DOMAIN th'[t] = Fields
<1>1. th'[t].op = None /\ th'[t].at = "idle" /\ DOMAIN th'[t] = Fields
  BY DEF Idle, Fields
<1>2. None \notin DriverOps /\ None # "power up"
  BY DEF PcscAssumption, DriverOps, Locking, Powers
<1> QED BY <1>1, <1>2 DEF ThreadInv, HasAtr, Holds, DriverOps, Locking

\* With its program, a channel ends.
LEMMA EndKeepsPcsc ==
  ASSUME PcscAssumption, PcscInv, NEW p \in Programs, Ends(p), Gone(p)
  PROVE  PcscInv'
<1>1. ThreadTypes
  BY DEF PcscInv
<1>2. /\ th' = [t \in Threads |-> IF Program(t) = p THEN Idle ELSE th[t]]
      /\ alive' = [alive EXCEPT ![p] = FALSE] /\ UNCHANGED resets
  BY DEF Ends
<1>3. ThreadTypes'
  <2>1. \A t \in Threads : DOMAIN th'[t] = Fields
    BY <1>1, <1>2 DEF ThreadTypes, Idle, Fields
  <2>2. DOMAIN context' = Ctns /\ DOMAIN mutex' = Ctns /\ DOMAIN newest' = Ctns
    BY <1>1 DEF ThreadTypes, Gone
  <2> QED BY <1>1, <1>2, <2>1, <2>2 DEF ThreadTypes
<1>4. ASSUME NEW t \in Threads, Program(t) = p
      PROVE  ThreadInv(t)' /\ ~HasAtr(t)'
  BY <1>2, <1>4, IdleInv
<1>5. CASE p = Pcscd
  <2>1. ASSUME NEW t \in Threads, Program(t) # p
        PROVE  ThreadInv(t)'
    <3>1. th'[t] = th[t]
      BY <1>2, <2>1
    <3>2. th[t].op \notin DriverOps /\ th[t].at \notin {"enter", "locked"}
      BY <1>5, <2>1 DEF PcscInv, ThreadInv, DriverOps
    <3> QED BY <3>1, <3>2 DEF ThreadInv, Holds, DriverOps, Locking, Powers
  <2>2. \A c \in Ctns : ChannelInv(c)'
    BY <1>5 DEF Gone, ChannelInv
  <2> QED BY <1>3, <1>4, <2>1, <2>2 DEF PcscInv
<1>6. CASE p # Pcscd
  <2>1. UNCHANGED <<context, mutex, newest>>
    BY <1>6 DEF Gone
  <2>2. ASSUME NEW t \in Threads, Program(t) # p
        PROVE  ThreadInv(t)' /\ (HasAtr(t) => HasAtr(t)' /\ th'[t].ctn = th[t].ctn)
    <3>1. th'[t] = th[t]
      BY <1>2, <2>2
    <3> QED BY <2>1, <3>1 DEF PcscInv, ThreadInv, Holds, HasAtr
  <2>3. \A t \in Threads : HasAtr(t) => Program(t) # p
    BY <1>6 DEF HasAtr, PcscInv, ThreadInv, DriverOps, Locking, Powers
  <2>4. \A c \in Ctns : ChannelInv(c)'
    BY <2>1, <2>2, <2>3 DEF PcscInv, ChannelInv
  <2> QED BY <1>3, <1>4, <2>2, <2>4 DEF PcscInv
<1> QED BY <1>5, <1>6

\* A step of one thread in which nobody's channel has a new ATR.
LEMMA NoNewAtr ==
  ASSUME PcscAssumption, PcscInv, NEW t \in Threads,
         DOMAIN th' = Threads, DOMAIN th'[t] = Fields, \A u \in Threads \ {t} : th'[u] = th[u],
         UNCHANGED <<alive, context, newest>>, resets' \in Nat, DOMAIN mutex' = Ctns,
         ThreadInv(t)', ~HasAtr(t) \/ (HasAtr(t)' /\ th'[t].ctn = th[t].ctn),
         \A c \in Ctns : mutex[c] \in {None, t} \/ mutex'[c] = mutex[c]
  PROVE  PcscInv'
<1>1. ThreadTypes'
  BY DEF PcscInv, ThreadTypes
<1>2. \A u \in Threads : ThreadInv(u)'
  BY OneThread
<1>3. \A c \in Ctns : ChannelInv(c)'
  BY ChannelsStay
<1> QED BY <1>1, <1>2, <1>3 DEF PcscInv

\* pcscd calls the driver, or another program the library.
LEMMA CalledKeepsPcsc ==
  ASSUME PcscAssumption, PcscInv, NEW t \in Threads, DriverCalled(t) \/ LibraryCalled(t)
  PROVE  PcscInv'
<1>1. ThreadTypes /\ th[t].op = None /\ UNCHANGED <<alive, resets, context, mutex, newest>>
  BY DEF PcscInv, DriverCalled, LibraryCalled, Calls, Free
<1>2. \E call : /\ Moves(t, call) /\ DOMAIN call = Fields
                /\ \/ /\ call.op \in DriverOps /\ Program(t) = Pcscd /\ call.ctn \in Ctns
                      /\ call.at = "enter" => call.op \in Locking
                      /\ call.at \in {"enter", "close", "status"}
                      /\ call.at # "enter" => call.op \notin Locking
                   \/ call.op \in LibraryOps /\ call.at \in {"init", "close", "data"}
  <2>1. CASE DriverCalled(t)
    <3>1. PICK op \in DriverOps, c \in Ctns, r \in Readers : \E cmd :
            Calls(t, [Idle EXCEPT !.op = op, !.ctn = c, !.reader = r, !.cmd = cmd,
                                  !.at = CASE op = "close channel" -> "close"
                                           [] op = "presence" -> "status"
                                           [] OTHER -> "enter"])
      BY <2>1 DEF DriverCalled
    <3>6. PICK cmd :
            Calls(t, [Idle EXCEPT !.op = op, !.ctn = c, !.reader = r, !.cmd = cmd,
                                  !.at = CASE op = "close channel" -> "close"
                                           [] op = "presence" -> "status"
                                           [] OTHER -> "enter"])
      BY <3>1
    <3> DEFINE place == CASE op = "close channel" -> "close"
                          [] op = "presence" -> "status"
                          [] OTHER -> "enter"
    <3>2. /\ place \in {"enter", "close", "status"}
          /\ place = "enter" <=> op \in Locking
      BY DEF DriverOps, Locking, Powers
    <3> HIDE DEF place
    <3>3. PICK call : call = [Idle EXCEPT !.op = op, !.ctn = c, !.reader = r, !.cmd = cmd, !.at = place]
      OBVIOUS
    <3>4. DOMAIN call = Fields /\ call.op = op /\ call.ctn = c /\ call.at = place
      BY <3>3 DEF Idle, Fields
    <3>5. Moves(t, call) /\ Program(t) = Pcscd
      BY <2>1, <3>6, <3>3 DEF Calls, place, DriverCalled
    <3> QED BY <3>2, <3>4, <3>5
  <2>2. CASE LibraryCalled(t)
    <3>1. PICK c, r, cmd :
            \/ Moves(t, [Idle EXCEPT !.op = "init", !.ctn = c, !.reader = r, !.at = "init"])
            \/ Moves(t, [Idle EXCEPT !.op = "close", !.ctn = c, !.at = "close"])
            \/ Moves(t, [Idle EXCEPT !.op = "data", !.ctn = c, !.cmd = cmd, !.at = "data"])
      BY <2>2 DEF LibraryCalled, Calls
    <3>2. ASSUME NEW call,
                 \/ call = [Idle EXCEPT !.op = "init", !.ctn = c, !.reader = r, !.at = "init"]
                 \/ call = [Idle EXCEPT !.op = "close", !.ctn = c, !.at = "close"]
                 \/ call = [Idle EXCEPT !.op = "data", !.ctn = c, !.cmd = cmd, !.at = "data"]
          PROVE  DOMAIN call = Fields /\ call.op \in LibraryOps /\ call.at \in {"init", "close", "data"}
      BY <3>2 DEF Idle, Fields, LibraryOps
    <3> QED BY <3>1, <3>2
  <2> QED BY <2>1, <2>2
<1>3. PICK call : /\ Moves(t, call) /\ DOMAIN call = Fields
                  /\ \/ /\ call.op \in DriverOps /\ Program(t) = Pcscd /\ call.ctn \in Ctns
                        /\ call.at = "enter" => call.op \in Locking
                        /\ call.at \in {"enter", "close", "status"}
                        /\ call.at # "enter" => call.op \notin Locking
                     \/ call.op \in LibraryOps /\ call.at \in {"init", "close", "data"}
  BY <1>2
<1>4. th'[t] = call /\ DOMAIN th' = Threads /\ \A u \in Threads \ {t} : th'[u] = th[u]
  BY <1>1, <1>3, MovesTo
<1>5. ThreadInv(t)' /\ ~HasAtr(t)
  <2>1. ~HasAtr(t)
    BY <1>1 DEF HasAtr, PcscAssumption, DriverOps, Locking, Powers
  <2>2. CASE th'[t].op \in DriverOps
    BY <1>3, <1>4, <2>1, <2>2 DEF ThreadInv, Holds, DriverOps, Locking, Powers, LibraryOps
  <2>3. CASE th'[t].op \notin DriverOps
    BY <1>3, <1>4, <2>1, <2>3 DEF ThreadInv, Holds, DriverOps, Locking, Powers, LibraryOps
  <2> QED BY <2>1, <2>2, <2>3
<1>6. DOMAIN mutex' = Ctns /\ resets' \in Nat
  BY <1>1 DEF ThreadTypes
<1> QED BY <1>1, <1>3, <1>4, <1>5, <1>6, NoNewAtr

\* The driver's own steps, up to the library and from there.
LEMMA DriverKeepsPcsc ==
  ASSUME PcscAssumption, PcscInv, NEW t \in Threads,
         \/ Takes(t) \/ Absent(t) \/ Present(t) \/ PresenceAsks(t) \/ FinishesUnlocked(t)
         \/ LibraryReturns(t)
  PROVE  PcscInv'
<1>0. /\ ThreadTypes /\ ThreadInv(t) /\ DOMAIN th[t] = Fields /\ DOMAIN mutex = Ctns
      /\ UNCHANGED <<alive, resets, context, newest>> /\ resets' \in Nat
      /\ \A call : Moves(t, call) => /\ th'[t] = call /\ DOMAIN th' = Threads
                                     /\ \A u \in Threads \ {t} : th'[u] = th[u]
  BY MovesTo DEF PcscInv, ThreadTypes, DriverUnchanged, Takes, Absent, Present, PresenceAsks,
                 FinishesUnlocked, LibraryReturns
<1>1. ASSUME Moves(t, Idle), ~HasAtr(t),
             \/ mutex' = mutex
             \/ Holds(t) /\ mutex' = [mutex EXCEPT ![Ctn(t)] = None]
      PROVE  PcscInv'
  <2>1. ThreadInv(t)' /\ DOMAIN th'[t] = Fields
    BY <1>0, <1>1, IdleInv
  <2>2. \A c \in Ctns : mutex[c] \in {None, t} \/ mutex'[c] = mutex[c]
    BY <1>0, <1>1 DEF ThreadInv, Ctn
  <2>3. DOMAIN mutex' = Ctns
    BY <1>0, <1>1
  <2> QED BY <1>0, <1>1, <2>1, <2>2, <2>3, NoNewAtr
<1>2. ASSUME NEW place, th[t].at # "note", th[t].at # "returned",
             Moves(t, [th[t] EXCEPT !.at = place])
      PROVE  /\ th'[t].op = th[t].op /\ th'[t].ctn = th[t].ctn /\ th'[t].at = place
             /\ DOMAIN th'[t] = Fields /\ ~HasAtr(t)
  <2>1. th'[t] = [th[t] EXCEPT !.at = place]
    BY <1>0, <1>2
  <2> QED BY <1>0, <1>2, <2>1 DEF Fields, HasAtr
<1>9. ASSUME NEW place, NEW cmd, th[t].at # "note", th[t].at # "returned",
             Moves(t, [th[t] EXCEPT !.at = place, !.cmd = cmd])
      PROVE  /\ th'[t].op = th[t].op /\ th'[t].ctn = th[t].ctn /\ th'[t].at = place
             /\ th'[t].cmd = cmd /\ DOMAIN th'[t] = Fields /\ ~HasAtr(t)
  <2>1. th'[t] = [th[t] EXCEPT !.at = place, !.cmd = cmd]
    BY <1>0, <1>9
  <2> QED BY <1>0, <1>9, <2>1 DEF Fields, HasAtr
<1>3. CASE Takes(t)
  <2>1. /\ th[t].at = "enter" /\ mutex[Ctn(t)] = None /\ mutex' = [mutex EXCEPT ![Ctn(t)] = t]
        /\ Moves(t, [th[t] EXCEPT !.at = "locked"])
    BY <1>3 DEF Takes, At
  <2>2. /\ th'[t].op = th[t].op /\ th'[t].ctn = th[t].ctn /\ th'[t].at = "locked"
        /\ DOMAIN th'[t] = Fields /\ ~HasAtr(t)
    BY <1>2, <2>1
  <2>3. Ctn(t) \in Ctns /\ th[t].op \in Locking
    BY <1>0, <2>1 DEF ThreadInv, DriverOps, Ctn
  <2>4. mutex'[Ctn(t)] = t /\ DOMAIN mutex' = Ctns
    BY <1>0, <2>1, <2>3
  <2>5. ThreadInv(t)'
    BY <1>0, <2>2, <2>3, <2>4 DEF ThreadInv, Holds, Ctn
  <2>6. \A c \in Ctns : mutex[c] \in {None, t} \/ mutex'[c] = mutex[c]
    BY <1>0, <2>1
  <2> QED BY <1>0, <2>1, <2>2, <2>4, <2>5, <2>6, NoNewAtr
<1>4. CASE Absent(t)
  <2>1. th[t].at = "locked" /\ Holds(t) /\ ~HasAtr(t)
    BY <1>4 DEF Absent, At, Holds, HasAtr
  <2>2. CASE th[t].op = "create"
    <3>1. Moves(t, [th[t] EXCEPT !.at = "init"]) /\ mutex' = mutex
      BY <1>4, <2>2 DEF Absent
    <3>2. /\ th'[t].op = th[t].op /\ th'[t].ctn = th[t].ctn /\ th'[t].at = "init"
          /\ DOMAIN th'[t] = Fields
      BY <1>2, <2>1, <3>1
    <3>3. ThreadInv(t)'
      BY <1>0, <2>1, <2>2, <3>1, <3>2 DEF ThreadInv, Holds, Powers
    <3> QED BY <1>0, <2>1, <3>1, <3>2, <3>3, NoNewAtr
  <2>3. CASE th[t].op # "create"
    BY <1>1, <1>4, <2>1, <2>3 DEF Absent, Leaves
  <2> QED BY <2>2, <2>3
<1>5. CASE Present(t)
  <2>1. th[t].at = "locked" /\ Holds(t) /\ ~HasAtr(t)
    BY <1>5 DEF Present, At, Holds, HasAtr
  <2>2. mutex[Ctn(t)] = t /\ Ctn(t) \in Ctns /\ th[t].op \in Locking
    BY <1>0, <2>1 DEF ThreadInv, DriverOps, Ctn
  <2>3. CASE th[t].op \in {"create", "capabilities"}
    BY <1>1, <1>5, <2>1, <2>3 DEF Present, Leaves
  <2>4. CASE th[t].op \in {"transmit", "control"}
    <3>1. /\ Moves(t, [th[t] EXCEPT !.at = "data", !.cmd = th[t].cmd])
          /\ mutex' = [mutex EXCEPT ![Ctn(t)] = None]
      BY <1>5, <2>4 DEF Present, Asks
    <3>2. /\ th'[t].op = th[t].op /\ th'[t].ctn = th[t].ctn /\ th'[t].at = "data"
          /\ DOMAIN th'[t] = Fields
      BY <1>9, <2>1, <3>1
    <3>3. ThreadInv(t)'
      BY <1>0, <2>4, <3>2 DEF ThreadInv, Holds, Powers
    <3>4. DOMAIN mutex' = Ctns /\ \A c \in Ctns : mutex[c] \in {None, t} \/ mutex'[c] = mutex[c]
      BY <1>0, <2>2, <3>1
    <3> QED BY <1>0, <2>1, <3>1, <3>2, <3>3, <3>4, NoNewAtr
  <2>5. CASE th[t].op \notin {"create", "capabilities", "transmit", "control"}
    <3>1. Moves(t, [th[t] EXCEPT !.at = "data", !.cmd = Command(th[t].op)]) /\ mutex' = mutex
      BY <1>5, <2>5 DEF Present, Asks
    <3>2. /\ th'[t].op = th[t].op /\ th'[t].ctn = th[t].ctn /\ th'[t].at = "data"
          /\ th'[t].cmd = Command(th[t].op) /\ DOMAIN th'[t] = Fields
      BY <1>9, <2>1, <3>1
    <3>3. ThreadInv(t)'
      <4>1. mutex'[th'[t].ctn] = t
        BY <2>2, <3>1, <3>2 DEF Ctn
      <4> QED BY <1>0, <3>2, <4>1 DEF ThreadInv, Holds, PowerPlaces
    <3> QED BY <1>0, <2>1, <3>1, <3>2, <3>3, NoNewAtr
  <2> QED BY <2>3, <2>4, <2>5
<1>6. CASE PresenceAsks(t)
  <2>1. /\ th[t].at = "status" /\ mutex' = mutex
        /\ Moves(t, [th[t] EXCEPT !.at = "data", !.cmd = Command("presence")])
    BY <1>6 DEF PresenceAsks, Asks, At
  <2>2. /\ th'[t].op = th[t].op /\ th'[t].ctn = th[t].ctn /\ th'[t].at = "data"
        /\ DOMAIN th'[t] = Fields /\ ~HasAtr(t)
    BY <1>9, <2>1
  <2>3. th[t].op \notin Powers
    BY <1>0, <2>1 DEF ThreadInv, PowerPlaces
  <2>4. ThreadInv(t)'
    BY <1>0, <2>1, <2>2, <2>3 DEF ThreadInv, Holds, Powers
  <2> QED BY <1>0, <2>1, <2>2, <2>4, NoNewAtr
<1>7. CASE FinishesUnlocked(t)
  <2>1. Moves(t, Idle) /\ mutex' = mutex /\ ~HasAtr(t)
    BY <1>7 DEF FinishesUnlocked, HasAtr
  <2> QED BY <1>1, <2>1
<1>8. CASE LibraryReturns(t)
  <2>1. Moves(t, Idle) /\ mutex' = mutex /\ Program(t) # Pcscd
    BY <1>8 DEF LibraryReturns
  <2>2. ~HasAtr(t)
    BY <1>0, <2>1 DEF HasAtr, ThreadInv, DriverOps, Locking, Powers
  <2> QED BY <1>1, <2>1, <2>2
<1> QED BY <1>3, <1>4, <1>5, <1>6, <1>7, <1>8

\* A power action, and what else has the mutex, comes to its end.
LEMMA FinishesKeepsPcsc ==
  ASSUME PcscAssumption, PcscInv, NEW t \in Threads, Finishes(t)
  PROVE  PcscInv'
<1>0. PICK c : c = th[t].ctn
  OBVIOUS
<1>1. /\ ThreadTypes /\ ThreadInv(t) /\ UNCHANGED <<alive, resets>> /\ Moves(t, Idle)
      /\ th[t].at = "returned" /\ th[t].op \in {"create", "protocol"} \cup Powers
      /\ context' = [context EXCEPT ![c] = Became(t)] /\ mutex' = [mutex EXCEPT ![c] = None]
      /\ newest' = IF th[t].op \in {"create", "power down"} /\ th[t].rc = "OK"
                   THEN [newest EXCEPT ![c] = 0] ELSE newest
  BY <1>0 DEF PcscInv, Finishes, At, Leaves, DriverUnchanged, Ctn
<1>2. Holds(t) /\ c \in Ctns /\ mutex[c] = t
  BY <1>0, <1>1 DEF ThreadInv, Holds, DriverOps, Locking, Powers
<1>3. th'[t] = Idle /\ DOMAIN th' = Threads /\ \A u \in Threads \ {t} : th'[u] = th[u]
  BY <1>1, MovesTo
<1>4. ThreadInv(t)' /\ ~HasAtr(t)' /\ DOMAIN th'[t] = Fields
  BY <1>3, IdleInv
<1>5. DOMAIN context = Ctns /\ DOMAIN mutex = Ctns /\ DOMAIN newest = Ctns
  BY <1>1 DEF ThreadTypes
<1>6. /\ DOMAIN context' = Ctns /\ DOMAIN mutex' = Ctns /\ DOMAIN newest' = Ctns
      /\ \A d \in Ctns \ {c} : /\ context'[d] = context[d] /\ mutex'[d] = mutex[d]
                              /\ newest'[d] = newest[d]
  BY <1>1, <1>5
<1>7. \A u \in Threads : ThreadInv(u)'
  <2>1. \A d \in Ctns : \/ mutex[d] \in {None, t}
                        \/ mutex'[d] = mutex[d] /\ newest'[d] = newest[d]
    BY <1>2, <1>6
  <2> QED BY <1>3, <1>4, <2>1, OneThread
<1>8. ASSUME NEW d \in Ctns, d # c
      PROVE  ChannelInv(d)'
  <2>1. context'[d] = context[d] /\ newest'[d] = newest[d]
    BY <1>6, <1>8
  <2>2. \A u \in Threads : HasAtr(u) /\ th[u].ctn = d => HasAtr(u)' /\ th'[u].ctn = d
    BY <1>0, <1>3, <1>8 DEF HasAtr
  <2>3. ChannelInv(d)
    BY DEF PcscInv
  <2> QED BY <2>1, <2>2, <2>3 DEF ChannelInv
<1>9. /\ context'[c] = Became(t)
      /\ newest'[c] = IF th[t].op \in {"create", "power down"} /\ th[t].rc = "OK"
                      THEN 0 ELSE newest[c]
  BY <1>1, <1>2, <1>5
<1>10. ~HasAtr(t) => context[c] = None \/ context[c] = newest[c]
  <2>1. ASSUME NEW u \in Threads, th[u].ctn = c, HasAtr(u)
        PROVE  u = t
    <3>1. Holds(u) /\ ThreadInv(u)
      BY <2>1 DEF HasAtr, Holds, Powers, PcscInv
    <3> QED BY <2>1, <3>1, <1>2 DEF ThreadInv
  <2>2. ChannelInv(c)
    BY <1>2 DEF PcscInv
  <2> QED BY <2>1, <2>2 DEF ChannelInv
<1>11. context'[c] = None \/ context'[c] = newest'[c]
  <2>2. CASE th[t].rc # "OK"
    <3>1. Became(t) = context[c]
      BY <1>0, <2>2, Zenon DEF Became, Ctn
    <3>3. ~HasAtr(t)
      BY <1>1, <2>2 DEF HasAtr
    <3>2. newest'[c] = newest[c]
      BY <1>9, <2>2
    <3> QED BY <1>9, <1>10, <3>1, <3>2, <3>3
  <2>3. CASE th[t].rc = "OK" /\ th[t].op \in {"create", "power down"}
    BY <1>9, <2>3 DEF Became
  <2>4. CASE th[t].rc = "OK" /\ th[t].op = "protocol"
    <3>1. Became(t) = context[c] /\ ~HasAtr(t)
      BY <1>0, <2>4 DEF Became, HasAtr, Ctn
    <3> QED BY <1>9, <1>10, <2>4, <3>1
  <2>5. CASE th[t].rc = "OK" /\ th[t].op = "power up"
    <3>1. th[t].rsp.data = <<newest[c]>>
      BY <1>0, <1>1, <2>5 DEF ThreadInv
    <3>2. PICK d : d = th[t].rsp.data
      OBVIOUS
    <3>3. d # <<>> /\ d[1] = newest[c]
      BY <3>1, <3>2
    <3>4. Became(t) = newest[c]
      BY <2>5, <3>2, <3>3 DEF Became
    <3> QED BY <1>9, <2>5, <3>4
  <2> QED BY <1>1, <2>2, <2>3, <2>4, <2>5 DEF Powers
<1>12. ThreadTypes'
  BY <1>1, <1>3, <1>4, <1>6 DEF ThreadTypes
<1>13. ASSUME NEW d \in Ctns
       PROVE  ChannelInv(d)'
  BY <1>8, <1>11, <1>13 DEF ChannelInv
<1> QED BY <1>7, <1>12, <1>13 DEF PcscInv

\* IFDHCloseChannel waits for the mutex.
LEMMA ForgetsKeepsPcsc ==
  ASSUME PcscAssumption, PcscInv, NEW t \in Threads, Forgets(t)
  PROVE  PcscInv'
<1>1. /\ ThreadTypes /\ UNCHANGED <<alive, resets, mutex, newest>> /\ Moves(t, Idle)
      /\ th[t].op = "close channel" /\ context' = [context EXCEPT ![th[t].ctn] = None]
  BY DEF PcscInv, Forgets, At, DriverUnchanged, Ctn
<1>2. th'[t] = Idle /\ DOMAIN th' = Threads /\ \A u \in Threads \ {t} : th'[u] = th[u]
  BY <1>1, MovesTo
<1>3. ThreadInv(t)' /\ ~HasAtr(t)' /\ DOMAIN th'[t] = Fields
  BY <1>2, IdleInv
<1>4. ThreadTypes'
  <2>1. DOMAIN context' = Ctns /\ DOMAIN mutex' = Ctns /\ DOMAIN newest' = Ctns
    BY <1>1 DEF ThreadTypes
  <2> QED BY <1>1, <1>2, <1>3, <2>1 DEF ThreadTypes
<1>5. \A u \in Threads : ThreadInv(u)'
  BY <1>1, <1>2, <1>3, OneThread
<1>6. ~HasAtr(t)
  BY <1>1 DEF HasAtr
<1>7. ASSUME NEW d \in Ctns
      PROVE  ChannelInv(d)'
  <2>1. CASE d = th[t].ctn
    <3>1. context'[d] = None
      BY <1>1, <2>1 DEF ThreadTypes
    <3> QED BY <3>1 DEF ChannelInv
  <2>2. CASE d # th[t].ctn
    <3>1. context'[d] = context[d] /\ newest'[d] = newest[d]
      BY <1>1, <2>2 DEF ThreadTypes
    <3> QED BY <1>2, <1>6, <3>1, ChannelsStay
  <2> QED BY <2>1, <2>2
<1> QED BY <1>4, <1>5, <1>7 DEF PcscInv

\* A step of the library that its program survives.
LEMMA GoesOnKeepsPcsc ==
  ASSUME PcscAssumption, PcscInv, NEW t \in Threads, CtSteps(t), ~Undefined(t),
         newest' = IF th[t].op \in Powers /\ resets' # resets
                   THEN [newest EXCEPT ![Ctn(t)] = resets'] ELSE newest,
         UNCHANGED <<context, mutex>>
  PROVE  PcscInv'
<1>1. /\ ThreadTypes /\ ThreadInv(t) /\ GoesOn(t) /\ UNCHANGED alive /\ resets' \in Nat
      /\ DOMAIN mutex' = Ctns /\ DOMAIN newest = Ctns
  BY LibraryGoesOn DEF PcscInv, ThreadTypes
<1>2. /\ DOMAIN th' = Threads /\ \A u \in Threads \ {t} : th'[u] = th[u]
      /\ DOMAIN th'[t] = Fields
      /\ th'[t].op = th[t].op /\ th'[t].ctn = th[t].ctn /\ th'[t].cmd = th[t].cmd
      /\ th[t].at \notin {"enter", "locked", "returned"} /\ th'[t].at \notin {"enter", "locked"}
  BY <1>1 DEF GoesOn, Places
<1>3. CASE th[t].op \notin Powers
  <2>1. newest' = newest /\ ~HasAtr(t)
    BY <1>3 DEF HasAtr, Powers
  <2>2. ThreadInv(t)'
    BY <1>1, <1>2, <1>3, <2>1 DEF ThreadInv, Holds, Powers
  <2> QED BY <1>1, <1>2, <2>1, <2>2, NoNewAtr
<1>4. CASE th[t].op \in Powers
  <2>1. PICK c : c = th[t].ctn
    OBVIOUS
  <2>2. th[t].cmd = Command(th[t].op) /\ th[t].at \in {"data", "dispatch", "asks", "note"}
    BY <1>1, <1>2, <1>4 DEF ThreadInv, PowerPlaces
  <2>3. /\ th'[t].at \in {"dispatch", "asks", "note", "returned"}
        /\ th'[t].at = "note" =>
              th[t].op = "power up" /\ resets' # resets /\ th'[t].rsp.number = resets'
        /\ th[t].at = "note" => th'[t].at = "returned" /\ th'[t].rc = "OK" /\ UNCHANGED resets
        /\ th[t].op = "power up" /\ th'[t].at = "returned" /\ th'[t].rc = "OK" =>
              th[t].at = "note" /\ th'[t].rsp.data = <<th[t].rsp.number>> /\ UNCHANGED resets
    BY <1>1, <1>4, <2>2, PowerStep
  <2>4. Holds(t) /\ c \in Ctns /\ mutex[c] = t
    BY <1>1, <1>2, <1>4, <2>1 DEF Holds, ThreadInv, DriverOps, Locking
  <2>5. /\ DOMAIN newest' = Ctns /\ \A d \in Ctns \ {c} : newest'[d] = newest[d]
        /\ resets' # resets => newest'[c] = resets'
        /\ resets' = resets => newest'[c] = newest[c]
    BY <1>1, <1>4, <2>1, <2>4 DEF Ctn
  <2>6. HasAtr(t) => HasAtr(t)'
    BY <1>2, <2>3 DEF HasAtr
  <2>7. ThreadInv(t)'
    <3>1. th[t].op = "power up" =>
            /\ th'[t].at = "note" => th'[t].rsp.number = newest'[c]
            /\ th'[t].at = "returned" /\ th'[t].rc = "OK" => th'[t].rsp.data = <<newest'[c]>>
      BY <1>1, <2>1, <2>3, <2>5 DEF ThreadInv
    <3> QED BY <1>1, <1>2, <1>4, <2>1, <2>2, <2>3, <2>4, <3>1 DEF ThreadInv, PowerPlaces
  <2>8. \A u \in Threads : ThreadInv(u)'
    <3>1. \A d \in Ctns : \/ mutex[d] \in {None, t}
                          \/ mutex'[d] = mutex[d] /\ newest'[d] = newest[d]
      BY <2>4, <2>5
    <3> QED BY <1>2, <2>7, <3>1, OneThread
  <2>9. ASSUME NEW d \in Ctns
        PROVE  ChannelInv(d)'
    <3>1. CASE newest'[d] = newest[d]
      BY <1>2, <2>6, <3>1, ChannelsStay
    <3>2. CASE newest'[d] # newest[d]
      <4>1. d = c /\ resets' # resets
        BY <2>5, <3>2
      <4>2. th[t].op = "power up" /\ th'[t].at = "note"
        BY <1>1, <1>4, <2>3, <4>1, LibraryGoesOn
      <4>3. HasAtr(t)' /\ th'[t].ctn = d
        BY <1>2, <2>1, <4>1, <4>2 DEF HasAtr
      <4> QED BY <4>3 DEF ChannelInv
    <3> QED BY <3>1, <3>2
  <2>10. ThreadTypes'
    BY <1>1, <1>2, <2>5 DEF ThreadTypes
  <2> QED BY <2>8, <2>9, <2>10 DEF PcscInv
<1> QED BY <1>3, <1>4

\* The library goes on, or ends with its program.
LEMMA LibraryKeepsPcsc ==
  ASSUME ProgramsAssumption, PcscAssumption, PcscInv, NEW t \in Threads, Library(t)
  PROVE  PcscInv'
<1>1. /\ CtSteps(t)
      /\ IF alive'[Program(t)]
         THEN /\ newest' = IF th[t].op \in Powers /\ resets' # resets
                           THEN [newest EXCEPT ![Ctn(t)] = resets'] ELSE newest
              /\ UNCHANGED <<context, mutex>>
         ELSE Gone(Program(t))
  BY DEF Library
<1>2. ThreadTypes /\ Program(t) \in Programs /\ alive[Program(t)]
  BY <1>1 DEF PcscInv, ProgramsAssumption, Program, CtSteps, At, InitConnects, InitPublishes,
              InitFills, InitLocks, InitOfFreed, CloseBegins, CloseFrees, ClosePasses, CloseFreesTwice,
              CloseEnds, DataFinds, DataFindsFreed, Dispatches, DispatchesFreed, HandlerAnswers,
              ResetNotes, ResetNotesFreed
<1>3. CASE Undefined(t)
  <2>1. Ends(Program(t))
    BY <1>3 DEF Undefined
  <2>2. ~alive'[Program(t)]
    BY <1>2, <2>1 DEF Ends, ThreadTypes
  <2> QED BY <1>1, <1>2, <2>1, <2>2, EndKeepsPcsc
<1>4. CASE ~Undefined(t)
  <2>1. alive' = alive
    BY <1>1, <1>2, <1>4, LibraryGoesOn
  <2> QED BY <1>1, <1>2, <1>4, <2>1, GoesOnKeepsPcsc
<1> QED BY <1>3, <1>4

LEMMA InitPcsc == Init /\ PcscAssumption => PcscInv
<1> SUFFICES ASSUME Init, PcscAssumption PROVE PcscInv
  OBVIOUS
<1>1. /\ th = [t \in Threads |-> Idle] /\ alive = [p \in Programs |-> TRUE] /\ resets = 0
      /\ context = [c \in Ctns |-> None] /\ mutex = [c \in Ctns |-> None]
      /\ newest = [c \in Ctns |-> 0]
  BY DEF Init, CtInit
<1>2. ThreadTypes
  BY <1>1 DEF ThreadTypes, Idle, Fields
<1>3. ASSUME NEW t \in Threads PROVE ThreadInv(t)
  <2>1. th[t].op = None /\ th[t].at = "idle"
    BY <1>1 DEF Idle
  <2>2. None \notin DriverOps /\ None # "power up"
    BY DEF PcscAssumption, DriverOps, Locking, Powers
  <2> QED BY <2>1, <2>2 DEF ThreadInv, Holds, DriverOps, Locking
<1>4. \A c \in Ctns : ChannelInv(c)
  BY <1>1 DEF ChannelInv
<1> QED BY <1>2, <1>3, <1>4 DEF PcscInv

\* Nothing that the invariant speaks of changes.
LEMMA StillPcsc ==
  ASSUME PcscInv, UNCHANGED <<th, context, mutex, newest>>, alive' \in [Programs -> BOOLEAN],
         resets' = resets
  PROVE  PcscInv'
<1>1. ThreadTypes'
  BY DEF PcscInv, ThreadTypes
<1>2. \A t \in Threads : ThreadInv(t)' /\ (HasAtr(t)' <=> HasAtr(t))
  BY DEF PcscInv, ThreadInv, Holds, HasAtr
<1>3. \A c \in Ctns : ChannelInv(c)'
  BY <1>2 DEF PcscInv, ChannelInv
<1> QED BY <1>1, <1>2, <1>3 DEF PcscInv

LEMMA NextPcsc ==
  ASSUME ProgramsAssumption, PcscAssumption, PcscInv, [Next]_vars
  PROVE  PcscInv'
<1>0. ThreadTypes
  BY DEF PcscInv
<1>1. ASSUME NEW t \in Threads, DriverCalled(t) \/ LibraryCalled(t)
      PROVE  PcscInv'
  BY <1>1, CalledKeepsPcsc
<1>2. ASSUME NEW t \in Threads, Steps(t)
      PROVE  PcscInv'
  <2>1. CASE \/ Takes(t) \/ Absent(t) \/ Present(t) \/ PresenceAsks(t) \/ FinishesUnlocked(t)
             \/ LibraryReturns(t)
    BY <2>1, DriverKeepsPcsc
  <2>2. CASE NoContext(t) /\ Gone(Program(t))
    BY <2>2, EndKeepsPcsc DEF NoContext, Undefined, Program, ProgramsAssumption
  <2> QED BY <1>2, <2>1, <2>2, FinishesKeepsPcsc, ForgetsKeepsPcsc, LibraryKeepsPcsc DEF Steps
<1>3. ASSUME NEW p \in Programs, Exits(p)
      PROVE  PcscInv'
  BY <1>3, EndKeepsPcsc DEF Exits
<1>4. ASSUME NEW p \in Programs, Starts(p)
      PROVE  PcscInv'
  BY <1>0, <1>4, StillPcsc DEF Starts, ThreadTypes
<1>5. CASE CardChanges \/ UNCHANGED vars
  BY <1>0, <1>5, StillPcsc DEF CardChanges, ThreadTypes, vars, ctVars
<1> QED BY <1>1, <1>2, <1>3, <1>4, <1>5 DEF Next, Progress

\* The ATR that PC/SC is told is that of the last power action of the channel, for any number
\* of threads of pcscd and any other programs (IFDHPowerICC, IFDHCreateChannel and
\* IFDHCloseChannel under the channel's mutex).
THEOREM PcscAtrOfLastPower == Spec => []AtrOfLastPower
<1>1. PcscInv => AtrOfLastPower
  <2> SUFFICES ASSUME PcscInv, NEW c \in Ctns, mutex[c] = None, context[c] # None
               PROVE  context[c] = newest[c]
    BY DEF AtrOfLastPower
  <2>1. ASSUME NEW t \in Threads, th[t].ctn = c, HasAtr(t)
        PROVE  FALSE
    <3>1. Holds(t) /\ ThreadInv(t)
      BY <2>1 DEF HasAtr, Holds, Powers, PcscInv
    <3>2. t = None
      BY <2>1, <3>1 DEF ThreadInv
    <3> QED BY <3>2, PcscAssumption DEF PcscAssumption
  <2> QED BY <2>1 DEF PcscInv, ChannelInv
<1> QED BY <1>1, InitPcsc, NextPcsc, PcscAssumption, ProgramsAssumption, PTL DEF Spec

-----------------------------------------------------------------------------
(***************************************************************************)
(* The terminals of the CT-API library: the one that uses a terminal has   *)
(* its reader's exclusive lock.                                            *)
(***************************************************************************)

TerminalFields == {"program", "ctn", "reader", "sync", "cwd", "next", "live"}

Tables ==
  /\ DOMAIN head = Programs /\ DOMAIN owner = Readers
  /\ DOMAIN node = Nodes /\ \A n \in Nodes : DOMAIN node[n] = TerminalFields

\* A program's list has its own terminals.
Memory(p) ==
  /\ head[p] \in Mine(p) \cup {0}
  /\ \A n \in Mine(p) : node[n].next \in Mine(p) \cup {0} /\ node[n].reader \in Readers

CallInv(t) ==
  /\ th[t].op = None => th[t].at = "idle"
  /\ th[t].at = "init" => th[t].op \in {"create", "init"}
  /\ th[t].op \in {"create", "init"} => th[t].reader \in Readers
  /\ {th[t].cur, th[t].prev, th[t].node} \subseteq Mine(Program(t)) \cup {0}
  /\ th[t].at \in {"publish", "fill", "lock", "dispatch", "asks", "note"} => th[t].node \in Mine(Program(t))

Locked(n) == owner[node[n].reader] = n

\* Thread t opens terminal n, which has no lock yet, or has failed to, and removes it:
\* then it is the first of the list.
Opening(t, n) ==
  /\ th[t].node = n /\ node[n].ctn = th[t].ctn
  /\ \/ th[t].at = "publish"
     \/ th[t].at \in {"fill", "lock", "close"} /\ head[Program(t)] = n
     \/ th[t].at = "unlink" /\ th[t].cur = n

\* What holds of the only thread of a program.
AloneInv(t) ==
  /\ \A n \in Mine(Program(t)) : node[n].live => Locked(n) \/ Opening(t, n)
  /\ th[t].at \in {"dispatch", "asks"} => node[th[t].node].live /\ Locked(th[t].node)

AppsInv ==
  /\ Tables /\ \A p \in Programs : Memory(p)
  /\ \A t \in Threads : CallInv(t) /\ (Alone(Program(t)) => AloneInv(t))

\* What a step of program p may do to the lists and locks of the others: nothing.
Within(p) ==
  /\ \A q \in Programs \ {p} : head'[q] = head[q]
  /\ \A n \in Nodes : /\ node[n].program \notin {p, None} => node'[n] = node[n]
                      /\ node[n].program \in {p, None} => node'[n].program \in {p, None}
  /\ \A r \in Readers : owner'[r] = owner[r] \/ owner[r] = 0 \/ owner[r] \in Mine(p)

-------------------------------------------------------------------------------
\* The terminals of other programs stay.
LEMMA MineStays ==
  ASSUME ProgramsAssumption, NEW p \in Programs, Within(p), NEW q \in Programs, q # p
  PROVE  Mine(q)' = Mine(q) /\ \A n \in Mine(q) : node'[n] = node[n]
<1>1. q # None
  BY DEF ProgramsAssumption
<1>2. \A n \in Nodes : node'[n].program = q <=> node[n].program = q
  BY <1>1 DEF Within
<1> QED BY <1>1, <1>2 DEF Mine, Within

\* What a thread of another program has, it keeps.
LEMMA OthersKeep ==
  ASSUME ProgramsAssumption, AppsInv, NEW p \in Programs, Within(p),
         NEW u \in Threads, Program(u) # p, th'[u] = th[u]
  PROVE  CallInv(u)' /\ (Alone(Program(u)) => AloneInv(u)')
<1>1. PICK q \in Programs : q = Program(u)
  BY DEF ProgramsAssumption, Program
<1>2. Mine(q)' = Mine(q) /\ (\A n \in Mine(q) : node'[n] = node[n]) /\ head'[q] = head[q]
  BY <1>1, MineStays DEF Within
<1>3. CallInv(u)'
  <2>1. CallInv(u)
    BY DEF AppsInv
  <2>2. Mine(Program(u))' = Mine(Program(u))
    BY <1>1, <1>2
  <2> QED BY <2>1, <2>2 DEF CallInv
<1>4. ASSUME Alone(q)
      PROVE  AloneInv(u)'
  <2>1. AloneInv(u) /\ CallInv(u) /\ Memory(q)
    BY <1>1, <1>4 DEF AppsInv
  <2>2. ASSUME NEW n \in Mine(q), Locked(n)
        PROVE  Locked(n)'
    <3>1. n \notin Mine(p) /\ n # 0 /\ node[n].reader \in Readers
      BY <1>1, <2>1, <2>2 DEF Mine, Memory, Nodes
    <3>2. owner'[node[n].reader] = n
      BY <2>2, <3>1 DEF Within, Locked
    <3> QED BY <1>2, <2>2, <3>2 DEF Locked
  <2>3. ASSUME NEW n \in Mine(q), Opening(u, n)
        PROVE  Opening(u, n)'
    BY <1>1, <1>2, <2>3 DEF Opening
  <2>4. \A n \in Mine(Program(u))' : node'[n].live => Locked(n)' \/ Opening(u, n)'
    BY <1>1, <1>2, <2>1, <2>2, <2>3 DEF AloneInv
  <2>5. th[u].at \in {"dispatch", "asks"} => th[u].node \in Mine(q)
    BY <1>1, <2>1 DEF CallInv
  <2>6. ASSUME th[u].at \in {"dispatch", "asks"}
        PROVE  node'[th'[u].node].live /\ owner'[node'[th'[u].node].reader] = th'[u].node
    <3>1. PICK n \in Mine(q) : n = th[u].node
      BY <2>5, <2>6
    <3>2. node[n].live /\ Locked(n)
      BY <2>1, <2>6, <3>1 DEF AloneInv
    <3> QED BY <1>2, <2>2, <3>1, <3>2 DEF Locked
  <2> QED BY <2>4, <2>6 DEF AloneInv, Locked
<1> QED BY <1>1, <1>3, <1>4

\* A step of program p keeps the invariant when it does for p.
LEMMA OneProgram ==
  ASSUME ProgramsAssumption, AppsInv, NEW p \in Programs, Within(p), Tables', Memory(p)',
         \A t \in Threads : Program(t) # p => th'[t] = th[t],
         \A t \in Threads : Program(t) = p => CallInv(t)' /\ (Alone(p) => AloneInv(t)')
  PROVE  AppsInv'
<1>1. ASSUME NEW q \in Programs, q # p
      PROVE  Memory(q)'
  <2>1. Mine(q)' = Mine(q) /\ (\A n \in Mine(q) : node'[n] = node[n]) /\ head'[q] = head[q]
    BY <1>1, MineStays DEF Within
  <2>2. Memory(q)
    BY DEF AppsInv
  <2> QED BY <2>1, <2>2 DEF Memory
<1>2. \A t \in Threads : CallInv(t)' /\ (Alone(Program(t)) => AloneInv(t)')
  BY OthersKeep
<1> QED BY <1>1, <1>2 DEF AppsInv

\* A step of one thread, in which its program's memory grows if at all.
LEMMA OneThreadOfProgram ==
  ASSUME ProgramsAssumption, AppsInv, NEW t \in Threads, Within(Program(t)), Tables',
         Memory(Program(t))', Mine(Program(t)) \subseteq Mine(Program(t))',
         \A u \in Threads \ {t} : th'[u] = th[u],
         CallInv(t)', Alone(Program(t)) => AloneInv(t)'
  PROVE  AppsInv'
<1>1. Program(t) \in Programs
  BY DEF ProgramsAssumption, Program
<1>2. ASSUME NEW u \in Threads, Program(u) = Program(t), u # t
      PROVE  CallInv(u)' /\ ~Alone(Program(t))
  <2>1. CallInv(u) /\ th'[u] = th[u]
    BY <1>2 DEF AppsInv
  <2>2. CallInv(u)'
    BY <1>2, <2>1 DEF CallInv
  <2> QED BY <1>2, <2>2 DEF Alone
<1> QED BY <1>1, <1>2, OneProgram

\* A step of one thread that leaves the terminals and the locks alone.
LEMMA OnlyTheCall ==
  ASSUME ProgramsAssumption, AppsInv, NEW t \in Threads, UNCHANGED <<head, node, owner>>,
         \A u \in Threads \ {t} : th'[u] = th[u],
         CallInv(t)', Alone(Program(t)) => AloneInv(t)'
  PROVE  AppsInv'
<1>1. Within(Program(t)) /\ Tables'
  BY DEF Within, AppsInv, Tables
<1>2. Mine(Program(t))' = Mine(Program(t))
  BY DEF Mine
<1>3. Memory(Program(t))'
  BY <1>2 DEF AppsInv, Memory, ProgramsAssumption, Program
<1> QED BY <1>1, <1>2, <1>3, OneThreadOfProgram

\* Neither before the step nor after it the thread's place has to do with locks.
LEMMA AwayFromLocks ==
  ASSUME ProgramsAssumption, AppsInv, NEW t \in Threads, UNCHANGED <<head, node, owner>>,
         \A u \in Threads \ {t} : th'[u] = th[u], CallInv(t)',
         \A n \in Mine(Program(t)) : ~Opening(t, n), th'[t].at \notin {"dispatch", "asks"}
  PROVE  AppsInv'
<1>1. Mine(Program(t))' = Mine(Program(t))
  BY DEF Mine
<1>2. Alone(Program(t)) => AloneInv(t)'
  <2> SUFFICES ASSUME AloneInv(t) PROVE AloneInv(t)'
    BY DEF AppsInv
  <2>1. \A n \in Mine(Program(t)) : node[n].live => Locked(n)
    BY DEF AloneInv
  <2> QED BY <1>1, <2>1 DEF AloneInv, Locked
<1> QED BY <1>2, OnlyTheCall

-------------------------------------------------------------------------------
\* The step of a thread that is in no call of the library, or in none any more.
LEMMA IdleKeepsApps ==
  ASSUME ProgramsAssumption, PcscAssumption, AppsInv, NEW t \in Threads,
         UNCHANGED <<head, node, owner>>, \A u \in Threads \ {t} : th'[u] = th[u],
         th[t].at \notin {"publish", "fill", "lock", "close", "unlink"}, th'[t] = Idle
  PROVE  AppsInv'
<1>1. /\ th'[t].op = None /\ th'[t].at = "idle" /\ th'[t].cur = 0 /\ th'[t].prev = 0
      /\ th'[t].node = 0
  BY DEF Idle
<1>2. None \notin {"create", "init"}
  BY DEF PcscAssumption, DriverOps, Locking, LibraryOps
<1>3. CallInv(t)'
  BY <1>1, <1>2 DEF CallInv
<1>4. \A n \in Mine(Program(t)) : ~Opening(t, n)
  BY DEF Opening
<1> QED BY <1>1, <1>3, <1>4, AwayFromLocks

\* A step that changes a thread's place, in its call, from one to another that have nothing
\* to do with terminals.
LEMMA PlaceKeepsApps ==
  ASSUME ProgramsAssumption, AppsInv, NEW t \in Threads,
         UNCHANGED <<head, node, owner>>, \A u \in Threads \ {t} : th'[u] = th[u],
         th[t].at \notin {"publish", "fill", "lock", "close", "unlink"}, th[t].op # None,
         th'[t].op = th[t].op, th'[t].reader = th[t].reader,
         th'[t].cur = th[t].cur, th'[t].prev = th[t].prev, th'[t].node = th[t].node,
         th'[t].at \notin {"init", "publish", "fill", "lock", "dispatch", "asks", "note"}
         \/ (th'[t].at = "init" /\ th[t].op = "create")
  PROVE  AppsInv'
<1>1. Mine(Program(t))' = Mine(Program(t)) /\ CallInv(t)
  BY DEF Mine, AppsInv
<1>2. CallInv(t)'
  BY <1>1 DEF CallInv
<1>3. \A n \in Mine(Program(t)) : ~Opening(t, n)
  BY DEF Opening
<1> QED BY <1>2, <1>3, AwayFromLocks

LEMMA CalledKeepsApps ==
  ASSUME ProgramsAssumption, PcscAssumption, ThreadTypes, AppsInv, NEW t \in Threads,
         DriverCalled(t) \/ LibraryCalled(t)
  PROVE  AppsInv'
<1>1. th[t].op = None /\ UNCHANGED <<head, node, owner>> /\ th[t].at = "idle"
  BY DEF DriverCalled, LibraryCalled, Calls, Free, AppsInv, CallInv
<1>2. \E call : /\ Moves(t, call) /\ call.cur = 0 /\ call.prev = 0 /\ call.node = 0
                /\ call.op \in DriverOps \cup LibraryOps
                /\ call.at \notin {"publish", "fill", "lock", "dispatch", "asks", "note"}
                /\ call.at = "init" => call.op = "init"
                /\ call.op \in {"create", "init"} => call.reader \in Readers
  <2>1. CASE DriverCalled(t)
    <3>1. PICK op \in DriverOps, c \in Ctns, r \in Readers : \E cmd :
            Calls(t, [Idle EXCEPT !.op = op, !.ctn = c, !.reader = r, !.cmd = cmd,
                                  !.at = CASE op = "close channel" -> "close"
                                           [] op = "presence" -> "status"
                                           [] OTHER -> "enter"])
      BY <2>1 DEF DriverCalled
    <3>6. PICK cmd :
            Calls(t, [Idle EXCEPT !.op = op, !.ctn = c, !.reader = r, !.cmd = cmd,
                                  !.at = CASE op = "close channel" -> "close"
                                           [] op = "presence" -> "status"
                                           [] OTHER -> "enter"])
      BY <3>1
    <3> DEFINE place == CASE op = "close channel" -> "close"
                          [] op = "presence" -> "status"
                          [] OTHER -> "enter"
    <3>2. place \in {"enter", "close", "status"}
      OBVIOUS
    <3> HIDE DEF place
    <3>3. PICK call : call = [Idle EXCEPT !.op = op, !.ctn = c, !.reader = r, !.cmd = cmd, !.at = place]
      OBVIOUS
    <3>4. /\ call.op = op /\ call.at = place /\ call.reader = r
          /\ call.cur = 0 /\ call.prev = 0 /\ call.node = 0
      BY <3>3 DEF Idle
    <3>5. Moves(t, call)
      BY <3>6, <3>3 DEF Calls, place
    <3> QED BY <3>2, <3>4, <3>5
  <2>2. CASE LibraryCalled(t)
    <3>1. PICK c \in LibraryCtns, r \in Readers :
            \/ Moves(t, [Idle EXCEPT !.op = "init", !.ctn = c, !.reader = r, !.at = "init"])
            \/ Moves(t, [Idle EXCEPT !.op = "close", !.ctn = c, !.at = "close"])
            \/ \E cmd : Moves(t, [Idle EXCEPT !.op = "data", !.ctn = c, !.cmd = cmd, !.at = "data"])
      BY <2>2 DEF LibraryCalled, Calls
    <3>2. ASSUME NEW call, NEW cmd,
                 \/ call = [Idle EXCEPT !.op = "init", !.ctn = c, !.reader = r, !.at = "init"]
                 \/ call = [Idle EXCEPT !.op = "close", !.ctn = c, !.at = "close"]
                 \/ call = [Idle EXCEPT !.op = "data", !.ctn = c, !.cmd = cmd, !.at = "data"]
          PROVE  /\ call.cur = 0 /\ call.prev = 0 /\ call.node = 0
                 /\ \/ call.op = "init" /\ call.at = "init" /\ call.reader = r
                    \/ call.op \in {"close", "data"} /\ call.at \in {"close", "data"}
      BY <3>2 DEF Idle
    <3> QED BY <3>1, <3>2 DEF LibraryOps
  <2> QED BY <2>1, <2>2
<1>3. PICK call : /\ Moves(t, call) /\ call.cur = 0 /\ call.prev = 0 /\ call.node = 0
                  /\ call.op \in DriverOps \cup LibraryOps
                  /\ call.at \notin {"publish", "fill", "lock", "dispatch", "asks", "note"}
                  /\ call.at = "init" => call.op = "init"
                  /\ call.op \in {"create", "init"} => call.reader \in Readers
  BY <1>2
<1>4. th'[t] = call /\ \A u \in Threads \ {t} : th'[u] = th[u]
  BY <1>3, MovesTo
<1>5. CallInv(t)'
  BY <1>3, <1>4, PcscAssumption DEF CallInv, PcscAssumption
<1>6. \A n \in Mine(Program(t)) : ~Opening(t, n)
  BY <1>1 DEF Opening
<1> QED BY <1>1, <1>3, <1>4, <1>5, <1>6, AwayFromLocks

\* The driver's own steps, and returns, do not touch the library.
LEMMA DriverKeepsApps ==
  ASSUME ProgramsAssumption, PcscAssumption, ThreadTypes, AppsInv, NEW t \in Threads,
         \/ Takes(t) \/ Absent(t) \/ Present(t) \/ PresenceAsks(t) \/ FinishesUnlocked(t)
         \/ Finishes(t) \/ Forgets(t) \/ LibraryReturns(t)
  PROVE  AppsInv'
<1>1. /\ UNCHANGED <<head, node, owner>> /\ DOMAIN th[t] = Fields
      /\ th[t].at \in {"enter", "locked", "status", "returned"} /\ th[t].op # None
      /\ \/ Moves(t, Idle)
         \/ Moves(t, [th[t] EXCEPT !.at = "locked"])
         \/ th[t].op = "create" /\ Moves(t, [th[t] EXCEPT !.at = "init"])
         \/ \E cmd : Moves(t, [th[t] EXCEPT !.at = "data", !.cmd = cmd])
  <2>1. th[t].op = None => th[t].at = "idle"
    BY DEF AppsInv, CallInv
  <2>2. CASE Takes(t)
    BY <2>1, <2>2 DEF Takes, At, DriverUnchanged, ThreadTypes
  <2>3. CASE Absent(t)
    BY <2>1, <2>3 DEF Absent, At, Leaves, DriverUnchanged, ThreadTypes
  <2>4. CASE Present(t)
    BY <2>1, <2>4 DEF Present, At, Leaves, Asks, DriverUnchanged, ThreadTypes
  <2>5. CASE PresenceAsks(t) \/ FinishesUnlocked(t) \/ Finishes(t) \/ Forgets(t) \/ LibraryReturns(t)
    BY <2>1, <2>5 DEF PresenceAsks, FinishesUnlocked, Finishes, Forgets, LibraryReturns, At,
                      Leaves, Asks, DriverUnchanged, ThreadTypes
  <2> QED BY <2>2, <2>3, <2>4, <2>5
<1>2. CASE Moves(t, Idle)
  BY <1>1, <1>2, MovesTo, IdleKeepsApps
<1>3. ASSUME NEW call, Moves(t, call),
             \/ call = [th[t] EXCEPT !.at = "locked"]
             \/ th[t].op = "create" /\ call = [th[t] EXCEPT !.at = "init"]
             \/ \E cmd : call = [th[t] EXCEPT !.at = "data", !.cmd = cmd]
      PROVE  AppsInv'
  <2>1. th'[t] = call /\ \A u \in Threads \ {t} : th'[u] = th[u]
    BY <1>3, MovesTo
  <2>2. /\ call.op = th[t].op /\ call.reader = th[t].reader
        /\ call.cur = th[t].cur /\ call.prev = th[t].prev /\ call.node = th[t].node
        /\ call.at \in {"locked", "data"} \/ (call.at = "init" /\ th[t].op = "create")
    BY <1>1, <1>3 DEF Fields
  <2> QED BY <1>1, <2>1, <2>2, PlaceKeepsApps
<1> QED BY <1>1, <1>2, <1>3

\* With its program a terminal ends, and its lock.
LEMMA EndKeepsApps ==
  ASSUME ProgramsAssumption, PcscAssumption, ThreadTypes, AppsInv, NEW p \in Programs, Ends(p)
  PROVE  AppsInv'
<1>1. /\ head' = [head EXCEPT ![p] = 0]
      /\ th' = [t \in Threads |-> IF Program(t) = p THEN Idle ELSE th[t]]
      /\ owner' = [r \in Readers |-> IF owner[r] \in Mine(p) THEN 0 ELSE owner[r]]
      /\ node' = [n \in Nodes |-> IF n \in Mine(p) THEN Unused ELSE node[n]]
  BY DEF Ends
<1>2. Unused.program = None /\ DOMAIN Unused = TerminalFields /\ p # None
  BY DEF Unused, TerminalFields, ProgramsAssumption
<1>3. Tables /\ Tables'
  BY <1>1, <1>2 DEF Tables, AppsInv
<1>4. Mine(p)' = {} /\ head'[p] = 0
  BY <1>1, <1>2, <1>3 DEF Mine, Tables
<1>5. Within(p)
  BY <1>1, <1>2, <1>3 DEF Within, Mine, Tables
<1>6. Memory(p)'
  BY <1>4 DEF Memory
<1>7. ASSUME NEW t \in Threads, Program(t) = p
      PROVE  CallInv(t)' /\ AloneInv(t)'
  <2>1. /\ th'[t].op = None /\ th'[t].at = "idle" /\ th'[t].cur = 0 /\ th'[t].prev = 0
        /\ th'[t].node = 0
    BY <1>1, <1>7 DEF Idle
  <2>2. None \notin {"create", "init"}
    BY DEF PcscAssumption, DriverOps, Locking, LibraryOps
  <2> QED BY <1>4, <1>7, <2>1, <2>2 DEF CallInv, AloneInv
<1>8. \A t \in Threads : Program(t) # p => th'[t] = th[t]
  BY <1>1
<1> QED BY <1>3, <1>5, <1>6, <1>7, <1>8, OneProgram

-------------------------------------------------------------------------------
(* The steps of the library *)

\* The thread is in the same call as before, and the others are where they were.
SameCall(t) ==
  /\ \A u \in Threads \ {t} : th'[u] = th[u]
  /\ th'[t].op = th[t].op /\ th'[t].ctn = th[t].ctn /\ th'[t].reader = th[t].reader

SamePlaces(t) == th'[t].cur = th[t].cur /\ th'[t].prev = th[t].prev /\ th'[t].node = th[t].node

\* The thread goes through the list.
LEMMA WalksOn ==
  ASSUME ThreadTypes, NEW t \in Threads, NEW a, NEW n, NEW m,
         Moves(t, [th[t] EXCEPT !.at = a, !.cur = n, !.prev = m])
  PROVE  /\ SameCall(t) /\ th'[t].at = a /\ th'[t].node = th[t].node
         /\ th'[t].cur = n /\ th'[t].prev = m
<1>1. PICK call : call = [th[t] EXCEPT !.at = a, !.cur = n, !.prev = m]
  OBVIOUS
<1>2. DOMAIN th[t] = Fields /\ Moves(t, call)
  BY <1>1 DEF ThreadTypes
<1>3. /\ call.op = th[t].op /\ call.ctn = th[t].ctn /\ call.reader = th[t].reader
      /\ call.cur = n /\ call.prev = m /\ call.node = th[t].node /\ call.at = a
  BY <1>1, <1>2 DEF Fields
<1>4. th'[t] = call /\ \A u \in Threads \ {t} : th'[u] = th[u]
  BY <1>2, MovesTo
<1> QED BY <1>3, <1>4 DEF SameCall

\* Where a step takes a thread in its call.
LEMMA MovedCall ==
  ASSUME ThreadTypes, NEW t \in Threads, NEW a, NEW n, NEW m
  PROVE  /\ Moves(t, [th[t] EXCEPT !.at = a]) => SameCall(t) /\ SamePlaces(t) /\ th'[t].at = a
         /\ Moves(t, [th[t] EXCEPT !.at = a, !.rc = n]) =>
              SameCall(t) /\ SamePlaces(t) /\ th'[t].at = a
         /\ Moves(t, [th[t] EXCEPT !.at = a, !.rsp = n]) =>
              SameCall(t) /\ SamePlaces(t) /\ th'[t].at = a
         /\ Moves(t, [th[t] EXCEPT !.at = a, !.node = n]) =>
              /\ SameCall(t) /\ th'[t].at = a /\ th'[t].node = n
              /\ th'[t].cur = th[t].cur /\ th'[t].prev = th[t].prev
         /\ Returns(t, n, m) => SameCall(t) /\ SamePlaces(t) /\ th'[t].at = "returned"
<1>1. DOMAIN th[t] = Fields /\ \A call : Moves(t, call) => /\ th'[t] = call
                                                          /\ \A u \in Threads \ {t} : th'[u] = th[u]
  BY MovesTo DEF ThreadTypes
<1>2. ASSUME NEW call, Moves(t, call), call.op = th[t].op, call.ctn = th[t].ctn,
             call.reader = th[t].reader
      PROVE  SameCall(t) /\ th'[t] = call
  BY <1>1, <1>2 DEF SameCall
<1>3. ASSUME NEW call, call = [th[t] EXCEPT !.at = a] \/ call = [th[t] EXCEPT !.at = a, !.rc = n]
                       \/ call = [th[t] EXCEPT !.at = a, !.rsp = n], Moves(t, call)
      PROVE  SameCall(t) /\ SamePlaces(t) /\ th'[t].at = a
  <2>1. /\ call.op = th[t].op /\ call.ctn = th[t].ctn /\ call.reader = th[t].reader
        /\ call.cur = th[t].cur /\ call.prev = th[t].prev /\ call.node = th[t].node /\ call.at = a
    BY <1>1, <1>3 DEF Fields
  <2> QED BY <1>2, <1>3, <2>1 DEF SamePlaces
<1>4. ASSUME NEW call, call = [th[t] EXCEPT !.at = a, !.node = n], Moves(t, call)
      PROVE  /\ SameCall(t) /\ th'[t].at = a /\ th'[t].node = n
             /\ th'[t].cur = th[t].cur /\ th'[t].prev = th[t].prev
  <2>1. /\ call.op = th[t].op /\ call.ctn = th[t].ctn /\ call.reader = th[t].reader
        /\ call.cur = th[t].cur /\ call.prev = th[t].prev /\ call.node = n /\ call.at = a
    BY <1>1, <1>4 DEF Fields
  <2> QED BY <1>2, <1>4, <2>1
<1>6. ASSUME Returns(t, n, m)
      PROVE  SameCall(t) /\ SamePlaces(t) /\ th'[t].at = "returned"
  <2>1. PICK call : call = [th[t] EXCEPT !.at = "returned", !.rc = n, !.rsp = m]
    OBVIOUS
  <2>2. /\ call.op = th[t].op /\ call.ctn = th[t].ctn /\ call.reader = th[t].reader
        /\ call.cur = th[t].cur /\ call.prev = th[t].prev /\ call.node = th[t].node
        /\ call.at = "returned"
    BY <1>1, <2>1 DEF Fields
  <2>3. Moves(t, call)
    BY <1>6, <2>1 DEF Returns
  <2> QED BY <1>2, <2>2, <2>3 DEF SamePlaces
<1> QED BY <1>3, <1>4, <1>6

\* The steps that only the thread's call remembers.
LEMMA QuietKeepsApps ==
  ASSUME ProgramsAssumption, ThreadTypes, AppsInv, NEW t \in Threads,
         CloseBegins(t) \/ ClosePasses(t) \/ CloseEnds(t) \/ DataFinds(t) \/ HandlerAnswers(t)
  PROVE  AppsInv'
<1>0. /\ UNCHANGED <<head, node, owner>> /\ CallInv(t) /\ Memory(Program(t))
      /\ Mine(Program(t))' = Mine(Program(t)) /\ 0 \notin Mine(Program(t))
  <2>1. UNCHANGED <<head, node, owner>>
    BY DEF CloseBegins, ClosePasses, CloseEnds, DataFinds, HandlerAnswers
  <2>2. Program(t) \in Programs
    BY DEF ProgramsAssumption, Program
  <2>3. 0 \notin Mine(Program(t)) /\ Mine(Program(t))' = Mine(Program(t))
    BY <2>1 DEF Mine, Nodes
  <2> QED BY <2>1, <2>2, <2>3 DEF AppsInv
<1>1. CASE CloseBegins(t)
  <2>1. /\ SameCall(t) /\ th[t].at = "close" /\ th'[t].at = "unlink" /\ th'[t].node = th[t].node
        /\ th'[t].cur = head[Program(t)] /\ th'[t].prev = 0
    <3>1. /\ th[t].at = "close"
          /\ Moves(t, [th[t] EXCEPT !.at = "unlink", !.cur = head[Program(t)], !.prev = 0])
      BY <1>1 DEF CloseBegins, At
    <3>2. PICK n : n = head[Program(t)]
      OBVIOUS
    <3>3. Moves(t, [th[t] EXCEPT !.at = "unlink", !.cur = n, !.prev = 0])
      BY <3>1, <3>2
    <3>4. /\ SameCall(t) /\ th'[t].at = "unlink" /\ th'[t].node = th[t].node
          /\ th'[t].cur = n /\ th'[t].prev = 0
      BY <3>3, WalksOn
    <3> QED BY <3>1, <3>2, <3>4
  <2>2. CallInv(t)'
    BY <1>0, <2>1 DEF CallInv, SameCall, Memory
  <2>3. ASSUME AloneInv(t)
        PROVE  AloneInv(t)'
    <3>1. \A n \in Mine(Program(t)) : Opening(t, n) => Opening(t, n)'
      BY <1>0, <2>1 DEF Opening, SameCall
    <3> QED BY <1>0, <2>1, <2>3, <3>1 DEF AloneInv, Locked
  <2> QED BY <1>0, <2>1, <2>2, <2>3, OnlyTheCall DEF SameCall, AppsInv
<1>2. CASE ClosePasses(t)
  <2>0. PICK n, m : n = th[t].cur /\ m = node[n].next
    OBVIOUS
  <2>1. /\ SameCall(t) /\ th[t].at = "unlink" /\ th'[t].at = "unlink" /\ th'[t].node = th[t].node
        /\ th'[t].cur = node[n].next /\ th'[t].prev = n
        /\ n \in Mine(Program(t)) /\ (~node[n].live \/ node[n].ctn # th[t].ctn)
    <3>1. /\ Moves(t, [th[t] EXCEPT !.cur = m, !.prev = n])
          /\ th[t].at = "unlink" /\ n # 0 /\ (~node[n].live \/ node[n].ctn # th[t].ctn)
      BY <1>2, <2>0 DEF ClosePasses, At
    <3>2. /\ SameCall(t) /\ th'[t].at = th[t].at /\ th'[t].node = th[t].node
          /\ th'[t].cur = m /\ th'[t].prev = n
      <4>1. PICK call : call = [th[t] EXCEPT !.cur = m, !.prev = n]
        OBVIOUS
      <4>2. DOMAIN th[t] = Fields /\ Moves(t, call)
        BY <3>1, <4>1 DEF ThreadTypes
      <4>3. /\ call.op = th[t].op /\ call.ctn = th[t].ctn /\ call.reader = th[t].reader
            /\ call.cur = m /\ call.prev = n /\ call.node = th[t].node /\ call.at = th[t].at
        BY <4>1, <4>2 DEF Fields
      <4>4. th'[t] = call /\ \A u \in Threads \ {t} : th'[u] = th[u]
        BY <4>2, MovesTo
      <4> QED BY <4>3, <4>4 DEF SameCall
    <3>3. n \in Mine(Program(t))
      BY <1>0, <2>0, <3>1 DEF CallInv
    <3> QED BY <2>0, <3>1, <3>2, <3>3
  <2>2. CallInv(t)'
    BY <1>0, <2>1 DEF CallInv, SameCall, Memory
  <2>3. ASSUME AloneInv(t)
        PROVE  AloneInv(t)'
    <3>1. \A q \in Mine(Program(t)) : node[q].live => ~Opening(t, q)
      BY <1>0, <2>0, <2>1 DEF Opening
    <3> QED BY <1>0, <2>1, <2>3, <3>1 DEF AloneInv, Locked
  <2> QED BY <1>0, <2>1, <2>2, <2>3, OnlyTheCall DEF SameCall, AppsInv
<1>3. CASE CloseEnds(t)
  <2>1. /\ th[t].cur = 0 /\ th[t].at = "unlink" /\ SameCall(t) /\ SamePlaces(t)
        /\ th'[t].at = "returned"
    BY <1>3, MovedCall DEF CloseEnds, At
  <2>2. CallInv(t)'
    BY <1>0, <2>1 DEF CallInv, SameCall, SamePlaces
  <2>3. \A n \in Mine(Program(t)) : ~Opening(t, n)
    BY <1>0, <2>1 DEF Opening
  <2> QED BY <1>0, <2>1, <2>2, <2>3, AwayFromLocks DEF SameCall
<1>4. CASE DataFinds(t)
  <2>1. th[t].at = "data" /\ \A n \in Mine(Program(t)) : ~Opening(t, n)
    BY <1>4 DEF DataFinds, At, Opening
  <2>2. PICK n : /\ n \in Mine(Program(t)) \cup {0} /\ (n # 0 => node[n].live)
                 /\ \/ Returns(t, "INVALID", None)
                    \/ n # 0 /\ Moves(t, [th[t] EXCEPT !.at = "dispatch", !.node = n])
    BY <1>4 DEF DataFinds, Found
  <2>3. CASE Returns(t, "INVALID", None)
    <3>1. SameCall(t) /\ SamePlaces(t) /\ th'[t].at = "returned"
      BY <2>3, MovedCall
    <3>2. CallInv(t)'
      BY <1>0, <2>1, <3>1 DEF CallInv, SameCall, SamePlaces
    <3> QED BY <1>0, <2>1, <3>1, <3>2, AwayFromLocks DEF SameCall
  <2>4. CASE n # 0 /\ Moves(t, [th[t] EXCEPT !.at = "dispatch", !.node = n])
    <3>1. /\ SameCall(t) /\ th'[t].at = "dispatch" /\ th'[t].node = n
          /\ th'[t].cur = th[t].cur /\ th'[t].prev = th[t].prev
      BY <2>4, MovedCall
    <3>4. n \in Mine(Program(t))
      BY <2>2, <2>4
    <3>2. CallInv(t)'
      <4>1. {th'[t].cur, th'[t].prev, th'[t].node} \subseteq Mine(Program(t))' \cup {0}
        BY <1>0, <3>1, <3>4 DEF CallInv
      <4>2. /\ th'[t].op # None /\ th'[t].node \in Mine(Program(t))'
            /\ th'[t].op \in {"create", "init"} => th'[t].reader \in Readers
        BY <1>0, <2>1, <3>1, <3>4 DEF CallInv, SameCall
      <4> QED BY <3>1, <4>1, <4>2 DEF CallInv
    <3>3. ASSUME AloneInv(t)
          PROVE  AloneInv(t)'
      BY <1>0, <2>1, <2>2, <2>4, <3>1, <3>3 DEF AloneInv, Locked
    <3> QED BY <1>0, <3>1, <3>2, <3>3, OnlyTheCall DEF SameCall, AppsInv
  <2> QED BY <2>2, <2>3, <2>4
<1>5. CASE HandlerAnswers(t)
  <2>1. th[t].at = "asks" /\ \A n \in Mine(Program(t)) : ~Opening(t, n)
    BY <1>5 DEF HandlerAnswers, At, Opening
  <2>2. \/ \E rc, rsp : Returns(t, rc, rsp)
        \/ \E rsp : Moves(t, [th[t] EXCEPT !.at = "note", !.rsp = rsp])
    BY <1>5 DEF HandlerAnswers
  <2>3. SameCall(t) /\ SamePlaces(t) /\ th'[t].at \in {"returned", "note"}
    BY <2>2, MovedCall
  <2>4. CallInv(t)'
    BY <1>0, <2>1, <2>3 DEF CallInv, SameCall, SamePlaces
  <2> QED BY <1>0, <2>1, <2>3, <2>4, AwayFromLocks DEF SameCall
<1> QED BY <1>1, <1>2, <1>3, <1>4, <1>5

\* A thread changes what a terminal it has found remembers of cards and files.
LEMMA TouchKeepsApps ==
  ASSUME ProgramsAssumption, ThreadTypes, AppsInv, NEW t \in Threads,
         Dispatches(t) \/ ResetNotes(t)
  PROVE  AppsInv'
<1>0. /\ UNCHANGED <<head, owner>> /\ CallInv(t) /\ Memory(Program(t)) /\ Tables
      /\ th[t].at \in {"dispatch", "note"} /\ Program(t) \in Programs
  BY DEF Dispatches, ResetNotes, AppsInv, At, ProgramsAssumption, Program
<1>1. PICK n : n = th[t].node
  OBVIOUS
<1>2. n \in Mine(Program(t)) /\ n \in Nodes
  BY <1>0, <1>1 DEF CallInv, Mine
<1>3. \/ node' = node
      \/ \E x : node' = [node EXCEPT ![n].cwd = x] \/ node' = [node EXCEPT ![n].sync = x]
  BY <1>1 DEF Dispatches, ResetNotes
<1>4. /\ DOMAIN node' = Nodes
      /\ \A m \in Nodes : /\ DOMAIN node'[m] = TerminalFields
                          /\ m # n => node'[m] = node[m]
                          /\ node'[m].program = node[m].program /\ node'[m].ctn = node[m].ctn
                          /\ node'[m].reader = node[m].reader /\ node'[m].next = node[m].next
                          /\ node'[m].live = node[m].live
  BY <1>0, <1>2, <1>3 DEF Tables, TerminalFields
<1>5. SameCall(t) /\ SamePlaces(t) /\ th'[t].at \in {"returned", "asks"}
      /\ (th'[t].at = "asks" => th[t].at = "dispatch")
  <2>1. CASE Dispatches(t)
    <3>1. \/ \E rc, rsp : Returns(t, rc, rsp)
          \/ Moves(t, [th[t] EXCEPT !.at = "asks"])
      BY <2>1 DEF Dispatches
    <3>2. SameCall(t) /\ SamePlaces(t) /\ th'[t].at \in {"returned", "asks"}
      BY <3>1, MovedCall
    <3> QED BY <2>1, <3>2 DEF Dispatches, At
  <2>2. CASE ResetNotes(t)
    <3>1. \E rc, rsp : Returns(t, rc, rsp)
      BY <2>2 DEF ResetNotes
    <3> QED BY <3>1, MovedCall
  <2> QED BY <2>1, <2>2
<1>6. Mine(Program(t))' = Mine(Program(t))
  BY <1>4 DEF Mine
<1>7. Within(Program(t)) /\ Tables'
  <2>1. \A m \in Nodes : node[m].program \notin {Program(t), None} => m # n
    BY <1>2 DEF Mine
  <2> QED BY <1>0, <1>4, <2>1 DEF Within, Tables
<1>8. Memory(Program(t))'
  BY <1>0, <1>4, <1>6 DEF Memory, Mine
<1>9. CallInv(t)'
  BY <1>0, <1>5, <1>6 DEF CallInv, SameCall, SamePlaces
<1>10. ASSUME AloneInv(t)
       PROVE  AloneInv(t)'
  <2>1. \A m \in Mine(Program(t)) : ~Opening(t, m)
    BY <1>0 DEF Opening
  <2>2. \A m \in Mine(Program(t)) : /\ Locked(m) => Locked(m)'
                                    /\ node'[m].live = node[m].live
    BY <1>0, <1>4 DEF Locked, Mine
  <2>3. th'[t].at \in {"dispatch", "asks"} => node[n].live /\ Locked(n)
    BY <1>1, <1>5, <1>10 DEF AloneInv
  <2>4. th'[t].at \in {"dispatch", "asks"} => node'[th'[t].node].live /\ owner'[node'[th'[t].node].reader] = th'[t].node
    BY <1>1, <1>2, <1>5, <2>2, <2>3 DEF SamePlaces, Locked
  <2> QED BY <1>6, <1>10, <2>1, <2>2, <2>4 DEF AloneInv, Locked
<1> QED BY <1>5, <1>6, <1>7, <1>8, <1>9, <1>10, OneThreadOfProgram DEF SameCall, AppsInv

\* A terminal is closed: no lock is needed for it any more.
LEMMA CloseFreesKeepsApps ==
  ASSUME ProgramsAssumption, ThreadTypes, AppsInv, NEW t \in Threads, CloseFrees(t)
  PROVE  AppsInv'
<1>0. /\ th' = th /\ owner' = owner /\ CallInv(t) /\ Memory(Program(t)) /\ Tables
      /\ th[t].at = "unlink" /\ Program(t) \in Programs
  BY DEF CloseFrees, AppsInv, At, ProgramsAssumption, Program
<1>1. PICK n, m, x : n = th[t].cur /\ m = th[t].prev /\ x = node[n].next
  OBVIOUS
<1>2. /\ n \in Mine(Program(t)) /\ n \in Nodes /\ x \in Mine(Program(t)) \cup {0}
      /\ m \in Mine(Program(t)) \cup {0}
  BY <1>0, <1>1 DEF CallInv, Mine, CloseFrees, Memory
<1>3. \/ /\ head' = [head EXCEPT ![Program(t)] = x]
         /\ node' = [node EXCEPT ![n].live = FALSE]
      \/ /\ m # 0 /\ head' = head
         /\ node' = [node EXCEPT ![n].live = FALSE, ![m].next = x]
  BY <1>1 DEF CloseFrees
<1>4. /\ DOMAIN node' = Nodes
      /\ \A q \in Nodes : /\ DOMAIN node'[q] = TerminalFields
                          /\ q \notin {n, m} => node'[q] = node[q]
                          /\ node'[q].program = node[q].program /\ node'[q].ctn = node[q].ctn
                          /\ node'[q].reader = node[q].reader /\ node'[q].next \in {node[q].next, x}
                          /\ node'[q].live => q # n /\ node[q].live
  <2>1. CASE node' = [node EXCEPT ![n].live = FALSE]
    BY <1>0, <1>2, <2>1 DEF Tables, TerminalFields
  <2>2. CASE m # 0 /\ node' = [node EXCEPT ![n].live = FALSE, ![m].next = x]
    <3>1. PICK f : f = [node EXCEPT ![n].live = FALSE]
      OBVIOUS
    <3>2. node' = [f EXCEPT ![m].next = x] /\ m \in Nodes
      BY <1>2, <2>2, <3>1 DEF Mine
    <3>3. /\ DOMAIN f = Nodes
          /\ \A q \in Nodes : /\ DOMAIN f[q] = TerminalFields
                              /\ q # n => f[q] = node[q]
                              /\ f[q].program = node[q].program /\ f[q].ctn = node[q].ctn
                              /\ f[q].reader = node[q].reader /\ f[q].next = node[q].next
                              /\ f[q].live => q # n /\ node[q].live
      BY <1>0, <1>2, <3>1 DEF Tables, TerminalFields
    <3> QED BY <1>2, <3>2, <3>3 DEF TerminalFields
  <2> QED BY <1>3, <2>1, <2>2
<1>5. DOMAIN head' = Programs /\ \A q \in Programs \ {Program(t)} : head'[q] = head[q]
  BY <1>0, <1>3 DEF Tables
<1>6. Mine(Program(t))' = Mine(Program(t))
  BY <1>4 DEF Mine
<1>7. Within(Program(t)) /\ Tables'
  <2>1. \A q \in Nodes : node[q].program \notin {Program(t), None} => q \notin {n, m}
    BY <1>2 DEF Mine, Nodes
  <2> QED BY <1>0, <1>4, <1>5, <2>1 DEF Within, Tables
<1>8. Memory(Program(t))'
  <2>1. head'[Program(t)] \in Mine(Program(t)) \cup {0}
    BY <1>0, <1>2, <1>3 DEF Memory, Tables
  <2>2. \A q \in Mine(Program(t)) : q \in Nodes
    BY DEF Mine
  <2> QED BY <1>0, <1>2, <1>4, <1>6, <2>1, <2>2 DEF Memory
<1>9. CallInv(t)'
  BY <1>0, <1>6 DEF CallInv
<1>10. ASSUME AloneInv(t)
       PROVE  AloneInv(t)'
  <2>1. \A q \in Mine(Program(t)) : q # n => ~Opening(t, q)
    BY <1>0, <1>1 DEF Opening
  <2>2. \A q \in Mine(Program(t)) : /\ Locked(q) => Locked(q)'
                                    /\ node'[q].live => q # n /\ node[q].live
    BY <1>0, <1>4 DEF Locked, Mine
  <2> QED BY <1>0, <1>6, <1>10, <2>1, <2>2 DEF AloneInv
<1> QED BY <1>0, <1>6, <1>7, <1>8, <1>9, <1>10, OneThreadOfProgram DEF AppsInv

\* A terminal is opened: it is the thread's until it is in the list.
LEMMA InitConnectsKeepsApps ==
  ASSUME ProgramsAssumption, PcscAssumption, ThreadTypes, AppsInv, NEW t \in Threads,
         InitConnects(t)
  PROVE  AppsInv'
<1>0. /\ UNCHANGED <<head, owner>> /\ CallInv(t) /\ Memory(Program(t)) /\ Tables
      /\ th[t].at = "init" /\ Program(t) \in Programs /\ Program(t) # None
      /\ th[t].op # None /\ th[t].reader \in Readers
  <2>1. th[t].op \in {"create", "init"} /\ th[t].reader \in Readers
    BY DEF InitConnects, AppsInv, At, CallInv
  <2>2. th[t].op # None
    BY <2>1 DEF PcscAssumption, DriverOps, Locking, LibraryOps
  <2> QED BY <2>1, <2>2 DEF InitConnects, AppsInv, At, ProgramsAssumption, Program
<1>1. CASE Returns(t, "INVALID", None) /\ node' = node
  <2>1. SameCall(t) /\ SamePlaces(t) /\ th'[t].at = "returned"
    BY <1>1, MovedCall
  <2>2. Mine(Program(t))' = Mine(Program(t))
    BY <1>1 DEF Mine
  <2>3. CallInv(t)'
    BY <1>0, <2>1, <2>2 DEF CallInv, SameCall, SamePlaces
  <2>4. \A n \in Mine(Program(t)) : ~Opening(t, n)
    BY <1>0 DEF Opening
  <2> QED BY <1>0, <1>1, <2>1, <2>3, <2>4, AwayFromLocks DEF SameCall
<1>2. ASSUME NEW n \in Nodes, node[n] = Unused,
             node' = [node EXCEPT ![n] =
                        [program |-> Program(t), ctn |-> th[t].ctn, reader |-> th[t].reader,
                         sync |-> {}, cwd |-> None, next |-> head[Program(t)], live |-> TRUE]],
             Moves(t, [th[t] EXCEPT !.at = "publish", !.node = n])
      PROVE  AppsInv'
  <2>1. /\ SameCall(t) /\ th'[t].at = "publish" /\ th'[t].node = n
        /\ th'[t].cur = th[t].cur /\ th'[t].prev = th[t].prev
    BY <1>2, MovedCall
  <2>2. /\ DOMAIN node' = Nodes /\ \A m \in Nodes \ {n} : node'[m] = node[m]
        /\ node'[n].program = Program(t) /\ node'[n].ctn = th[t].ctn
        /\ node'[n].reader = th[t].reader /\ node'[n].next = head[Program(t)]
        /\ DOMAIN node'[n] = TerminalFields
    BY <1>0, <1>2 DEF Tables, TerminalFields
  <2>3. node[n].program = None
    BY <1>2 DEF Unused
  <2>4. Mine(Program(t))' = Mine(Program(t)) \cup {n} /\ n \notin Mine(Program(t))
    BY <1>0, <2>2, <2>3 DEF Mine
  <2>5. Within(Program(t)) /\ Tables'
    BY <1>0, <2>2, <2>3 DEF Within, Tables
  <2>6. Memory(Program(t))'
    <3>1. \A m \in Mine(Program(t)) : node'[m] = node[m]
      BY <2>2, <2>4 DEF Mine
    <3> QED BY <1>0, <2>2, <2>4, <3>1 DEF Memory
  <2>7. CallInv(t)'
    <3>1. {th'[t].cur, th'[t].prev, th'[t].node} \subseteq Mine(Program(t))' \cup {0}
      BY <1>0, <2>1, <2>4 DEF CallInv
    <3> QED BY <1>0, <2>1, <2>4, <3>1 DEF CallInv, SameCall
  <2>8. ASSUME AloneInv(t)
        PROVE  AloneInv(t)'
    <3>1. Opening(t, n)'
      BY <2>1, <2>2 DEF Opening, SameCall
    <3>2. ASSUME NEW m \in Mine(Program(t)), node'[m].live
          PROVE  Locked(m)'
      <4>1. node'[m] = node[m] /\ ~Opening(t, m)
        BY <1>0, <2>2, <2>4 DEF Mine, Opening
      <4> QED BY <1>0, <2>8, <3>2, <4>1 DEF AloneInv, Locked
    <3> QED BY <2>1, <2>4, <3>1, <3>2 DEF AloneInv
  <2> QED BY <2>1, <2>4, <2>5, <2>6, <2>7, <2>8, OneThreadOfProgram DEF SameCall, AppsInv
<1> QED BY <1>1, <1>2 DEF InitConnects

LEMMA InitPublishesKeepsApps ==
  ASSUME ProgramsAssumption, ThreadTypes, AppsInv, NEW t \in Threads, InitPublishes(t)
  PROVE  AppsInv'
<1>0. /\ UNCHANGED <<node, owner>> /\ CallInv(t) /\ Memory(Program(t)) /\ Tables
      /\ th[t].at = "publish" /\ Program(t) \in Programs
      /\ head' = [head EXCEPT ![Program(t)] = th[t].node]
      /\ Moves(t, [th[t] EXCEPT !.at = "fill"])
  BY DEF InitPublishes, AppsInv, At, ProgramsAssumption, Program
<1>1. SameCall(t) /\ SamePlaces(t) /\ th'[t].at = "fill"
  BY <1>0, MovedCall
<1>2. Mine(Program(t))' = Mine(Program(t)) /\ th[t].node \in Mine(Program(t))
  BY <1>0 DEF Mine, CallInv
<1>3. /\ head'[Program(t)] = th[t].node /\ DOMAIN head' = Programs
      /\ \A q \in Programs \ {Program(t)} : head'[q] = head[q]
  BY <1>0 DEF Tables
<1>4. Within(Program(t)) /\ Tables'
  BY <1>0, <1>3 DEF Within, Tables
<1>5. Memory(Program(t))'
  BY <1>0, <1>2, <1>3 DEF Memory
<1>6. CallInv(t)'
  BY <1>0, <1>1, <1>2 DEF CallInv, SameCall, SamePlaces
<1>7. ASSUME AloneInv(t)
      PROVE  AloneInv(t)'
  <2>1. \A n \in Mine(Program(t)) : Opening(t, n) => Opening(t, n)'
    BY <1>0, <1>1, <1>3 DEF Opening, SameCall, SamePlaces
  <2>2. \A n \in Mine(Program(t)) : Locked(n) => Locked(n)'
    BY <1>0 DEF Locked
  <2> QED BY <1>0, <1>1, <1>2, <1>7, <2>1, <2>2 DEF AloneInv
<1> QED BY <1>1, <1>2, <1>4, <1>5, <1>6, <1>7, OneThreadOfProgram DEF SameCall, AppsInv

\* Its files are filled in while it is the first of the list.
LEMMA InitFillsKeepsApps ==
  ASSUME ProgramsAssumption, ThreadTypes, AppsInv, NEW t \in Threads, InitFills(t)
  PROVE  AppsInv'
<1>1. PICK n : n = th[t].node
  OBVIOUS
<1>0. /\ UNCHANGED <<head, owner>> /\ CallInv(t) /\ Memory(Program(t)) /\ Tables
      /\ th[t].at = "fill" /\ Program(t) \in Programs
      /\ node' = [node EXCEPT ![n].cwd = "mf"]
      /\ Moves(t, [th[t] EXCEPT !.at = "lock"])
  BY <1>1 DEF InitFills, AppsInv, At, ProgramsAssumption, Program
<1>2. SameCall(t) /\ SamePlaces(t) /\ th'[t].at = "lock"
  BY <1>0, MovedCall
<1>3. n \in Mine(Program(t)) /\ n \in Nodes
  BY <1>0, <1>1 DEF CallInv, Mine
<1>4. /\ DOMAIN node' = Nodes
      /\ \A m \in Nodes : /\ DOMAIN node'[m] = TerminalFields
                          /\ m # n => node'[m] = node[m]
                          /\ node'[m].program = node[m].program /\ node'[m].ctn = node[m].ctn
                          /\ node'[m].reader = node[m].reader /\ node'[m].next = node[m].next
                          /\ node'[m].live = node[m].live
  BY <1>0, <1>3 DEF Tables, TerminalFields
<1>5. Mine(Program(t))' = Mine(Program(t))
  BY <1>4 DEF Mine
<1>6. Within(Program(t)) /\ Tables'
  <2>1. \A m \in Nodes : node[m].program \notin {Program(t), None} => m # n
    BY <1>3 DEF Mine
  <2> QED BY <1>0, <1>4, <2>1 DEF Within, Tables
<1>7. Memory(Program(t))'
  BY <1>0, <1>4, <1>5 DEF Memory, Mine
<1>8. CallInv(t)'
  BY <1>0, <1>2, <1>5 DEF CallInv, SameCall, SamePlaces
<1>9. ASSUME AloneInv(t)
      PROVE  AloneInv(t)'
  <2>1. \A m \in Mine(Program(t)) : /\ Opening(t, m) => Opening(t, m)'
                                    /\ Locked(m) => Locked(m)'
                                    /\ node'[m].live = node[m].live
    BY <1>0, <1>2, <1>4 DEF Opening, Locked, Mine, SameCall, SamePlaces
  <2> QED BY <1>2, <1>5, <1>9, <2>1 DEF AloneInv
<1> QED BY <1>2, <1>5, <1>6, <1>7, <1>8, <1>9, OneThreadOfProgram DEF SameCall, AppsInv

\* The handler gives the lock, and takes none from a terminal that has it; or the terminal
\* is removed again.
LEMMA InitLocksKeepsApps ==
  ASSUME ProgramsAssumption, ThreadTypes, AppsInv, NEW t \in Threads, InitLocks(t)
  PROVE  AppsInv'
<1>1. PICK n, r : n = th[t].node /\ r = node[n].reader
  OBVIOUS
<1>0. /\ UNCHANGED <<head, node>> /\ CallInv(t) /\ Memory(Program(t)) /\ Tables
      /\ th[t].at = "lock" /\ Program(t) \in Programs
  BY DEF InitLocks, AppsInv, At, ProgramsAssumption, Program
<1>2. Mine(Program(t))' = Mine(Program(t)) /\ n \in Mine(Program(t)) /\ r \in Readers
  BY <1>0, <1>1 DEF Mine, CallInv, Memory
<1>3. CASE owner[r] = 0
  <2>1. owner' = [owner EXCEPT ![r] = n] /\ Returns(t, "OK", None)
    BY <1>1, <1>3 DEF InitLocks
  <2>2. SameCall(t) /\ SamePlaces(t) /\ th'[t].at = "returned"
    BY <2>1, MovedCall
  <2>3. /\ owner'[r] = n /\ DOMAIN owner' = Readers
        /\ \A s \in Readers \ {r} : owner'[s] = owner[s]
    BY <1>0, <1>2, <2>1 DEF Tables
  <2>4. Within(Program(t)) /\ Tables'
    BY <1>0, <1>3, <2>3 DEF Within, Tables
  <2>5. Memory(Program(t))'
    BY <1>0, <1>2 DEF Memory
  <2>6. CallInv(t)'
    BY <1>0, <1>2, <2>2 DEF CallInv, SameCall, SamePlaces
  <2>7. ASSUME AloneInv(t)
        PROVE  AloneInv(t)'
    <3>1. ASSUME NEW m \in Mine(Program(t)), node[m].live
          PROVE  Locked(m)'
      <4>1. m # 0 /\ node[m].reader \in Readers
        BY <1>0 DEF Mine, Nodes, Memory
      <4>2. CASE m = n
        BY <1>0, <1>1, <2>3, <4>2 DEF Locked
      <4>3. CASE m # n
        <5>1. Locked(m)
          BY <1>1, <2>7, <3>1, <4>3 DEF AloneInv, Opening
        <5> QED BY <1>0, <1>3, <2>3, <4>1, <5>1 DEF Locked
      <4> QED BY <4>2, <4>3
    <3> QED BY <1>0, <1>2, <2>2, <3>1 DEF AloneInv
  <2> QED BY <1>2, <2>2, <2>4, <2>5, <2>6, <2>7, OneThreadOfProgram DEF SameCall, AppsInv
<1>4. CASE owner[r] # 0
  <2>1. owner' = owner /\ Moves(t, [th[t] EXCEPT !.at = "close", !.rc = "HTSI"])
    BY <1>1, <1>4 DEF InitLocks
  <2>2. SameCall(t) /\ SamePlaces(t) /\ th'[t].at = "close"
    BY <2>1, MovedCall
  <2>3. CallInv(t)'
    BY <1>0, <1>2, <2>2 DEF CallInv, SameCall, SamePlaces
  <2>4. ASSUME AloneInv(t)
        PROVE  AloneInv(t)'
    <3>1. \A m \in Mine(Program(t)) : /\ Opening(t, m) => Opening(t, m)'
                                      /\ Locked(m) => Locked(m)'
      BY <1>0, <2>1, <2>2 DEF Opening, Locked, SameCall, SamePlaces
    <3> QED BY <1>0, <1>2, <2>2, <2>4, <3>1 DEF AloneInv
  <2> QED BY <1>0, <2>1, <2>2, <2>3, <2>4, OnlyTheCall DEF SameCall, AppsInv
<1> QED BY <1>3, <1>4

-------------------------------------------------------------------------------
LEMMA InitApps == Init /\ ProgramsAssumption /\ PcscAssumption => AppsInv
<1> SUFFICES ASSUME Init, ProgramsAssumption, PcscAssumption PROVE AppsInv
  OBVIOUS
<1>1. /\ head = [p \in Programs |-> 0] /\ node = [n \in Nodes |-> Unused]
      /\ th = [t \in Threads |-> Idle] /\ owner = [r \in Readers |-> 0]
  BY DEF Init, CtInit
<1>2. Unused.program = None /\ DOMAIN Unused = TerminalFields /\ None \notin Programs
  BY DEF Unused, TerminalFields, ProgramsAssumption
<1>3. \A p \in Programs : Mine(p) = {}
  BY <1>1, <1>2 DEF Mine
<1>4. Tables /\ \A p \in Programs : Memory(p)
  BY <1>1, <1>2, <1>3 DEF Tables, Memory
<1>5. ASSUME NEW t \in Threads
      PROVE  CallInv(t) /\ AloneInv(t)
  <2>1. /\ th[t].op = None /\ th[t].at = "idle" /\ th[t].cur = 0 /\ th[t].prev = 0
        /\ th[t].node = 0
    BY <1>1 DEF Idle
  <2>2. None \notin {"create", "init"}
    BY DEF PcscAssumption, DriverOps, Locking, LibraryOps
  <2>3. Mine(Program(t)) = {}
    BY <1>3 DEF ProgramsAssumption, Program
  <2> QED BY <2>1, <2>2, <2>3 DEF CallInv, AloneInv
<1> QED BY <1>4, <1>5 DEF AppsInv

LEMMA NextApps ==
  ASSUME ProgramsAssumption, PcscAssumption, ThreadTypes, AppsInv, [Next]_vars
  PROVE  AppsInv'
<1>1. ASSUME NEW t \in Threads, DriverCalled(t) \/ LibraryCalled(t)
      PROVE  AppsInv'
  BY <1>1, CalledKeepsApps
<1>2. ASSUME NEW t \in Threads, Undefined(t)
      PROVE  AppsInv'
  BY <1>2, EndKeepsApps DEF Undefined, Program, ProgramsAssumption
<1>3. ASSUME NEW t \in Threads, CtSteps(t)
      PROVE  AppsInv'
  <2>1. CASE \/ InitOfFreed(t) \/ CloseFreesTwice(t) \/ DataFindsFreed(t) \/ DispatchesFreed(t)
             \/ ResetNotesFreed(t)
    BY <1>2, <2>1 DEF InitOfFreed, CloseFreesTwice, DataFindsFreed, DispatchesFreed,
                      ResetNotesFreed
  <2> QED BY <1>3, <2>1, QuietKeepsApps, TouchKeepsApps, CloseFreesKeepsApps,
             InitConnectsKeepsApps, InitPublishesKeepsApps, InitFillsKeepsApps, InitLocksKeepsApps
         DEF CtSteps
<1>4. ASSUME NEW t \in Threads, Steps(t)
      PROVE  AppsInv'
  BY <1>2, <1>3, <1>4, DriverKeepsApps DEF Steps, Library, NoContext
<1>5. ASSUME NEW p \in Programs, Exits(p)
      PROVE  AppsInv'
  BY <1>5, EndKeepsApps DEF Exits
<1>6. CASE (\E p \in Programs : Starts(p)) \/ CardChanges \/ UNCHANGED vars
  <2>1. UNCHANGED <<head, node, th, owner>>
    BY <1>6 DEF Starts, CardChanges, vars, ctVars
  <2>2. \A p \in Programs : Mine(p)' = Mine(p) /\ Memory(p)'
    BY <2>1 DEF Mine, Memory, AppsInv
  <2>3. ASSUME NEW t \in Threads
        PROVE  CallInv(t)' /\ (Alone(Program(t)) => AloneInv(t)')
    <3>1. Mine(Program(t))' = Mine(Program(t))
      BY <2>1 DEF Mine
    <3> QED BY <2>1, <3>1 DEF AppsInv, CallInv, AloneInv, Opening, Locked
  <2> QED BY <2>1, <2>2, <2>3 DEF AppsInv, Tables
<1> QED BY <1>1, <1>4, <1>5, <1>6 DEF Next, Progress

LEMMA AppsHold == Spec => [](PcscInv /\ AppsInv)
<1>1. PcscInv /\ AppsInv /\ [Next]_vars => (PcscInv /\ AppsInv)'
  BY NextPcsc, NextApps, PcscAssumption, ProgramsAssumption DEF PcscInv
<1> QED BY <1>1, InitPcsc, InitApps, PcscAssumption, ProgramsAssumption, PTL DEF Spec

\* A program of one thread asks for a card only from a terminal that has its reader's
\* exclusive lock, among any other programs and their threads, whatever those do
\* (CT_init, CT_data and CT_close, and the handler's locks).
THEOREM AloneUnderLock ==
  Spec => [](\A t \in Threads : Alone(Program(t)) => HoldsLock(t))
<1>1. AppsInv => \A t \in Threads : Alone(Program(t)) => HoldsLock(t)
  BY DEF AppsInv, AloneInv, HoldsLock, Locked
<1> QED BY <1>1, AppsHold, PTL

\* Where every program has one thread, commands to cards are always under the lock.
THEOREM CommandsAreUnderLock ==
  ASSUME \A p \in Programs : Alone(p)
  PROVE  Spec => []CommandsUnderLock
<1>1. (\A t \in Threads : Alone(Program(t)) => HoldsLock(t)) => CommandsUnderLock
  <2>1. \A t \in Threads : Program(t) \in Programs
    BY ProgramsAssumption DEF ProgramsAssumption, Program
  <2> QED BY <2>1 DEF CommandsUnderLock
<1> QED BY <1>1, AloneUnderLock, PTL
=============================================================================
