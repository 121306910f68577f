--------------------------- MODULE IfdHandlerProofs ---------------------------
(***************************************************************************)
(* Proofs about the handler and its clients, for any number of clients,    *)
(* users, slots, pieces of a request and places in the table of sockets.   *)
(*                                                                         *)
(* What a client believes of its locks (HeldIsLocked) is not inductive: it *)
(* depends on the reply under way, whose lock must be in the table before  *)
(* the client hears of it (ReplyTrue), on there being one request under    *)
(* way at a time (CallOK), on a socket being freed only after its client   *)
(* has gone (TodoOK), and on the user ids of locks and sockets (LocksInv,  *)
(* proved first, of the lock table alone).                                 *)
(***************************************************************************)
EXTENDS IfdHandler, TLAPS, FiniteSetTheorems, SequenceTheorems

-------------------------------------------------------------------------------
(* The lock table, for any sets of sockets, slots and users, any handle     *)
(* width and any number of grants.                                          *)
(*                                                                          *)
(* Exclusion alone is not inductive: check_lock compares the user id in a   *)
(* lock with the one of the asking socket, so the step that grants a lock   *)
(* preserves Exclusion only if every lock carries the user id of a socket   *)
(* that is open (OwnersOpen).  HandleNamesOneLock rests on the numbers of   *)
(* the grants (GrantsDistinct).                                             *)

\* No grant number is given out twice, in the list or later.
GrantsDistinct ==
  /\ \A l \in locks : l.nr < granted
  /\ \A l, m \in locks : l.nr = m.nr => l = m

LocksInv == LocksTypeOK /\ GrantsDistinct /\ OwnersOpen /\ Exclusion

-------------------------------------------------------------------------------
\* The record ifdhandler_lock links into the list is a lock, numbered by the
\* counter.
LEMMA NewLockType ==
  ASSUME LocksTypeOK, NEW s \in Socks, Open(s), NEW slot \in Slots,
         NEW type
  PROVE  /\ NewLock(s, slot, type) \in Lock
         /\ NewLock(s, slot, type).nr = granted
         /\ NewLock(s, slot, type).owner = s
         /\ NewLock(s, slot, type).uid = uid[s]
         /\ NewLock(s, slot, type).slot = slot
         /\ NewLock(s, slot, type).exclusive = (type = Exclusive)
  BY DEF LocksTypeOK, NewLock, Lock, Open

\* A lock granted by ifdhandler_lock keeps the invariant.
LEMMA GrantLockKeepsInv ==
  ASSUME LocksAssumption, LocksInv, NEW s \in Socks, Open(s),
         NEW slot \in Slots, NEW type \in LockTypes, GrantLock(s, slot, type)
  PROVE  LocksInv'
<1> DEFINE new == NewLock(s, slot, type)
<1>1. /\ new \in Lock /\ new.nr = granted /\ new.owner = s
      /\ new.uid = uid[s] /\ new.slot = slot
      /\ new.exclusive = (type = Exclusive)
  BY NewLockType DEF LocksInv
<1>2. /\ locks' = locks \cup {new} /\ granted' = granted + 1 /\ uid' = uid
      /\ granted < MaxGrants
      /\ Conflicts(s, slot, type) = {}
  BY DEF GrantLock, CheckLock
<1> HIDE DEF new
<1>3. LocksTypeOK'
  BY <1>1, <1>2 DEF LocksInv, LocksTypeOK, LocksAssumption
<1>4. GrantsDistinct'
  <2>1. granted \in Nat /\ \A l \in locks : l.nr \in Nat
    BY DEF LocksInv, LocksTypeOK, LocksAssumption, Lock
  <2> QED BY <1>1, <1>2, <2>1 DEF LocksInv, GrantsDistinct
<1>5. OwnersOpen'
  BY <1>1, <1>2 DEF LocksInv, OwnersOpen, Open
<1>6. Exclusion'
  <2>1. ASSUME NEW l \in locks, l.slot = slot, l.owner # s
        PROVE  ~l.exclusive /\ type # Exclusive /\ l.uid = uid[s]
    BY <1>2, <2>1 DEF Conflicts
  <2>2. ASSUME NEW l \in locks, NEW m \in locks, l.slot = m.slot,
               l.owner # m.owner
        PROVE  ~l.exclusive /\ ~m.exclusive /\ l.uid = m.uid
    BY <2>2 DEF LocksInv, Exclusion
  <2>3. ASSUME NEW l \in locks, l.slot = slot, l.owner # s
        PROVE  ~l.exclusive /\ ~new.exclusive /\ l.uid = new.uid
    BY <2>3, <2>1, <1>1
  <2>4. ASSUME NEW l \in locks', NEW m \in locks', l.slot = m.slot,
               l.owner # m.owner
        PROVE  ~l.exclusive /\ ~m.exclusive /\ l.uid = m.uid
    <3>1. CASE l \in locks /\ m \in locks
      BY <3>1, <2>4, <2>2
    <3>2. CASE l \in locks /\ m = new
      BY <3>2, <2>4, <2>3, <1>1
    <3>3. CASE l = new /\ m \in locks
      BY <3>3, <2>4, <2>3, <1>1
    <3>4. CASE l = new /\ m = new
      BY <3>4, <2>4
    <3> QED BY <3>1, <3>2, <3>3, <3>4, <1>2
  <2> QED BY <2>4 DEF Exclusion
<1> QED BY <1>3, <1>4, <1>5, <1>6 DEF LocksInv

\* Taking locks off the list keeps the invariant, as long as no socket closes
\* that still has one.
LEMMA FewerLocksKeepInv ==
  ASSUME LocksInv, locks' \subseteq locks, UNCHANGED granted,
         uid' \in [Socks -> Uids \cup {NoUid}],
         \A l \in locks' : uid'[l.owner] = uid[l.owner]
  PROVE  LocksInv'
  BY DEF LocksInv, LocksTypeOK, GrantsDistinct, OwnersOpen, Open, Exclusion

\* Every step of the table keeps the invariant: an open, a close, a grant, a
\* release, the end of the process, and a stutter.
LEMMA LocksStep ==
  ASSUME LocksAssumption, LocksInv, [LocksNext]_lockVars
  PROVE  LocksInv'
<1>1. ASSUME NEW s \in Socks, NEW u \in Uids, OpenSock(s, u)
      PROVE  LocksInv'
  <2>1. \A l \in locks : l.owner # s
    BY <1>1 DEF LocksInv, OwnersOpen, OpenSock, Open
  <2>2. /\ locks' = locks /\ granted' = granted
        /\ uid' = [uid EXCEPT ![s] = u]
    BY <1>1 DEF OpenSock
  <2>3. \A l \in locks : l.owner \in Socks
    BY DEF LocksInv, LocksTypeOK, Lock
  <2> QED BY <2>1, <2>2, <2>3, FewerLocksKeepInv DEF LocksInv, LocksTypeOK
<1>2. ASSUME NEW s \in Socks, CloseSock(s)
      PROVE  LocksInv'
  <2>1. \A l \in locks' : l \in locks /\ l.owner # s
    BY <1>2 DEF CloseSock, LocksWithout
  <2>2. granted' = granted /\ uid' = [uid EXCEPT ![s] = NoUid]
    BY <1>2 DEF CloseSock
  <2>3. \A l \in locks : l.owner \in Socks
    BY DEF LocksInv, LocksTypeOK, Lock
  <2> QED BY <2>1, <2>2, <2>3, FewerLocksKeepInv DEF LocksInv, LocksTypeOK
<1>3. ASSUME NEW s \in Socks, NEW slot \in Slots, NEW handle,
             ReleaseLock(s, slot, handle)
      PROVE  LocksInv'
  <2>1. locks' \subseteq locks /\ granted' = granted /\ uid' = uid
    BY <1>3 DEF ReleaseLock
  <2> QED BY <2>1, FewerLocksKeepInv DEF LocksInv, LocksTypeOK
<1>4. CASE LoseTable
  BY <1>4, FewerLocksKeepInv DEF LoseTable
<1>5. CASE UNCHANGED lockVars
  BY <1>5, FewerLocksKeepInv DEF lockVars, LocksInv, LocksTypeOK
<1> QED BY <1>1, <1>2, <1>3, <1>4, <1>5, GrantLockKeepsInv DEF LocksNext

\* The empty table of a new process satisfies the invariant.
LEMMA LocksInitInv == ASSUME LocksAssumption, LocksInit PROVE LocksInv
  BY DEF LocksAssumption, LocksInit, LocksInv, LocksTypeOK, GrantsDistinct,
         OwnersOpen, Exclusion

\* The inductive invariant holds in every state of the table.
THEOREM LocksInvariant == LocksSpec => []LocksInv
<1> USE LocksAssumption
<1>1. LocksInit => LocksInv
  BY LocksInitInv
<1>2. LocksInv /\ [LocksNext]_lockVars => LocksInv'
  BY LocksStep
<1> QED BY <1>1, <1>2, PTL DEF LocksSpec

-------------------------------------------------------------------------------
(* The invariants the runs check *)

\* The three variables of the table keep their types.
THEOREM LocksTypeCorrect == LocksSpec => []LocksTypeOK
<1>1. LocksInv => LocksTypeOK
  BY DEF LocksInv
<1> QED BY <1>1, LocksInvariant, PTL

\* No two clients ever hold incompatible locks on a slot.
THEOREM LocksExclusion == LocksSpec => []Exclusion
<1>1. LocksInv => Exclusion
  BY DEF LocksInv
<1> QED BY <1>1, LocksInvariant, PTL

\* No lock outlives the socket of its owner.
THEOREM LocksOwnersOpen == LocksSpec => []OwnersOpen
<1>1. LocksInv => OwnersOpen
  BY DEF LocksInv
<1> QED BY <1>1, LocksInvariant, PTL

\* Before the counter wraps, a grant's number is its handle.
LEMMA HandleIsNumber ==
  ASSUME NEW n \in Nat, NEW k \in Nat \ {0}, n < k
  PROVE  n % k = n
  BY Z3

\* Until the handles wrap, unlock releases the lock the handle was given for.
THEOREM LocksHandleNamesOneLock == LocksSpec => []HandleNamesOneLock
<1>1. LocksInv => HandleNamesOneLock
  <2> SUFFICES ASSUME LocksInv, granted <= HandleLimit,
                      NEW l \in locks
               PROVE  Matching(l.owner, l.slot, Handle(l)) = {l}
    BY DEF HandleNamesOneLock
  <2>1. ASSUME NEW m \in locks
        PROVE  Handle(m) = m.nr
    <3>1. m.nr \in Nat /\ m.nr < granted /\ granted \in Nat
      BY DEF LocksInv, LocksTypeOK, GrantsDistinct, Lock, LocksAssumption
    <3> QED BY <3>1, HandleIsNumber, LocksAssumption
            DEF LocksAssumption, Handle
  <2> QED BY <2>1 DEF Matching, LocksInv, GrantsDistinct
<1> QED BY <1>1, LocksInvariant, PTL
-------------------------------------------------------------------------------
(* The table implements the abstract lock service *)

\* The table never has two clients in conflict, a lock whose owner is gone, or,
\* until they wrap, a handle that stands for two locks of its owner.
THEOREM LocksAlwaysSafe == LocksSpec => []LocksSafe
<1>1. Exclusion /\ OwnersOpen /\ HandleNamesOneLock => LocksSafe
  BY DEF LocksSafe
<1> QED BY <1>1, LocksExclusion, LocksOwnersOpen, LocksHandleNamesOneLock, PTL

\* Conflicts seen from the abstract side: if check_lock finds none, no other
\* client's mode on the slot is in the way of the grant.
LEMMA NoConflictModes ==
  ASSUME NEW s \in Socks, NEW slot \in Slots, NEW type \in LockTypes,
         CheckLock(s, slot, type), NEW d \in Socks \ {s}
  PROVE  /\ ModeOf(slot, d) # "exclusive"
         /\ type = Exclusive => ModeOf(slot, d) = "none"
<1>1. ASSUME NEW l \in locks, l.slot = slot, l.owner = d
      PROVE  ~l.exclusive /\ type # Exclusive
  BY <1>1 DEF CheckLock, Conflicts
<1> QED BY <1>1 DEF ModeOf

\* A granted lock is an acquisition of the abstract service, or leaves the mode
\* of its owner as it was.
LEMMA GrantRefines ==
  ASSUME NEW s \in Socks, NEW slot \in Slots, NEW type \in LockTypes,
         LocksInv, Open(s), GrantLock(s, slot, type)
  PROVE  [Abstract!Next]_Mode
<1> DEFINE new == NewLock(s, slot, type)
<1>1. /\ new.owner = s /\ new.slot = slot
      /\ new.exclusive = (type = Exclusive)
  BY NewLockType DEF LocksInv
<1>2. locks' = locks \cup {new} /\ CheckLock(s, slot, type)
  BY DEF GrantLock
<1> HIDE DEF new
<1>3. ASSUME NEW t \in Slots, NEW d \in Socks, t # slot \/ d # s
      PROVE  ModeOf(t, d)' = ModeOf(t, d)
  BY <1>1, <1>2, <1>3 DEF ModeOf
<1>4. \A d \in Socks \ {s} :
        /\ Mode[slot][d] # "exclusive"
        /\ type = Exclusive => Mode[slot][d] = "none"
  BY <1>2, NoConflictModes DEF Mode
<1>5. CASE type = Exclusive
  <2>1. ModeOf(slot, s)' = "exclusive"
    BY <1>1, <1>2, <1>5 DEF ModeOf
  <2>2. Mode' = [Mode EXCEPT ![slot][s] = "exclusive"]
    BY <2>1, <1>3 DEF Mode
  <2>3. \A d \in Socks \ {s} : Mode[slot][d] = "none"
    BY <1>4, <1>5
  <2>4. Abstract!AcquireExclusive(s, slot)
    BY <2>2, <2>3 DEF Abstract!AcquireExclusive
  <2> QED BY <2>4 DEF Abstract!Next
<1>6. CASE type # Exclusive /\ ModeOf(slot, s) = "none"
  <2>1. ModeOf(slot, s)' = "shared"
    BY <1>1, <1>2, <1>6 DEF ModeOf
  <2>2. Mode' = [Mode EXCEPT ![slot][s] = "shared"]
    BY <2>1, <1>3 DEF Mode
  <2>3. \A d \in Socks \ {s} : Mode[slot][d] # "exclusive"
    BY <1>4
  <2>4. Mode[slot][s] = "none"
    BY <1>6 DEF Mode
  <2>5. Abstract!AcquireShared(s, slot)
    BY <2>2, <2>3, <2>4 DEF Abstract!AcquireShared
  <2> QED BY <2>5 DEF Abstract!Next
<1>7. CASE type # Exclusive /\ ModeOf(slot, s) # "none"
  <2>1. ModeOf(slot, s)' = ModeOf(slot, s)
    BY <1>1, <1>2, <1>7 DEF ModeOf
  <2>2. Mode' = Mode
    BY <2>1, <1>3 DEF Mode
  <2> QED BY <2>2
<1> QED BY <1>5, <1>6, <1>7

\* Whatever lock unlock takes off the list, the abstract service sees at most
\* one client's mode on one slot fall.
LEMMA ReleaseRefines ==
  ASSUME NEW s \in Socks, NEW slot \in Slots, NEW handle, LocksInv,
         ReleaseLock(s, slot, handle)
  PROVE  [Abstract!Next]_Mode
<1>1. PICK l : locks' = locks \ {l}
  BY DEF ReleaseLock
<1>2. CASE l \notin locks
  <2>1. \A t \in Slots, d \in Socks : ModeOf(t, d)' = ModeOf(t, d)
    BY <1>1, <1>2 DEF ModeOf
  <2>2. Mode' = Mode
    BY <2>1 DEF Mode
  <2> QED BY <2>2
<1>3. CASE l \in locks
  <2>1. l.owner \in Socks /\ l.slot \in Slots
    BY <1>3 DEF LocksInv, LocksTypeOK, Lock
  <2>2. ASSUME NEW t \in Slots, NEW d \in Socks, t # l.slot \/ d # l.owner
        PROVE  ModeOf(t, d)' = ModeOf(t, d)
    BY <1>1, <2>2 DEF ModeOf
  <2>3. Mode[l.slot][l.owner] # "none"
    BY <1>3, <2>1 DEF Mode, ModeOf
  <2>4. Mode' = [Mode EXCEPT ![l.slot][l.owner] = ModeOf(l.slot, l.owner)']
    BY <2>1, <2>2 DEF Mode
  <2>5. CASE ModeOf(l.slot, l.owner)' = "exclusive"
    <3>1. ModeOf(l.slot, l.owner) = "exclusive"
      BY <2>5, <1>1 DEF ModeOf
    <3>2. Mode' = Mode
      BY <3>1, <2>5, <2>4, <2>1 DEF Mode
    <3> QED BY <3>2
  <2>6. CASE ModeOf(l.slot, l.owner)' # "exclusive"
    <3>1. ModeOf(l.slot, l.owner)' \in {"none", "shared"}
      BY <2>6 DEF ModeOf
    <3>2. Abstract!Release(l.owner, l.slot)
      BY <3>1, <2>3, <2>4 DEF Abstract!Release
    <3> QED BY <3>2, <2>1 DEF Abstract!Next
  <2> QED BY <2>5, <2>6
<1> QED BY <1>2, <1>3

\* A socket that goes takes all its locks with it: its owner leaves the abstract
\* service.
LEMMA CloseRefines ==
  ASSUME NEW s \in Socks, CloseSock(s)
  PROVE  [Abstract!Next]_Mode
<1>1. locks' = {l \in locks : l.owner # s}
  BY DEF CloseSock, LocksWithout
<1>2. ASSUME NEW t \in Slots, NEW d \in Socks, d # s
      PROVE  ModeOf(t, d)' = ModeOf(t, d)
  BY <1>1, <1>2 DEF ModeOf
<1>3. \A t \in Slots : ModeOf(t, s)' = "none"
  BY <1>1 DEF ModeOf
<1>4. Mode' = [t \in Slots |-> [Mode[t] EXCEPT ![s] = "none"]]
  BY <1>2, <1>3 DEF Mode
<1>5. Abstract!Leave(s)
  BY <1>4 DEF Abstract!Leave
<1> QED BY <1>5 DEF Abstract!Next

\* The lock table implements the lock service: at any time the strongest locks
\* the clients hold, and every change of them, are what SlotLocks allows.
THEOREM LocksRefinement == LocksSpec => ImplementsSlotLocks
<1>1. LocksInit => Abstract!Init
  BY DEF LocksInit, Abstract!Init, Mode, ModeOf
<1>2. LocksInv /\ [LocksNext]_lockVars => [Abstract!Next]_Mode
  <2> SUFFICES ASSUME LocksInv, [LocksNext]_lockVars
               PROVE  [Abstract!Next]_Mode
    OBVIOUS
  <2>1. CASE LoseTable
    <3>1. Mode' = [t \in Slots |-> [d \in Socks |-> "none"]]
      BY <2>1 DEF LoseTable, Mode, ModeOf
    <3> QED BY <3>1 DEF Abstract!Next, Abstract!Stop
  <2>2. ASSUME locks' = locks PROVE Mode' = Mode
    BY <2>2 DEF Mode, ModeOf
  <2>3. ASSUME NEW s \in Socks, NEW u \in Uids, OpenSock(s, u)
        PROVE  [Abstract!Next]_Mode
    BY <2>2, <2>3 DEF OpenSock
  <2>4. CASE UNCHANGED lockVars
    BY <2>2, <2>4 DEF lockVars
  <2> QED BY <2>1, <2>3, <2>4, GrantRefines, ReleaseRefines, CloseRefines
          DEF LocksNext
<1> QED BY <1>1, <1>2, LocksInvariant, PTL
        DEF LocksSpec, ImplementsSlotLocks, Abstract!Spec

-------------------------------------------------------------------------------
(* The handler and its clients                                              *)

\* What poll() reported is still so when the socket is served.
TodoOK(s) ==
  /\ todo[s] # {} => Open(s)
  /\ todo[s] = {"in"} => inq[s] > 0 \/ conn[s] = "closed"

\* The two ends of a connection.
ConnOK(s) ==
  /\ Open(s) => alive /\ uid[s] = cred[s] /\ conn[s] # "none"
  /\ conn[s] # "none" => cred[s] \in Uids
  /\ conn[s] # "open" => ~waiting[s] /\ held[s] = {} /\ outq[s] = None
                         /\ unsent[s] = 0
  /\ reset[s] => conn[s] = "closed"

\* A request or its reply is in one place at a time.
Idle(s) == inq[s] = 0 /\ rbuf[s] = 0 /\ sbuf[s] = None

CallOK(s) ==
  /\ conn[s] = "none" \/ ~alive => Idle(s)
  /\ conn[s] = "open" /\ ~waiting[s] => Idle(s) /\ unsent[s] = 0 /\ outq[s] = None
  /\ waiting[s] \/ inq[s] > 0 => packet[s] \in Requests
  /\ unsent[s] + inq[s] + rbuf[s] <= Pieces
  /\ sbuf[s] # None \/ outq[s] # None => unsent[s] + inq[s] + rbuf[s] = 0
  /\ sbuf[s] = None \/ outq[s] = None

\* The lock h a client was told of is in the table.
InTable(s, h) ==
  \E l \in locks : /\ l.owner = s /\ l.slot = h.slot
                   /\ Handle(l) = h.handle
                   /\ l.exclusive = h.exclusive

\* A reply that grants a lock tells the truth, and so does the client.
ReplyTrue(s, reply) ==
  waiting[s] /\ packet[s].cmd = "LOCK" /\ reply # None /\ reply.error = "none" =>
    /\ packet[s].unit \in Slots
    /\ alive => InTable(s, [slot |-> packet[s].unit, handle |-> reply.handle,
                            exclusive |-> (packet[s].arg = Exclusive)])

HeldOK(s) ==
  /\ \A h \in held[s] : alive => InTable(s, h)
  /\ waiting[s] /\ packet[s].cmd = "UNLOCK" =>
       \A h \in held[s] : h.slot # packet[s].unit \/ h.handle # packet[s].arg
  /\ ReplyTrue(s, sbuf[s])
  /\ ReplyTrue(s, outq[s])

SockOK(s) == TodoOK(s) /\ ConnOK(s) /\ CallOK(s) /\ HeldOK(s)

\* Connections waiting for accept are different and have no socket yet.
BacklogOK ==
  /\ \A i \in 1 .. Len(backlog) : ~Open(backlog[i]) /\ conn[backlog[i]] # "none"
  /\ \A i, j \in 1 .. Len(backlog) : backlog[i] = backlog[j] => i = j
  /\ todo[Listener] # {} => backlog # <<>>

\* While a new connection waits to be taken there is a place for its socket.
RoomOK == /\ Cardinality(OpenSocks) <= MaxClients
          /\ todo[Listener] # {} => Cardinality(OpenSocks) < MaxClients

HandlerInv == /\ LocksInv /\ HandlerTypeOK
              /\ BacklogOK
              /\ \A s \in Socks : SockOK(s)

-------------------------------------------------------------------------------
(* The handler uses its lock table as IfdLocks says *)

\* A request of either kind that the library makes has an argument of its type.
LEMMA RequestTypes ==
  ASSUME NEW request \in Requests
  PROVE  /\ request.unit \in Units
         /\ request.cmd = "LOCK" => request.arg \in LockTypes
         /\ request.cmd = "UNLOCK" => request.arg \in Handles
  BY DEF Requests

\* ifdhandler_process leaves the lock table alone, or grants a lock, or releases
\* one; it tells the client of a lock only if it has granted it.
LEMMA ProcessEffect ==
  ASSUME NEW s \in Socks, NEW request \in Requests, NEW reply,
         Process(s, request, reply)
  PROVE  \/ /\ UNCHANGED <<locks, granted>>
            /\ request.cmd = "LOCK" => reply.error # "none"
         \/ /\ request.cmd = "LOCK" /\ request.unit \in Slots
            /\ GrantLock(s, request.unit, request.arg)
            /\ reply = Ok(granted % HandleLimit)
         \/ /\ request.cmd = "UNLOCK" /\ request.unit \in Slots
            /\ ReleaseLock(s, request.unit, request.arg)
            /\ reply = Done
<1>1. CASE request.cmd = "LOCK" /\ DoLock(s, request.unit, request.arg, reply)
  <2>1. \A code \in Errors : Error(code).error # "none"
    BY DEF Error, Errors
  <2>2. "invalid slot" \in Errors /\ "locked" \in Errors /\ "no memory" \in Errors
    BY DEF Errors
  <2> QED BY <1>1, <2>1, <2>2 DEF DoLock, NoEffect
<1>2. CASE request.cmd = "UNLOCK" /\ DoUnlock(s, request.unit, request.arg, reply)
  BY <1>2 DEF DoUnlock, NoEffect
<1>3. CASE request.cmd = "TRANSACT_OLD" /\ DoTransactOld(s, request.unit, reply)
  BY <1>3 DEF DoTransactOld, NoEffect, UseCard
<1>4. CASE request.cmd \in CardCmds /\ DoCardCommand(s, request.unit, reply)
  BY <1>4 DEF DoCardCommand, NoEffect, UseCard, CardCmds
<1>5. CASE request.cmd \in {"STATUS", "OUTPUT", "unknown"} /\ NoEffect
  BY <1>5 DEF NoEffect
<1>6. CASE request.cmd # "TRANSACT_OLD" /\ reply = Error("card") /\ NoEffect
  BY <1>6 DEF Error, NoEffect
<1> QED BY <1>1, <1>2, <1>3, <1>4, <1>5, <1>6 DEF Process

\* The socket at the head of the backlog is a closed one with a user behind it.
LEMMA BacklogHead ==
  ASSUME HandlerInv, todo[Listener] # {}
  PROVE  /\ backlog \in Seq(Socks) /\ backlog # <<>>
         /\ 1 \in 1 .. Len(backlog)
         /\ Head(backlog) = backlog[1]
         /\ Head(backlog) \in Socks
         /\ ~Open(Head(backlog)) /\ conn[Head(backlog)] # "none"
         /\ cred[Head(backlog)] \in Uids
<1>1. backlog \in Seq(Socks) /\ backlog # <<>>
  BY DEF HandlerInv, HandlerTypeOK, BacklogOK
<1>2. Len(backlog) \in Nat \ {0}
  BY <1>1, EmptySeq
<1>3. 1 \in 1 .. Len(backlog) /\ Head(backlog) = backlog[1]
  BY <1>1, <1>2
<1>4. Head(backlog) \in Socks
  BY <1>1, HeadTailProperties
<1>5. ~Open(Head(backlog)) /\ conn[Head(backlog)] # "none"
  BY <1>3 DEF HandlerInv, BacklogOK
<1> QED BY <1>1, <1>3, <1>4, <1>5 DEF HandlerInv, SockOK, ConnOK

\* A step of the event loop is a step of the lock table, or none.
LEMMA ServerLocks ==
  ASSUME HandlerInv, Server
  PROVE  [LocksNext]_lockVars
<1>1. CASE Poll
  BY <1>1 DEF Poll
<1>2. CASE AcceptEvent
  BY <1>2, BacklogHead DEF AcceptEvent, LocksNext
<1>3. ASSUME NEW s \in Socks, ErrorEvent(s)
      PROVE  LoseTable
  BY <1>3 DEF ErrorEvent
<1>4. ASSUME NEW s \in Socks, SendEvent(s)
      PROVE  UNCHANGED lockVars \/ CloseSock(s)
  BY <1>4 DEF SendEvent, FreeSock
<1>5. ASSUME NEW s \in Socks, RecvEvent(s)
      PROVE  [LocksNext]_lockVars
  <2>1. CASE FreeSock(s)
    BY <2>1 DEF FreeSock, LocksNext
  <2>2. CASE UNCHANGED lockVars
    BY <2>2
  <2>3. ASSUME NEW reply \in Replies, inq[s] > 0, UNCHANGED uid,
               Process(s, packet[s], reply)
        PROVE  [LocksNext]_lockVars
    <3>1. packet[s] \in Requests /\ Open(s)
      BY <1>5, <2>3 DEF RecvEvent, HandlerInv, SockOK, CallOK, TodoOK
    <3>2. /\ packet[s].cmd = "LOCK" => packet[s].arg \in LockTypes
          /\ packet[s].cmd = "UNLOCK" => packet[s].arg \in Handles
      BY <3>1, RequestTypes
    <3> QED BY <2>3, <3>1, <3>2, ProcessEffect DEF LocksNext, Handles, lockVars
  <2> QED BY <1>5, <2>1, <2>2, <2>3 DEF RecvEvent
<1> QED BY <1>1, <1>2, <1>3, <1>4, <1>5 DEF Server, LocksNext

\* Nothing a client does by itself reaches the table.
LEMMA ClientLocks ==
  ASSUME NEW s \in Socks, Client(s)
  PROVE  UNCHANGED lockVars
  BY DEF Client, Connect, Call, Write, Return, Fail, Disconnect

-------------------------------------------------------------------------------
(* The connections, action by action *)

\* Nothing about the connection of t changes.
SameAt(t) ==
  /\ uid'[t] = uid[t] /\ rbuf'[t] = rbuf[t] /\ sbuf'[t] = sbuf[t]
  /\ todo'[t] = todo[t] /\ conn'[t] = conn[t] /\ cred'[t] = cred[t]
  /\ packet'[t] = packet[t] /\ waiting'[t] = waiting[t]
  /\ unsent'[t] = unsent[t] /\ held'[t] = held[t]
  /\ inq'[t] = inq[t] /\ outq'[t] = outq[t] /\ reset'[t] = reset[t]

\* Its locks, at least, stay.
KeepsLocks(t) == \A l \in locks : l.owner = t => l \in locks'

\* A connection that no part of a step touches stays in order.
LEMMA SockFrame ==
  ASSUME NEW t \in Socks, SockOK(t), SameAt(t), KeepsLocks(t), alive' = alive
  PROVE  SockOK(t)'
<1>1. \A h : InTable(t, h) => InTable(t, h)'
  BY DEF InTable, KeepsLocks, Handle
<1>2. TodoOK(t)' /\ ConnOK(t)' /\ CallOK(t)'
  BY DEF SockOK, SameAt, TodoOK, ConnOK, CallOK, Idle, Open
<1>3. ReplyTrue(t, sbuf[t])'
  BY <1>1 DEF SockOK, SameAt, HeldOK, ReplyTrue
<1>4. ReplyTrue(t, outq[t])'
  BY <1>1 DEF SockOK, SameAt, HeldOK, ReplyTrue
<1>5. HeldOK(t)'
  BY <1>1, <1>3, <1>4 DEF SockOK, SameAt, HeldOK
<1> QED BY <1>2, <1>5 DEF SockOK

\* The types the proofs below need of the variables a step changes one value of.
Functions ==
  /\ uid \in [Socks -> Uids \cup {NoUid}]
  /\ rbuf \in [Socks -> 0 .. (Pieces - 1)]
  /\ sbuf \in [Socks -> Replies \cup {None}]
  /\ events \in [Socks -> {"in", "out"}]
  /\ todo \in [Socks \cup {Listener} -> SUBSET {"err", "in", "out"}]
  /\ conn \in [Socks -> {"none", "open", "closed"}]
  /\ cred \in [Socks -> Uids \cup {NoUid}]
  /\ packet \in [Socks -> Requests \cup {None}]
  /\ waiting \in [Socks -> BOOLEAN]
  /\ unsent \in [Socks -> 0 .. Pieces]
  /\ held \in [Socks -> SUBSET HeldLock]
  /\ inq \in [Socks -> 0 .. Pieces]
  /\ outq \in [Socks -> Replies \cup {None}]
  /\ reset \in [Socks -> BOOLEAN]

\* The invariant has them.
LEMMA InvFunctions == ASSUME HandlerInv PROVE Functions
  BY DEF HandlerInv, HandlerTypeOK, LocksTypeOK, Functions

\* Poll writes down what it finds: only todo changes.
LEMMA PollKeepsSocks ==
  ASSUME HandlerAssumption, HandlerInv, Poll, NEW t \in Socks
  PROVE  SockOK(t)'
<1>1. TodoOK(t)'
  <2>1. todo'[t] = IF Open(t) THEN Revents(t) ELSE {}
    BY DEF Poll, HandlerAssumption
  <2>2. UNCHANGED <<uid, inq, conn>>
    BY DEF Poll, lockVars, netVars, clientVars
  <2>3. Revents(t) = {"in"} => inq[t] > 0 \/ conn[t] = "closed"
    <3>1. Revents(t) = {"in"} => "err" \notin Revents(t) /\ "out" \notin Revents(t)
      OBVIOUS
    <3> QED BY <3>1 DEF Revents
  <2> QED BY <2>1, <2>2, <2>3 DEF TodoOK, Open
<1>2. UNCHANGED <<lockVars, alive, rbuf, sbuf, clientVars, netVars>>
  BY DEF Poll
<1>3. ConnOK(t)' /\ CallOK(t)'
  BY <1>2 DEF HandlerInv, SockOK, ConnOK, CallOK, Idle, Open, lockVars, clientVars, netVars
<1>4. HeldOK(t)'
  BY <1>2 DEF HandlerInv, SockOK, HeldOK, ReplyTrue, InTable, Handle, lockVars, clientVars, netVars
<1> QED BY <1>1, <1>3, <1>4 DEF SockOK

\* A socket is made for the connection at the head of the backlog.
LEMMA AcceptKeepsSocks ==
  ASSUME HandlerAssumption, HandlerInv, AcceptEvent, NEW t \in Socks
  PROVE  SockOK(t)'
<1> DEFINE s == Head(backlog)
<1>1. s \in Socks /\ ~Open(s) /\ conn[s] # "none" /\ cred[s] \in Uids /\ NoUid \notin Uids
  BY BacklogHead, LocksAssumption DEF AcceptEvent, LocksAssumption
<1>2. /\ uid' = [uid EXCEPT ![s] = cred[s]]
      /\ UNCHANGED <<locks, granted, alive, rbuf, sbuf, clientVars, inq, outq, reset>>
      /\ todo' = [todo EXCEPT ![Listener] = {}]
  BY DEF AcceptEvent, OpenSock, Served, Set
<1> HIDE DEF s
<1>3. Functions /\ SockOK(t) /\ Listener # t
  BY InvFunctions DEF HandlerInv, HandlerAssumption
<1>4. CASE t = s
  <2>1. alive
    BY DEF AcceptEvent, Served
  <2>2. TodoOK(t)'
    BY <1>1, <1>2, <1>3, <1>4 DEF SockOK, TodoOK, Functions, Open, clientVars
  <2>3. ConnOK(t)' /\ CallOK(t)'
    BY <1>1, <1>2, <1>3, <1>4, <2>1
       DEF SockOK, ConnOK, CallOK, Idle, Functions, Open, clientVars
  <2>4. HeldOK(t)'
    BY <1>2, <1>3 DEF SockOK, HeldOK, ReplyTrue, InTable, Handle, clientVars
  <2> QED BY <2>2, <2>3, <2>4 DEF SockOK
<1>5. CASE t # s
  <2>1. SameAt(t) /\ KeepsLocks(t) /\ alive' = alive
    BY <1>2, <1>3, <1>5 DEF SameAt, KeepsLocks, Functions, clientVars
  <2> QED BY <2>1, <1>3, SockFrame
<1> QED BY <1>4, <1>5

\* The end of the process: its ends of the connections are gone.
LEMMA ErrorKeepsSocks ==
  ASSUME HandlerAssumption, HandlerInv, NEW s \in Socks, ErrorEvent(s),
         NEW t \in Socks
  PROVE  SockOK(t)'
<1>1. /\ alive' = FALSE /\ uid'[t] = NoUid /\ locks' = {}
      /\ todo'[t] = {} /\ rbuf'[t] = 0 /\ sbuf'[t] = None
      /\ inq'[t] = 0 /\ reset'[t] = FALSE
      /\ UNCHANGED <<clientVars, outq>>
  BY DEF ErrorEvent, LoseTable, Empty
<1>2. Functions /\ SockOK(t)
  BY InvFunctions DEF HandlerInv
<1>3. TodoOK(t)' /\ ConnOK(t)'
  BY <1>1, <1>2 DEF SockOK, TodoOK, ConnOK, Open, clientVars
<1>4. CallOK(t)'
  <2>1. unsent[t] \in 0 .. Pieces /\ inq[t] \in 0 .. Pieces /\ rbuf[t] \in 0 .. (Pieces - 1)
    BY <1>2 DEF Functions
  <2> QED BY <1>1, <1>2, <2>1 DEF SockOK, CallOK, Idle, clientVars, HandlerAssumption
<1>5. HeldOK(t)'
  BY <1>1, <1>2 DEF SockOK, HeldOK, ReplyTrue, clientVars
<1> QED BY <1>3, <1>4, <1>5 DEF SockOK

\* A socket whose client has gone is freed, with what is in it.
LEMMA FreeKeepsSocks ==
  ASSUME HandlerAssumption, HandlerInv, NEW s \in Socks,
         FreeSock(s), Served(s), conn[s] = "closed", NEW t \in Socks
  PROVE  SockOK(t)'
<1>1. /\ uid' = [uid EXCEPT ![s] = NoUid] /\ locks' = {l \in locks : l.owner # s}
      /\ todo' = [todo EXCEPT ![s] = {}]
      /\ rbuf' = [rbuf EXCEPT ![s] = 0] /\ sbuf' = [sbuf EXCEPT ![s] = None]
      /\ inq' = [inq EXCEPT ![s] = 0] /\ reset' = [reset EXCEPT ![s] = FALSE]
      /\ conn' = [conn EXCEPT ![s] = "none"] /\ cred' = [cred EXCEPT ![s] = NoUid]
      /\ packet' = [packet EXCEPT ![s] = None]
      /\ alive' = alive
      /\ UNCHANGED <<outq, waiting, unsent, held>>
  BY DEF FreeSock, Served, CloseSock, LocksWithout, Set
<1>2. Functions /\ SockOK(t) /\ SockOK(s)
  BY InvFunctions DEF HandlerInv
<1>3. CASE t = s
  <2>1. /\ uid'[t] = NoUid /\ todo'[t] = {} /\ rbuf'[t] = 0 /\ sbuf'[t] = None
        /\ inq'[t] = 0 /\ ~reset'[t] /\ conn'[t] = "none"
    BY <1>1, <1>2, <1>3 DEF Functions
  <2>2. ~waiting'[t] /\ held'[t] = {} /\ outq'[t] = None /\ unsent'[t] = 0
    BY <1>1, <1>2, <1>3 DEF SockOK, ConnOK
  <2> QED BY <2>1, <2>2
          DEF SockOK, TodoOK, ConnOK, CallOK, HeldOK, ReplyTrue, Idle, Open,
              HandlerAssumption
<1>4. CASE t # s
  <2>1. SameAt(t) /\ KeepsLocks(t)
    BY <1>1, <1>2, <1>4 DEF SameAt, KeepsLocks, Functions
  <2> QED BY <1>1, <2>1, <1>2, SockFrame
<1> QED BY <1>3, <1>4

\* The reply goes from the send buffer to the client.
LEMMA SendKeepsSocks ==
  ASSUME HandlerAssumption, HandlerInv, NEW s \in Socks, SendEvent(s),
         NEW t \in Socks
  PROVE  SockOK(t)'
<1> USE DEF Served, Set
<1>1. Functions /\ SockOK(t) /\ SockOK(s)
  BY InvFunctions DEF HandlerInv
<1>2. /\ alive /\ todo[s] # {} /\ todo' = [todo EXCEPT ![s] = {}]
  BY DEF SendEvent
<1>3. CASE UNCHANGED <<lockVars, alive, rbuf, sbuf, clientVars, netVars, card>>
  <2>1. t # s => SameAt(t) /\ KeepsLocks(t)
    BY <1>1, <1>2, <1>3
       DEF SameAt, KeepsLocks, Functions, lockVars, clientVars, netVars
  <2>2. t = s => TodoOK(t)'
    BY <1>1, <1>2 DEF Functions, TodoOK
  <2>3. ConnOK(t)' /\ CallOK(t)'
    BY <1>1, <1>3 DEF SockOK, ConnOK, CallOK, Idle, Open, lockVars, clientVars, netVars
  <2>4. HeldOK(t)'
    BY <1>1, <1>3 DEF SockOK, HeldOK, ReplyTrue, InTable, Handle, lockVars,
                      clientVars, netVars
  <2> QED BY <1>1, <1>3, <2>1, <2>2, <2>3, <2>4, SockFrame DEF SockOK
<1>4. CASE /\ sbuf[s] # None /\ conn[s] = "open"
           /\ outq' = [outq EXCEPT ![s] = sbuf[s]]
           /\ sbuf' = [sbuf EXCEPT ![s] = None]
           /\ UNCHANGED <<lockVars, alive, rbuf, events, clientVars, backlog, inq,
                          reset, card>>
  <2>1. CASE t # s
    <3>1. SameAt(t) /\ KeepsLocks(t) /\ alive' = alive
      BY <1>1, <1>2, <1>4, <2>1
         DEF SameAt, KeepsLocks, Functions, lockVars, clientVars
    <3> QED BY <3>1, <1>1, SockFrame
  <2>2. CASE t = s
    <3>1. /\ todo'[t] = {} /\ outq'[t] = sbuf[t] /\ sbuf'[t] = None
          /\ UNCHANGED <<uid, locks, alive, rbuf, conn, cred, packet, waiting,
                         unsent, held, inq, reset>>
      BY <1>1, <1>2, <1>4, <2>2 DEF Functions, lockVars, clientVars
    <3>2. TodoOK(t)' /\ ConnOK(t)'
      BY <1>1, <1>4, <2>2, <3>1 DEF SockOK, TodoOK, ConnOK, Open
    <3>3. waiting[t] /\ unsent[t] + inq[t] + rbuf[t] = 0
      BY <1>1, <1>2, <1>4, <2>2 DEF SockOK, CallOK, Idle
    <3>4. CallOK(t)'
      BY <1>1, <1>2, <1>4, <2>2, <3>1, <3>3 DEF SockOK, CallOK, Idle
    <3>5. HeldOK(t)'
      BY <1>1, <3>1 DEF SockOK, HeldOK, ReplyTrue, InTable, Handle
    <3> QED BY <3>2, <3>4, <3>5 DEF SockOK
  <2> QED BY <2>1, <2>2
<1>5. CASE FreeSock(s) /\ conn[s] = "closed"
  BY <1>2, <1>5, FreeKeepsSocks
<1> QED BY <1>3, <1>4, <1>5 DEF SendEvent

\* What a step may not do is take away a lock that h names: the ones an unlock
\* finds are those of its owner with its handle.
LEMMA ReleaseKeepsOthers ==
  ASSUME NEW s \in Socks, NEW slot \in Slots, NEW handle, ReleaseLock(s, slot, handle),
         NEW t, NEW h, InTable(t, h), t # s \/ h.slot # slot \/ h.handle # handle
  PROVE  InTable(t, h)'
<1>1. PICK l \in locks : l.owner = t /\ l.slot = h.slot /\ Handle(l) = h.handle
                         /\ l.exclusive = h.exclusive
  BY DEF InTable
<1>2. l \notin Matching(s, slot, handle)
  BY <1>1 DEF Matching
<1>3. l \in locks'
  BY <1>1, <1>2 DEF ReleaseLock, Newest
<1> QED BY <1>1, <1>3 DEF InTable, Handle

\* The requests of one client leave the locks of the others in the table, and
\* its own unless it asks to unlock one.
LEMMA ProcessKeepsLocks ==
  ASSUME NEW s \in Socks, NEW request \in Requests, NEW reply,
         Process(s, request, reply)
  PROVE  /\ \A t \in Socks \ {s} : KeepsLocks(t)
         /\ \A h : /\ InTable(s, h)
                   /\ request.cmd = "UNLOCK" =>
                        h.slot # request.unit \/ h.handle # request.arg
                   => InTable(s, h)'
<1>1. CASE UNCHANGED <<locks, granted>>
  BY <1>1 DEF KeepsLocks, InTable, Handle
<1>2. CASE GrantLock(s, request.unit, request.arg)
  BY <1>2 DEF GrantLock, KeepsLocks, InTable, Handle
<1>3. CASE /\ request.cmd = "UNLOCK" /\ request.unit \in Slots
           /\ ReleaseLock(s, request.unit, request.arg)
  <2>1. \A t \in Socks \ {s} : KeepsLocks(t)
    BY <1>3 DEF ReleaseLock, Newest, Matching, KeepsLocks
  <2> QED BY <1>3, <2>1, ReleaseKeepsOthers
<1> QED BY <1>1, <1>2, <1>3, ProcessEffect

\* A granted lock is the one the reply tells of.
LEMMA ReplyToLock ==
  ASSUME HandlerInv, NEW s \in Socks, NEW request \in Requests, NEW reply,
         Process(s, request, reply),
         request.cmd = "LOCK", reply.error = "none"
  PROVE  /\ request.unit \in Slots
         /\ InTable(s, [slot |-> request.unit, handle |-> reply.handle,
                        exclusive |-> (request.arg = Exclusive)])'
<1>1. /\ request.unit \in Slots
      /\ GrantLock(s, request.unit, request.arg)
      /\ reply = Ok(granted % HandleLimit)
  BY ProcessEffect
<1> DEFINE l == NewLock(s, request.unit, request.arg)
<1>2. l \in locks'
  BY <1>1 DEF GrantLock
<1>3. l.owner = s /\ l.slot = request.unit /\ l.exclusive = (request.arg = Exclusive)
      /\ Handle(l) = granted % HandleLimit
  BY DEF NewLock, Handle
<1>4. reply.handle = granted % HandleLimit
  BY <1>1 DEF Ok
<1> HIDE DEF l
<1> QED BY <1>1, <1>2, <1>3, <1>4 DEF InTable, Handle

\* Reading: the end of file, a part of a request, or a request and its reply.
LEMMA RecvKeepsSocks ==
  ASSUME HandlerAssumption, HandlerInv, NEW s \in Socks, RecvEvent(s),
         NEW t \in Socks
  PROVE  SockOK(t)'
<1> USE DEF Served, Set
<1>1. Functions /\ SockOK(t) /\ SockOK(s)
  BY InvFunctions DEF HandlerInv
<1>2. /\ alive /\ todo[s] = {"in"} /\ todo' = [todo EXCEPT ![s] = {}]
  BY DEF RecvEvent
<1>3. Open(s) /\ conn[s] # "none"
  BY <1>1, <1>2 DEF SockOK, TodoOK, ConnOK
<1>4. inq[s] \in 0 .. Pieces /\ rbuf[s] \in 0 .. (Pieces - 1)
      /\ unsent[s] \in 0 .. Pieces
  BY <1>1 DEF Functions
<1>5. CASE inq[s] = 0 /\ FreeSock(s)
  <2>1. conn[s] = "closed"
    BY <1>1, <1>2, <1>5 DEF SockOK, TodoOK
  <2> QED BY <1>2, <1>5, <2>1, FreeKeepsSocks
<1>6. CASE /\ inq[s] > 0 /\ rbuf[s] + inq[s] < Pieces
           /\ rbuf' = [rbuf EXCEPT ![s] = rbuf[s] + inq[s]]
           /\ inq' = [inq EXCEPT ![s] = 0]
           /\ UNCHANGED <<lockVars, alive, sbuf, events, clientVars, backlog, outq,
                          reset, card>>
  <2>1. CASE t # s
    <3>1. SameAt(t) /\ KeepsLocks(t) /\ alive' = alive
      BY <1>1, <1>2, <1>6, <2>1
         DEF SameAt, KeepsLocks, Functions, lockVars, clientVars
    <3> QED BY <3>1, <1>1, SockFrame
  <2>2. CASE t = s
    <3>1. /\ todo'[t] = {} /\ inq'[t] = 0 /\ rbuf'[t] = rbuf[t] + inq[t]
          /\ UNCHANGED <<uid, locks, alive, sbuf, conn, cred, packet, waiting,
                         unsent, held, outq, reset>>
      BY <1>1, <1>2, <1>6, <2>2 DEF Functions, lockVars, clientVars
    <3>2. TodoOK(t)' /\ ConnOK(t)'
      BY <1>1, <3>1 DEF SockOK, TodoOK, ConnOK, Open
    <3>3. CallOK(t)'
      BY <1>1, <1>2, <1>3, <1>4, <1>6, <2>2, <3>1 DEF SockOK, CallOK, Idle
    <3>4. HeldOK(t)'
      BY <1>1, <3>1 DEF SockOK, HeldOK, ReplyTrue, InTable, Handle
    <3> QED BY <3>2, <3>3, <3>4 DEF SockOK
  <2> QED BY <2>1, <2>2
<1>7. ASSUME NEW reply \in Replies,
             inq[s] > 0, rbuf[s] + inq[s] = Pieces,
             Process(s, packet[s], reply),
             rbuf' = [rbuf EXCEPT ![s] = 0], inq' = [inq EXCEPT ![s] = 0],
             sbuf' = [sbuf EXCEPT ![s] = reply],
             UNCHANGED <<uid, alive, clientVars, backlog, outq, reset>>
      PROVE  SockOK(t)'
  <2>1. packet[s] \in Requests /\ unsent[s] = 0 /\ outq[s] = None
        /\ (conn[s] = "open" => waiting[s])
    BY <1>1, <1>2, <1>4, <1>7 DEF SockOK, CallOK, Idle
  <2>2. CASE t # s
    <3>1. SameAt(t) /\ alive' = alive
      BY <1>1, <1>2, <1>7, <2>2 DEF SameAt, Functions, clientVars
    <3>2. KeepsLocks(t)
      BY <1>7, <2>1, <2>2, ProcessKeepsLocks
    <3> QED BY <3>1, <3>2, <1>1, SockFrame
  <2>3. CASE t = s
    <3>1. /\ todo'[t] = {} /\ inq'[t] = 0 /\ rbuf'[t] = 0 /\ sbuf'[t] = reply
          /\ UNCHANGED <<uid, alive, conn, cred, packet, waiting,
                         unsent, held, outq, reset>>
      BY <1>1, <1>2, <1>7, <2>3 DEF Functions, clientVars
    <3>2. TodoOK(t)' /\ ConnOK(t)'
      BY <1>1, <3>1 DEF SockOK, TodoOK, ConnOK, Open
    <3>3. CallOK(t)'
      BY <1>1, <1>2, <1>3, <2>1, <2>3, <3>1 DEF SockOK, CallOK, Idle, HandlerAssumption
    <3>4. \A h \in held[t] : InTable(t, h)'
      <4>1. SUFFICES ASSUME NEW h \in held[t] PROVE InTable(t, h)'
        OBVIOUS
      <4>2. waiting[t]
        BY <1>1, <2>1, <2>3, <4>1 DEF SockOK, ConnOK
      <4>3. /\ InTable(t, h)
            /\ packet[t].cmd = "UNLOCK" =>
                 h.slot # packet[t].unit \/ h.handle # packet[t].arg
        BY <1>1, <1>2, <4>1, <4>2 DEF SockOK, HeldOK
      <4> QED BY <4>3, <1>7, <2>1, <2>3, ProcessKeepsLocks
    <3>5. ReplyTrue(t, sbuf[t])'
      BY <1>7, <2>1, <2>3, <3>1, ReplyToLock DEF ReplyTrue
    <3>6. HeldOK(t)'
      BY <1>1, <2>1, <2>3, <3>1, <3>4, <3>5 DEF SockOK, HeldOK, ReplyTrue
    <3> QED BY <3>2, <3>3, <3>6 DEF SockOK
  <2> QED BY <2>2, <2>3
<1> QED BY <1>5, <1>6, <1>7 DEF RecvEvent

\* A step of the client at s alone leaves the other connections in order.
LEMMA ClientFrame ==
  ASSUME HandlerInv, NEW s \in Socks, Client(s), NEW t \in Socks, t # s
  PROVE  SockOK(t)'
<1> USE DEF Set
<1>1. Functions /\ SockOK(t)
  BY InvFunctions DEF HandlerInv
<1>2. KeepsLocks(t) /\ alive' = alive /\ UNCHANGED <<uid, rbuf, sbuf, todo>>
  BY ClientLocks
     DEF KeepsLocks, lockVars, serverVars, Client, Connect, Call, Write, Return,
         Fail, Disconnect
<1>3. SameAt(t)
  <2>1. CASE Connect(s)
    BY <1>1, <1>2, <2>1 DEF SameAt, Functions, Connect
  <2>2. CASE Call(s)
    <3>1. /\ held'[t] = held[t] /\ packet'[t] = packet[t]
          /\ waiting'[t] = waiting[t] /\ unsent'[t] = unsent[t]
      BY <1>1, <2>2 DEF Functions, Call
    <3> QED BY <1>2, <2>2, <3>1 DEF SameAt, Call, netVars
  <2>3. CASE Write(s)
    BY <1>1, <1>2, <2>3 DEF SameAt, Functions, Write
  <2>4. CASE Return(s)
    <3>1. held'[t] = held[t]
      BY <1>1, <2>4 DEF Functions, Return
    <3> QED BY <1>1, <1>2, <2>4, <3>1 DEF SameAt, Functions, Return
  <2>5. CASE Fail(s)
    BY <1>1, <1>2, <2>5 DEF SameAt, Functions, Fail, netVars
  <2>6. CASE Disconnect(s)
    BY <1>1, <1>2, <2>6 DEF SameAt, Functions, Disconnect
  <2> QED BY <2>1, <2>2, <2>3, <2>4, <2>5, <2>6 DEF Client
<1> QED BY <1>1, <1>2, <1>3, SockFrame

\* A sum of pieces is zero only if there is no piece anywhere.
LEMMA NothingIn ==
  ASSUME NEW i \in Nat, NEW j \in Nat, NEW k \in Nat, i + j + k = 0
  PROVE  i = 0 /\ j = 0 /\ k = 0
  OBVIOUS

\* And its own.
LEMMA ClientKeepsSock ==
  ASSUME HandlerAssumption, LocksAssumption, HandlerInv, NEW s \in Socks, Client(s)
  PROVE  SockOK(s)'
<1> USE DEF Set
<1>1. Functions /\ SockOK(s)
  BY InvFunctions DEF HandlerInv
<1>2. alive' = alive /\ UNCHANGED <<uid, locks, rbuf, sbuf, todo>>
  BY ClientLocks
     DEF lockVars, serverVars, Client, Connect, Call, Write, Return, Fail, Disconnect
<1>3. \A h : InTable(s, h) => InTable(s, h)'
  BY <1>2 DEF InTable, Handle
<1>4. /\ inq[s] \in 0 .. Pieces /\ rbuf[s] \in 0 .. (Pieces - 1)
      /\ unsent[s] \in 0 .. Pieces /\ Pieces \in Nat \ {0}
  BY <1>1 DEF Functions, HandlerAssumption
<1>5. CASE Connect(s)
  <2>1. /\ alive /\ conn[s] = "none" /\ ~Open(s) /\ conn'[s] = "open"
        /\ cred'[s] \in Uids
        /\ UNCHANGED <<packet, waiting, unsent, held, inq, outq, reset>>
    BY <1>1, <1>5 DEF Connect, Functions
  <2> QED BY <1>1, <1>2, <2>1
          DEF SockOK, TodoOK, ConnOK, CallOK, HeldOK, ReplyTrue, Idle, Open
<1>6. CASE Call(s)
  <2>1. PICK request \in Requests :
          /\ packet' = [packet EXCEPT ![s] = request]
          /\ held' = IF request.cmd = "UNLOCK"
                     THEN [held EXCEPT ![s] =
                             {h \in held[s] : h.slot # request.unit
                                              \/ h.handle # request.arg}]
                     ELSE held
    BY <1>6 DEF Call
  <2>2. /\ conn[s] = "open" /\ ~waiting[s]
        /\ packet'[s] = request /\ waiting'[s] = TRUE /\ unsent'[s] = Pieces
        /\ UNCHANGED <<conn, cred, inq, outq, reset>>
    BY <1>1, <1>6, <2>1 DEF Call, Functions, netVars
  <2>3. Idle(s) /\ outq[s] = None
    BY <1>1, <2>2 DEF SockOK, CallOK
  <2>4. /\ held'[s] \subseteq held[s]
        /\ request.cmd = "UNLOCK" =>
             \A h \in held'[s] : h.slot # request.unit \/ h.handle # request.arg
    BY <1>1, <2>1 DEF Functions
  <2>5. TodoOK(s)' /\ ConnOK(s)' /\ CallOK(s)'
    BY <1>1, <1>2, <1>4, <2>2, <2>3 DEF SockOK, TodoOK, ConnOK, CallOK, Idle, Open
  <2>6. HeldOK(s)'
    BY <1>1, <1>2, <1>3, <2>2, <2>3, <2>4 DEF SockOK, HeldOK, ReplyTrue, Idle
  <2> QED BY <2>5, <2>6 DEF SockOK
<1>7. CASE Write(s)
  <2>1. /\ alive /\ unsent[s] > 0
        /\ unsent'[s] = unsent[s] - 1 /\ inq'[s] = inq[s] + 1
        /\ UNCHANGED <<conn, cred, packet, waiting, held, outq, reset>>
    BY <1>1, <1>7 DEF Write, Functions
  <2>2. waiting[s] /\ conn[s] = "open"
    BY <1>1, <1>4, <2>1 DEF SockOK, ConnOK, CallOK, Functions
  <2>3. TodoOK(s)' /\ ConnOK(s)' /\ CallOK(s)'
    BY <1>1, <1>2, <1>4, <2>1, <2>2 DEF SockOK, TodoOK, ConnOK, CallOK, Idle, Open
  <2>4. HeldOK(s)'
    BY <1>1, <1>2, <1>3, <2>1 DEF SockOK, HeldOK, ReplyTrue
  <2> QED BY <2>3, <2>4 DEF SockOK
<1>8. CASE Return(s)
  <2> DEFINE new == [slot |-> packet[s].unit, handle |-> outq[s].handle,
                     exclusive |-> packet[s].arg = Exclusive]
  <2>1. /\ waiting[s] /\ outq[s] # None
        /\ waiting'[s] = FALSE /\ outq'[s] = None
        /\ UNCHANGED <<conn, cred, unsent, inq, reset>>
    BY <1>1, <1>8 DEF Return, Functions
  <2>2. conn[s] = "open" /\ Idle(s) /\ unsent[s] = 0
    <3>1. ConnOK(s) /\ CallOK(s) /\ conn[s] \in {"none", "open", "closed"}
      BY <1>1 DEF SockOK, Functions
    <3>2. unsent[s] + inq[s] + rbuf[s] = 0 /\ sbuf[s] = None
      BY <2>1, <3>1 DEF CallOK
    <3>3. unsent[s] \in Nat /\ inq[s] \in Nat /\ rbuf[s] \in Nat
      BY <1>4
    <3>4. unsent[s] = 0 /\ inq[s] = 0 /\ rbuf[s] = 0
      BY <3>2, <3>3, NothingIn
    <3>5. conn[s] = "open"
      BY <2>1, <3>1 DEF ConnOK
    <3> QED BY <3>2, <3>4, <3>5 DEF Idle
  <2>3. \A h \in held'[s] : h \in held[s]
                            \/ (h = new /\ packet[s].cmd = "LOCK"
                                        /\ outq[s].error = "none")
    BY <1>1, <1>8 DEF Return, Functions
  <2>4. \A h \in held'[s] : alive => InTable(s, h)
    BY <1>1, <2>1, <2>3 DEF SockOK, HeldOK, ReplyTrue
  <2>5. TodoOK(s)' /\ ConnOK(s)' /\ CallOK(s)'
    BY <1>1, <1>2, <1>4, <2>1, <2>2 DEF SockOK, TodoOK, ConnOK, CallOK, Idle, Open
  <2>6. HeldOK(s)'
    BY <1>2, <1>3, <2>1, <2>4 DEF HeldOK, ReplyTrue
  <2> QED BY <2>5, <2>6 DEF SockOK
<1>9. CASE Fail(s)
  <2>1. /\ ~alive /\ outq[s] = None
        /\ waiting'[s] = FALSE /\ unsent'[s] = 0
        /\ UNCHANGED <<conn, cred, packet, held, inq, outq, reset>>
    BY <1>1, <1>9 DEF Fail, Functions, netVars
  <2>2. TodoOK(s)' /\ ConnOK(s)' /\ CallOK(s)'
    BY <1>1, <1>2, <1>4, <2>1 DEF SockOK, TodoOK, ConnOK, CallOK, Idle, Open
  <2>3. HeldOK(s)'
    BY <1>2, <2>1 DEF HeldOK, ReplyTrue
  <2> QED BY <2>2, <2>3 DEF SockOK
<1>10. CASE Disconnect(s)
  <2>1. /\ conn[s] = "open" /\ conn'[s] = "closed"
        /\ waiting'[s] = FALSE /\ unsent'[s] = 0 /\ held'[s] = {} /\ outq'[s] = None
        /\ UNCHANGED <<cred, packet, inq>>
    BY <1>1, <1>10 DEF Disconnect, Functions
  <2>2. TodoOK(s)' /\ ConnOK(s)'
    BY <1>1, <1>2, <2>1 DEF SockOK, TodoOK, ConnOK, Open
  <2>3. CallOK(s)'
    <3>1. unsent[s] \in Nat /\ inq[s] \in Nat /\ rbuf[s] \in Nat
      BY <1>4
    <3>2. /\ unsent[s] + inq[s] + rbuf[s] <= Pieces
          /\ sbuf[s] # None => unsent[s] + inq[s] + rbuf[s] = 0
      BY <1>1 DEF SockOK, CallOK
    <3>3. /\ 0 + inq[s] + rbuf[s] <= Pieces
          /\ sbuf[s] # None => 0 + inq[s] + rbuf[s] = 0
      BY <1>4, <3>1, <3>2
    <3> QED BY <1>1, <1>2, <2>1, <3>3 DEF SockOK, CallOK, Idle
  <2>4. HeldOK(s)'
    BY <2>1 DEF HeldOK, ReplyTrue
  <2> QED BY <2>2, <2>3, <2>4 DEF SockOK
<1> QED BY <1>5, <1>6, <1>7, <1>8, <1>9, <1>10 DEF Client

-------------------------------------------------------------------------------
(* The backlog *)

\* What keeps the backlog in order when it does not change itself.
LEMMA BacklogFrame ==
  ASSUME HandlerInv, backlog' = backlog,
         \A s \in Socks : ~Open(s) /\ conn[s] # "none" =>
                            ~Open(s)' /\ conn'[s] # "none",
         todo'[Listener] = todo[Listener]
  PROVE  BacklogOK'
<1>1. \A i \in 1 .. Len(backlog) : backlog[i] \in Socks
  BY ElementOfSeq DEF HandlerInv, HandlerTypeOK
<1> QED BY <1>1 DEF HandlerInv, BacklogOK

\* The event loop takes connections from the head of the backlog only.
LEMMA ServerKeepsBacklog ==
  ASSUME HandlerAssumption, HandlerInv, Server
  PROVE  BacklogOK'
<1>1. Functions
  BY InvFunctions
<1>2. CASE Poll
  <2>1. /\ UNCHANGED <<uid, conn, backlog>>
        /\ todo'[Listener] = ListenerRevents
    BY <1>2 DEF Poll, lockVars, clientVars, netVars
  <2> QED BY <2>1 DEF HandlerInv, BacklogOK, ListenerRevents, Open
<1>3. CASE AcceptEvent
  <2>1. /\ backlog \in Seq(Socks) /\ backlog # <<>> /\ Head(backlog) = backlog[1]
        /\ Head(backlog) \in Socks
    BY <1>3, BacklogHead DEF AcceptEvent
  <2>2. /\ uid' = [uid EXCEPT ![Head(backlog)] = cred[Head(backlog)]]
        /\ backlog' = Tail(backlog) /\ conn' = conn
        /\ todo'[Listener] = {}
    BY <1>1, <1>3 DEF AcceptEvent, OpenSock, Served, Set, clientVars, Functions
  <2>3. /\ Len(backlog') = Len(backlog) - 1 /\ Len(backlog) \in Nat
        /\ \A i \in 1 .. Len(backlog') : backlog'[i] = backlog[i + 1]
    BY <2>1, <2>2, HeadTailProperties, LenProperties
  <2>4. \A i \in 1 .. Len(backlog') : i + 1 \in 1 .. Len(backlog) /\ i + 1 # 1
    BY <2>3
  <2>5. \A i \in 1 .. Len(backlog) : backlog[i] \in Socks
    BY <2>1, ElementOfSeq
  <2>6. 1 \in 1 .. Len(backlog)
    BY <1>3, BacklogHead DEF AcceptEvent
  <2>7. ASSUME NEW i \in 1 .. Len(backlog')
        PROVE  uid'[backlog'[i]] = NoUid /\ conn'[backlog'[i]] # "none"
    <3>1. ~Open(backlog[i + 1]) /\ conn[backlog[i + 1]] # "none"
          /\ backlog[i + 1] # Head(backlog) /\ backlog[i + 1] \in Socks
      BY <2>1, <2>4, <2>5, <2>6 DEF HandlerInv, BacklogOK
    <3> QED BY <1>1, <2>2, <2>3, <3>1 DEF Open, Functions
  <2>8. ASSUME NEW i \in 1 .. Len(backlog'), NEW j \in 1 .. Len(backlog'),
               backlog'[i] = backlog'[j]
        PROVE  i = j
    <3>1. i + 1 = j + 1
      BY <2>3, <2>4, <2>8 DEF HandlerInv, BacklogOK
    <3> QED BY <3>1
  <2> QED BY <2>2, <2>7, <2>8 DEF BacklogOK, Open
<1>4. ASSUME NEW s \in Socks, ErrorEvent(s)
      PROVE  BacklogOK'
  <2>1. backlog' = <<>> /\ todo'[Listener] = {}
    BY <1>4 DEF ErrorEvent
  <2> QED BY <2>1 DEF BacklogOK
<1>5. ASSUME NEW s \in Socks, FreeSock(s), Served(s)
      PROVE  BacklogOK'
  <2>1. backlog' = backlog /\ Open(s) /\ uid' = [uid EXCEPT ![s] = NoUid]
        /\ (conn' = conn \/ conn' = [conn EXCEPT ![s] = "none"])
        /\ todo' = [todo EXCEPT ![s] = {}]
    BY <1>5 DEF FreeSock, CloseSock, Served, Set
  <2>2. todo'[Listener] = todo[Listener]
    BY <1>1, <2>1 DEF HandlerAssumption, Functions
  <2>3. \A t \in Socks : ~Open(t) /\ conn[t] # "none" =>
                           ~Open(t)' /\ conn'[t] # "none"
    BY <1>1, <2>1 DEF Open, Functions
  <2> QED BY <2>1, <2>2, <2>3, BacklogFrame
<1>6. ASSUME NEW s \in Socks, Served(s), UNCHANGED <<uid, conn, backlog>>
      PROVE  BacklogOK'
  <2>1. todo'[Listener] = todo[Listener]
    BY <1>1, <1>6 DEF Served, Set, HandlerAssumption, Functions
  <2> QED BY <1>6, <2>1, BacklogFrame DEF Open
<1>7. ASSUME NEW s \in Socks, SendEvent(s)
      PROVE  Served(s) /\ (FreeSock(s) \/ UNCHANGED <<uid, conn, backlog>>)
  BY <1>7 DEF SendEvent, lockVars, clientVars, netVars
<1>8. ASSUME NEW s \in Socks, RecvEvent(s)
      PROVE  Served(s) /\ (FreeSock(s) \/ UNCHANGED <<uid, conn, backlog>>)
  BY <1>8 DEF RecvEvent, lockVars, clientVars, netVars
<1> QED BY <1>2, <1>3, <1>4, <1>5, <1>6, <1>7, <1>8 DEF Server

\* A client joins the backlog once, with a connection that is new.
LEMMA ClientKeepsBacklog ==
  ASSUME HandlerAssumption, HandlerInv, NEW s \in Socks, Client(s)
  PROVE  BacklogOK'
<1> USE DEF Set
<1>1. Functions
  BY InvFunctions
<1>2. UNCHANGED <<uid, todo>>
  BY ClientLocks
     DEF lockVars, serverVars, Client, Connect, Call, Write, Return, Fail, Disconnect
<1>3. CASE Connect(s)
  <2>1. backlog \in Seq(Socks) /\ Len(backlog) \in Nat
    BY LenProperties DEF HandlerInv, HandlerTypeOK
  <2>2. /\ conn[s] = "none" /\ ~Open(s) /\ conn' = [conn EXCEPT ![s] = "open"]
        /\ backlog' = Append(backlog, s)
    BY <1>3 DEF Connect
  <2>3. /\ Len(backlog') = Len(backlog) + 1
        /\ \A i \in 1 .. Len(backlog) : backlog'[i] = backlog[i]
        /\ backlog'[Len(backlog) + 1] = s
        /\ backlog' # <<>>
    BY <2>1, <2>2
  <2>4. \A i \in 1 .. Len(backlog) : backlog[i] \in Socks /\ backlog[i] # s
                                     /\ ~Open(backlog[i])
                                     /\ conn[backlog[i]] # "none"
    BY <2>1, <2>2, ElementOfSeq DEF HandlerInv, BacklogOK
  <2>5. \A i \in 1 .. Len(backlog') : i \in 1 .. Len(backlog) \/ i = Len(backlog) + 1
    BY <2>1, <2>3
  <2>6. \A i \in 1 .. Len(backlog') : uid'[backlog'[i]] = NoUid /\ conn'[backlog'[i]] # "none"
    BY <1>1, <1>2, <2>2, <2>3, <2>4, <2>5 DEF Open, Functions
  <2>7. \A i, j \in 1 .. Len(backlog') : backlog'[i] = backlog'[j] => i = j
    BY <2>3, <2>4, <2>5 DEF HandlerInv, BacklogOK
  <2> QED BY <1>2, <2>2, <2>3, <2>6, <2>7 DEF BacklogOK, Open
<1>4. CASE ~Connect(s)
  <2>1. backlog' = backlog /\ (conn' = conn \/ conn' = [conn EXCEPT ![s] = "closed"])
    BY <1>4 DEF Client, Call, Write, Return, Fail, Disconnect, netVars
  <2> QED BY <1>1, <1>2, <2>1, BacklogFrame DEF Open, Functions
<1> QED BY <1>3, <1>4

-------------------------------------------------------------------------------
(* The types *)

\* HandlerTypeOK without what LocksInv says.
Types == /\ Functions
         /\ alive \in BOOLEAN
         /\ backlog \in Seq(Socks)
         /\ card \in [Slots -> Socks \cup {None}]

\* The invariant has them.
LEMMA InvTypes == HandlerInv => Types
  BY InvFunctions DEF HandlerInv, HandlerTypeOK, Types

\* Both together are HandlerTypeOK.
LEMMA TypesOK == LocksInv /\ Types => HandlerTypeOK
  BY DEF LocksInv, Types, Functions, HandlerTypeOK

\* The same of the state after a step.
LEMMA TypesOKNext == LocksInv' /\ Types' => HandlerTypeOK'
  BY DEF LocksInv, Types, Functions, HandlerTypeOK

\* A request changes the card of its slot only.
LEMMA ProcessKeepsCard ==
  ASSUME NEW s \in Socks, NEW request, NEW reply, Process(s, request, reply),
         card \in [Slots -> Socks \cup {None}]
  PROVE  card' \in [Slots -> Socks \cup {None}]
<1>1. \A slot : card' = Set(card, slot, s) => card' \in [Slots -> Socks \cup {None}]
  BY DEF Set
<1>2. CASE DoLock(s, request.unit, request.arg, reply)
  BY <1>2 DEF DoLock, NoEffect
<1>3. CASE DoUnlock(s, request.unit, request.arg, reply)
  BY <1>3 DEF DoUnlock, NoEffect
<1>4. CASE DoTransactOld(s, request.unit, reply)
  BY <1>1, <1>4 DEF DoTransactOld, NoEffect, UseCard
<1>5. CASE DoCardCommand(s, request.unit, reply)
  BY <1>1, <1>5 DEF DoCardCommand, NoEffect, UseCard
<1>6. CASE NoEffect
  BY <1>6 DEF NoEffect
<1> QED BY <1>2, <1>3, <1>4, <1>5, <1>6 DEF Process

\* A step of the event loop keeps the types.
LEMMA ServerKeepsTypes ==
  ASSUME HandlerAssumption, LocksAssumption, HandlerInv, Server, LocksInv'
  PROVE  Types'
<1> USE DEF Set
<1>1. Types /\ Functions
  BY InvTypes DEF Types
<1>2. uid' \in [Socks -> Uids \cup {NoUid}]
  BY DEF LocksInv, LocksTypeOK
<1>3. CASE Poll
  <2>1. UNCHANGED <<alive, rbuf, sbuf, events, clientVars, netVars, card>>
    BY <1>3 DEF Poll
  <2>2. todo' \in [Socks \cup {Listener} -> SUBSET {"err", "in", "out"}]
    <3>1. \A s \in Socks : Revents(s) \in SUBSET {"err", "in", "out"}
      BY DEF Revents
    <3>2. ListenerRevents \in SUBSET {"err", "in", "out"}
      BY DEF ListenerRevents
    <3> QED BY <1>3, <3>1, <3>2 DEF Poll
  <2> QED BY <1>1, <1>2, <2>1, <2>2 DEF Types, Functions, clientVars, netVars
<1>4. CASE AcceptEvent
  <2>1. /\ UNCHANGED <<alive, rbuf, sbuf, events, clientVars, inq, outq, reset, card>>
        /\ todo' = [todo EXCEPT ![Listener] = {}]
        /\ backlog' = Tail(backlog)
    BY <1>4 DEF AcceptEvent, Served, OpenSock
  <2>2. backlog' \in Seq(Socks)
    BY <1>4, <2>1, BacklogHead, HeadTailProperties DEF AcceptEvent
  <2>3. UNCHANGED events
    BY <2>1
  <2> QED BY <1>1, <1>2, <2>1, <2>2, <2>3 DEF Types, Functions, clientVars
<1>5. ASSUME NEW s \in Socks, ErrorEvent(s)
      PROVE  Types'
  <2>1. /\ alive' = FALSE
        /\ todo' = [x \in Socks \cup {Listener} |-> {}]
        /\ rbuf' = Empty(0) /\ sbuf' = Empty(None) /\ events' = Empty("in")
        /\ inq' = Empty(0) /\ reset' = Empty(FALSE) /\ backlog' = <<>>
        /\ UNCHANGED <<clientVars, outq, card>>
    BY <1>5 DEF ErrorEvent
  <2>2. /\ rbuf' \in [Socks -> 0 .. (Pieces - 1)]
        /\ inq' \in [Socks -> 0 .. Pieces]
    BY <2>1 DEF Empty, HandlerAssumption
  <2>3. backlog' \in Seq(Socks)
    BY <2>1, EmptySeq
  <2>4. /\ todo' \in [Socks \cup {Listener} -> SUBSET {"err", "in", "out"}]
        /\ sbuf' \in [Socks -> Replies \cup {None}]
        /\ events' \in [Socks -> {"in", "out"}]
        /\ reset' \in [Socks -> BOOLEAN]
    BY <2>1 DEF Empty
  <2> QED BY <1>1, <1>2, <2>1, <2>2, <2>3, <2>4 DEF Types, Functions, clientVars
<1>6. ASSUME NEW s \in Socks, FreeSock(s), Served(s)
      PROVE  Types'
  <2>1. /\ rbuf' = [rbuf EXCEPT ![s] = 0] /\ sbuf' = [sbuf EXCEPT ![s] = None]
        /\ events' = [events EXCEPT ![s] = "in"]
        /\ inq' = [inq EXCEPT ![s] = 0] /\ reset' = [reset EXCEPT ![s] = FALSE]
        /\ todo' = [todo EXCEPT ![s] = {}]
        /\ conn' = conn \/ conn' = [conn EXCEPT ![s] = "none"]
        /\ cred' = cred \/ cred' = [cred EXCEPT ![s] = NoUid]
        /\ packet' = packet \/ packet' = [packet EXCEPT ![s] = None]
        /\ UNCHANGED <<alive, card, backlog, outq, waiting, unsent, held>>
    BY <1>6 DEF FreeSock, Served
  <2>2. 0 \in 0 .. Pieces /\ 0 \in 0 .. (Pieces - 1)
    BY DEF HandlerAssumption
  <2>3. conn' \in [Socks -> {"none", "open", "closed"}]
    BY <1>1, <2>1 DEF Functions
  <2>4. cred' \in [Socks -> Uids \cup {NoUid}]
    BY <1>1, <2>1 DEF Functions
  <2>5. packet' \in [Socks -> Requests \cup {None}]
    BY <1>1, <2>1 DEF Functions
  <2>6. /\ rbuf' \in [Socks -> 0 .. (Pieces - 1)]
        /\ inq' \in [Socks -> 0 .. Pieces]
    BY <1>1, <2>1, <2>2 DEF Functions
  <2>7. /\ sbuf' \in [Socks -> Replies \cup {None}]
        /\ events' \in [Socks -> {"in", "out"}]
        /\ reset' \in [Socks -> BOOLEAN]
        /\ todo' \in [Socks \cup {Listener} -> SUBSET {"err", "in", "out"}]
    BY <1>1, <2>1 DEF Functions
  <2> QED BY <1>1, <1>2, <2>1, <2>3, <2>4, <2>5, <2>6, <2>7 DEF Types, Functions
<1>7. ASSUME NEW s \in Socks, SendEvent(s), ~FreeSock(s)
      PROVE  Types'
  <2>1. /\ todo' = [todo EXCEPT ![s] = {}]
        /\ events' = events \/ events' = [events EXCEPT ![s] = "in"]
        /\ sbuf' = sbuf \/ sbuf' = [sbuf EXCEPT ![s] = None]
        /\ outq' = outq \/ outq' = [outq EXCEPT ![s] = sbuf[s]]
        /\ UNCHANGED <<alive, rbuf, clientVars, backlog, inq, reset, card>>
    BY <1>7 DEF SendEvent, Served, netVars
  <2>2. events' \in [Socks -> {"in", "out"}]
    BY <1>1, <2>1 DEF Functions
  <2>3. sbuf' \in [Socks -> Replies \cup {None}]
    BY <1>1, <2>1 DEF Functions
  <2>4. outq' \in [Socks -> Replies \cup {None}]
    BY <1>1, <2>1 DEF Functions
  <2>5. todo' \in [Socks \cup {Listener} -> SUBSET {"err", "in", "out"}]
    BY <1>1, <2>1 DEF Functions
  <2> QED BY <1>1, <1>2, <2>1, <2>2, <2>3, <2>4, <2>5 DEF Types, Functions, clientVars
<1>8. ASSUME NEW s \in Socks, RecvEvent(s), ~FreeSock(s)
      PROVE  Types'
  <2>1. CASE /\ inq[s] > 0 /\ rbuf[s] + inq[s] < Pieces
             /\ rbuf' = [rbuf EXCEPT ![s] = rbuf[s] + inq[s]]
             /\ inq' = [inq EXCEPT ![s] = 0]
             /\ UNCHANGED <<lockVars, alive, sbuf, events, clientVars, backlog, outq,
                            reset, card>>
    <3>1. rbuf[s] + inq[s] \in 0 .. (Pieces - 1) /\ 0 \in 0 .. Pieces
      BY <1>1, <2>1 DEF Functions, HandlerAssumption
    <3>2. todo' = [todo EXCEPT ![s] = {}]
      BY <1>8 DEF RecvEvent, Served
    <3> QED BY <1>1, <1>2, <2>1, <3>1, <3>2 DEF Types, Functions, clientVars
  <2>2. ASSUME NEW reply \in Replies,
               Process(s, packet[s], reply),
               rbuf' = [rbuf EXCEPT ![s] = 0], inq' = [inq EXCEPT ![s] = 0],
               sbuf' = [sbuf EXCEPT ![s] = reply],
               events' = [events EXCEPT ![s] = "out"],
               UNCHANGED <<uid, alive, clientVars, backlog, outq, reset>>
        PROVE  Types'
    <3>1. card' \in [Slots -> Socks \cup {None}]
      BY <1>1, <2>2, ProcessKeepsCard DEF Types
    <3>2. 0 \in 0 .. Pieces /\ 0 \in 0 .. (Pieces - 1)
      BY DEF HandlerAssumption
    <3>3. todo' = [todo EXCEPT ![s] = {}]
      BY <1>8 DEF RecvEvent, Served
    <3> QED BY <1>1, <1>2, <2>2, <3>1, <3>2, <3>3 DEF Types, Functions, clientVars
  <2> QED BY <1>8, <2>1, <2>2 DEF RecvEvent
<1>9. \A s \in Socks : SendEvent(s) \/ RecvEvent(s) => Served(s)
  BY DEF SendEvent, RecvEvent
<1> QED BY <1>3, <1>4, <1>5, <1>6, <1>7, <1>8, <1>9 DEF Server

\* A step of a client keeps the types.
LEMMA ClientKeepsTypes ==
  ASSUME HandlerAssumption, LocksAssumption, HandlerInv, NEW s \in Socks, Client(s)
  PROVE  Types'
<1> USE DEF Set
<1>1. Types /\ Functions /\ SockOK(s)
  BY InvTypes DEF Types, HandlerInv
<1>2. UNCHANGED <<alive, uid, rbuf, sbuf, events, todo, card>>
  BY ClientLocks
     DEF lockVars, serverVars, Client, Connect, Call, Write, Return, Fail, Disconnect
<1>3. 0 \in 0 .. Pieces /\ Pieces \in 0 .. Pieces
  BY DEF HandlerAssumption
<1>4. CASE Connect(s)
  <2>1. backlog' \in Seq(Socks)
    BY <1>1, <1>4 DEF Connect, Types
  <2>2. cred' \in [Socks -> Uids \cup {NoUid}]
    BY <1>1, <1>4 DEF Connect, Functions
  <2> QED BY <1>1, <1>2, <1>4, <2>1, <2>2 DEF Connect, Types, Functions
<1>5. CASE Call(s)
  <2>1. held' \in [Socks -> SUBSET HeldLock]
    <3>1. PICK request \in Requests :
            held' = IF request.cmd = "UNLOCK"
                    THEN [held EXCEPT ![s] = {h \in held[s] :
                            h.slot # request.unit \/ h.handle # request.arg}]
                    ELSE held
      BY <1>5 DEF Call
    <3> DEFINE rest == {h \in held[s] : h.slot # request.unit
                                        \/ h.handle # request.arg}
    <3>2. rest \in SUBSET HeldLock
      BY <1>1 DEF Functions
    <3> HIDE DEF rest
    <3>3. held' = held \/ held' = [held EXCEPT ![s] = rest]
      BY <3>1 DEF rest
    <3> QED BY <1>1, <3>2, <3>3 DEF Functions
  <2>2. packet' \in [Socks -> Requests \cup {None}]
    BY <1>1, <1>5 DEF Call, Functions
  <2>3. /\ waiting' = [waiting EXCEPT ![s] = TRUE]
        /\ unsent' = [unsent EXCEPT ![s] = Pieces]
        /\ UNCHANGED <<conn, cred, netVars>>
    BY <1>5 DEF Call
  <2> QED BY <1>1, <1>2, <1>3, <2>1, <2>2, <2>3 DEF Types, Functions, netVars
<1>6. CASE Write(s)
  <2>1. unsent[s] - 1 \in 0 .. Pieces /\ inq[s] + 1 \in 0 .. Pieces
    <3>1. /\ unsent[s] \in 0 .. Pieces /\ inq[s] \in 0 .. Pieces
          /\ rbuf[s] \in Nat /\ unsent[s] > 0 /\ Pieces \in Nat
      BY <1>1, <1>6 DEF Functions, Write, HandlerAssumption
    <3>2. unsent[s] + inq[s] + rbuf[s] <= Pieces
      BY <1>1 DEF SockOK, CallOK
    <3> QED BY <3>1, <3>2
  <2>2. /\ unsent' = [unsent EXCEPT ![s] = unsent[s] - 1]
        /\ inq' = [inq EXCEPT ![s] = inq[s] + 1]
        /\ UNCHANGED <<conn, cred, packet, waiting, held, backlog, outq, reset>>
    BY <1>6 DEF Write
  <2> QED BY <1>1, <1>2, <2>1, <2>2 DEF Types, Functions
<1>7. CASE Return(s)
  <2> DEFINE new == [slot |-> packet[s].unit, handle |-> outq[s].handle,
                     exclusive |-> packet[s].arg = Exclusive]
  <2>1. held' = held \/ (/\ packet[s].cmd = "LOCK" /\ outq[s].error = "none"
                         /\ held' = [held EXCEPT ![s] = held[s] \cup {new}])
    BY <1>7 DEF Return
  <2>2. outq[s] \in Replies /\ waiting[s] /\ outq[s] # None
    BY <1>1, <1>7 DEF Return, Functions
  <2>3. packet[s].cmd = "LOCK" /\ outq[s].error = "none" => new \in HeldLock
    <3>1. outq[s].handle \in Handles
      BY <2>2 DEF Replies
    <3>2. packet[s].cmd = "LOCK" /\ outq[s].error = "none" => packet[s].unit \in Slots
      BY <1>1, <2>2 DEF SockOK, HeldOK, ReplyTrue
    <3> QED BY <3>1, <3>2 DEF HeldLock
  <2> HIDE DEF new
  <2>4. held' \in [Socks -> SUBSET HeldLock]
    <3>1. CASE held' = held
      BY <1>1, <3>1 DEF Functions
    <3>2. CASE held' = [held EXCEPT ![s] = held[s] \cup {new}] /\ new \in HeldLock
      <4>1. held[s] \cup {new} \in SUBSET HeldLock
        BY <1>1, <3>2 DEF Functions
      <4> QED BY <1>1, <3>2, <4>1 DEF Functions
    <3> QED BY <2>1, <2>3, <3>1, <3>2
  <2> QED BY <1>1, <1>2, <1>7, <2>4 DEF Return, Types, Functions
<1>8. CASE Fail(s)
  BY <1>1, <1>2, <1>3, <1>8 DEF Fail, Types, Functions, netVars
<1>9. CASE Disconnect(s)
  <2>1. /\ conn' = [conn EXCEPT ![s] = "closed"]
        /\ waiting' = [waiting EXCEPT ![s] = FALSE]
        /\ unsent' = [unsent EXCEPT ![s] = 0]
        /\ held' = [held EXCEPT ![s] = {}]
        /\ outq' = [outq EXCEPT ![s] = None]
        /\ UNCHANGED <<cred, packet, backlog, inq>>
    BY <1>9 DEF Disconnect
  <2>2. reset' \in [Socks -> BOOLEAN]
    <3>1. (alive /\ outq[s] # None) \in BOOLEAN
      BY <1>1 DEF Types
    <3> QED BY <1>1, <1>9, <3>1 DEF Disconnect, Functions
  <2> QED BY <1>1, <1>2, <1>3, <2>1, <2>2 DEF Types, Functions
<1> QED BY <1>4, <1>5, <1>6, <1>7, <1>8, <1>9 DEF Client

-------------------------------------------------------------------------------
(* The invariant of the handler and its clients *)

\* Nobody is connected yet.
LEMMA HandlerInitInv ==
  ASSUME HandlerAssumption, LocksAssumption, Init
  PROVE  HandlerInv
<1>1. LocksInv
  BY LocksInitInv DEF Init
<1>2. uid = [s \in Socks |-> NoUid]
  BY DEF Init, LocksInit
<1>3. Types
  <2>1. backlog \in Seq(Socks)
    BY EmptySeq DEF Init
  <2> QED BY <1>2, <2>1 DEF Init, Types, Functions, Empty, HandlerAssumption
<1>4. BacklogOK
  BY DEF Init, BacklogOK
<1>5. ASSUME NEW s \in Socks
      PROVE  SockOK(s)
  <2>1. /\ uid[s] = NoUid /\ alive /\ rbuf[s] = 0 /\ sbuf[s] = None /\ todo[s] = {}
        /\ conn[s] = "none" /\ waiting[s] = FALSE /\ unsent[s] = 0 /\ held[s] = {}
        /\ inq[s] = 0 /\ outq[s] = None /\ reset[s] = FALSE
    BY <1>2 DEF Init, Empty
  <2> QED BY <2>1 DEF SockOK, TodoOK, ConnOK, CallOK, HeldOK, ReplyTrue, Idle, Open,
                      HandlerAssumption
<1> QED BY <1>1, <1>3, <1>4, <1>5, TypesOK DEF HandlerInv

\* A step of the handler is a step of its lock table, or none.
LEMMA HandlerStepsLocks ==
  ASSUME HandlerInv, [Next]_vars
  PROVE  [LocksNext]_lockVars
<1>1. CASE Server
  BY <1>1, ServerLocks
<1>2. ASSUME NEW s \in Socks, Client(s) PROVE UNCHANGED lockVars
  BY <1>2, ClientLocks
<1>3. CASE UNCHANGED vars
  BY <1>3 DEF vars
<1> QED BY <1>1, <1>2, <1>3 DEF Next

\* Every step keeps the invariant.
LEMMA HandlerStep ==
  ASSUME HandlerAssumption, LocksAssumption, HandlerInv, [Next]_vars
  PROVE  HandlerInv'
<1>1. LocksInv'
  BY HandlerStepsLocks, LocksStep DEF HandlerInv
<1>2. CASE Server
  <2>1. Types' /\ BacklogOK'
    BY <1>1, <1>2, ServerKeepsTypes, ServerKeepsBacklog
  <2>2. ASSUME NEW t \in Socks PROVE SockOK(t)'
    BY <1>2, PollKeepsSocks, AcceptKeepsSocks, ErrorKeepsSocks, SendKeepsSocks,
       RecvKeepsSocks DEF Server
  <2>3. HandlerTypeOK'
    BY <1>1, <2>1, TypesOKNext
  <2> QED BY <1>1, <2>1, <2>2, <2>3 DEF HandlerInv
<1>3. ASSUME NEW s \in Socks, Client(s)
      PROVE  HandlerInv'
  <2>1. Types' /\ BacklogOK'
    BY <1>3, ClientKeepsTypes, ClientKeepsBacklog
  <2>2. ASSUME NEW t \in Socks PROVE SockOK(t)'
    BY <1>3, ClientFrame, ClientKeepsSock
  <2>3. HandlerTypeOK'
    BY <1>1, <2>1, TypesOKNext
  <2> QED BY <1>1, <2>1, <2>2, <2>3 DEF HandlerInv
<1>4. CASE UNCHANGED vars
  <2>1. UNCHANGED <<lockVars, serverVars, clientVars, netVars, card>>
    BY <1>4 DEF vars
  <2>2. BacklogOK'
    BY <2>1 DEF HandlerInv, BacklogOK, Open, lockVars, serverVars, clientVars, netVars
  <2>3. ASSUME NEW t \in Socks PROVE SockOK(t)'
    <3>1. SameAt(t) /\ KeepsLocks(t) /\ alive' = alive
      BY <2>1 DEF SameAt, KeepsLocks, lockVars, serverVars, clientVars, netVars
    <3> QED BY <3>1, SockFrame DEF HandlerInv
  <2>4. Types'
    BY <2>1, InvTypes
       DEF Types, Functions, lockVars, serverVars, clientVars, netVars
  <2>5. HandlerTypeOK'
    BY <1>1, <2>4, TypesOKNext
  <2> QED BY <1>1, <2>2, <2>3, <2>5 DEF HandlerInv
<1> QED BY <1>2, <1>3, <1>4 DEF Next

\* The inductive invariant holds in every state of the handler and its clients.
THEOREM HandlerInvariant == Spec => []HandlerInv
<1> USE HandlerAssumption, LocksAssumption
<1>1. Init => HandlerInv
  BY HandlerInitInv
<1>2. HandlerInv /\ [Next]_vars => HandlerInv'
  BY HandlerStep
<1> QED BY <1>1, <1>2, PTL DEF Spec

-------------------------------------------------------------------------------
(* What follows from it *)

\* The variables of the handler, the kernel and the clients keep their types.
THEOREM HandlerTypeCorrect == Spec => []HandlerTypeOK
<1>1. HandlerInv => HandlerTypeOK
  BY DEF HandlerInv
<1> QED BY <1>1, HandlerInvariant, PTL

\* Whatever the event loop and the clients do, the lock table behaves as the
\* table by itself: what is proved of LocksSpec holds in the handler.
THEOREM HandlerImplementsLocks == Spec => LocksSpec
<1>1. Init => LocksInit
  BY DEF Init
<1>2. HandlerInv /\ [Next]_vars => [LocksNext]_lockVars
  BY HandlerStepsLocks
<1> QED BY <1>1, <1>2, HandlerInvariant, PTL DEF Spec, LocksSpec

\* HeldOK says of every connection what HeldIsLocked says of all.
LEMMA InvHeldIsLocked == HandlerInv => HeldIsLocked
  BY DEF HandlerInv, SockOK, HeldOK, InTable, HeldIsLocked

\* Locks that clients were told of, and did not ask to give back, are in the table.
THEOREM HandlerHeldIsLocked == Spec => []HeldIsLocked
BY InvHeldIsLocked, HandlerInvariant, PTL

\* No client counts on a lock together with another's exclusive one, or with one
\* of another user.
THEOREM HandlerClientExclusion == Spec => []ClientExclusion
<1>1. HandlerInv => ClientExclusion
  <2> SUFFICES ASSUME HandlerInv, alive, NEW s \in Socks, NEW t \in Socks,
                      NEW h \in held[s], NEW k \in held[t],
                      s # t, h.slot = k.slot
               PROVE  ~h.exclusive /\ ~k.exclusive /\ cred[s] = cred[t]
    BY DEF ClientExclusion
  <2>1. PICK l \in locks : l.owner = s /\ l.slot = h.slot /\ l.exclusive = h.exclusive
    BY InvHeldIsLocked DEF HeldIsLocked
  <2>2. PICK m \in locks : m.owner = t /\ m.slot = k.slot /\ m.exclusive = k.exclusive
    BY InvHeldIsLocked DEF HeldIsLocked
  <2>3. ~l.exclusive /\ ~m.exclusive /\ l.uid = m.uid
    BY <2>1, <2>2 DEF HandlerInv, LocksInv, Exclusion
  <2>4. l.uid = cred[s] /\ m.uid = cred[t]
    BY <2>1, <2>2 DEF HandlerInv, LocksInv, OwnersOpen, SockOK, ConnOK
  <2> QED BY <2>1, <2>2, <2>3, <2>4
<1> QED BY <1>1, HandlerInvariant, PTL

\* What the clients count on is in the table, and they never count on locks that
\* exclude each other.
THEOREM HandlerLocksHold == Spec => []LocksHold
<1>1. HeldIsLocked /\ ClientExclusion => LocksHold
  BY DEF LocksHold
<1> QED BY <1>1, HandlerHeldIsLocked, HandlerClientExclusion, PTL

\* The table inside the handler is as safe as the table by itself.
THEOREM HandlerTableSafe == Spec => []LocksSafe
BY HandlerImplementsLocks, LocksAlwaysSafe, PTL

\* The handler as a whole, with its event loop and clients, implements the
\* abstract lock service.
THEOREM HandlerRefinement == Spec => ImplementsSlotLocks
BY HandlerImplementsLocks, LocksRefinement, PTL

\* A lock leaves the table by its owner's unlock, after its owner has gone, or
\* with the process.
THEOREM HandlerLocksLeaveInTurn == Spec => LocksLeaveInTurn
<1> DEFINE InTurn == \A l \in locks \ locks' :
                       \/ ~alive'
                       \/ conn[l.owner] = "closed" /\ ~Open(l.owner)'
                       \/ packet[l.owner].cmd = "UNLOCK" /\ sbuf'[l.owner] = Done
<1>1. ASSUME HandlerInv, Next PROVE InTurn
  <2>1. \A l \in locks : l.owner \in Socks
    BY <1>1 DEF HandlerInv, LocksInv, LocksTypeOK, Lock
  <2>2. Functions /\ \A s \in Socks : SockOK(s)
    BY <1>1, InvFunctions DEF HandlerInv
  <2>3. ASSUME NEW s \in Socks, CloseSock(s), conn[s] = "closed"
        PROVE  InTurn
    BY <2>2, <2>3 DEF CloseSock, LocksWithout, Functions, Open
  <2>4. CASE locks \subseteq locks'
    BY <2>4
  <2>5. ASSUME NEW s \in Socks, ErrorEvent(s) PROVE InTurn
    BY <2>5 DEF ErrorEvent
  <2>6. ASSUME NEW s \in Socks, SendEvent(s) PROVE InTurn
    BY <2>3, <2>4, <2>6 DEF SendEvent, FreeSock, lockVars
  <2>7. ASSUME NEW s \in Socks, RecvEvent(s) PROVE InTurn
    <3>1. CASE inq[s] = 0 /\ FreeSock(s)
      <4>1. todo[s] = {"in"} /\ inq[s] \in Nat
        BY <2>2, <2>7 DEF RecvEvent, Functions
      <4>2. conn[s] = "closed"
        BY <2>2, <3>1, <4>1 DEF SockOK, TodoOK
      <4> QED BY <2>3, <3>1, <4>2 DEF FreeSock
    <3>2. CASE UNCHANGED lockVars
      BY <2>4, <3>2 DEF lockVars
    <3>3. ASSUME NEW reply \in Replies, inq[s] > 0,
                 Process(s, packet[s], reply), sbuf' = [sbuf EXCEPT ![s] = reply]
          PROVE  InTurn
      <4>1. packet[s] \in Requests
        BY <2>2, <3>3 DEF SockOK, CallOK
      <4>2. sbuf'[s] = reply
        BY <2>2, <3>3 DEF Functions
      <4>3. CASE /\ packet[s].cmd = "UNLOCK" /\ reply = Done
                 /\ ReleaseLock(s, packet[s].unit, packet[s].arg)
        <5>1. \A l \in locks \ locks' : l.owner = s
          BY <4>3 DEF ReleaseLock, Newest, Matching
        <5> QED BY <4>2, <4>3, <5>1
      <4>4. CASE GrantLock(s, packet[s].unit, packet[s].arg)
        BY <2>4, <4>4 DEF GrantLock
      <4> QED BY <2>4, <3>3, <4>1, <4>3, <4>4, ProcessEffect
    <3> QED BY <2>7, <3>1, <3>2, <3>3 DEF RecvEvent, Set
  <2>8. CASE Poll
    BY <2>4, <2>8 DEF Poll, lockVars
  <2>9. CASE AcceptEvent
    BY <2>4, <2>9 DEF AcceptEvent, OpenSock
  <2>10. ASSUME NEW s \in Socks, Client(s) PROVE InTurn
    BY <2>4, <2>10, ClientLocks DEF lockVars
  <2> QED BY <1>1, <2>5, <2>6, <2>7, <2>8, <2>9, <2>10 DEF Next, Server
<1>2. HandlerInv /\ [Next]_vars => [InTurn]_vars
  BY <1>1
<1> QED BY <1>2, HandlerInvariant, PTL DEF Spec, LocksLeaveInTurn

-------------------------------------------------------------------------------
(* The table of sockets *)

\* Fewer sockets need no more room.
LEMMA FewerSocketsKeepRoom ==
  ASSUME HandlerAssumption, RoomOK, OpenSocks' \subseteq OpenSocks,
         todo'[Listener] \in {todo[Listener], {}}
  PROVE  RoomOK'
<1>1. OpenSocks \in SUBSET Socks
  BY DEF OpenSocks
<1>2. IsFiniteSet(OpenSocks) /\ Cardinality(OpenSocks) \in Nat
  BY <1>1, FS_Subset, FS_CardinalityType DEF HandlerAssumption
<1>3. Cardinality(OpenSocks') <= Cardinality(OpenSocks)
      /\ Cardinality(OpenSocks') \in Nat
  BY <1>2, FS_Subset, FS_CardinalityType
<1> QED BY <1>2, <1>3 DEF RoomOK, HandlerAssumption

\* Room is looked for before a poll, and one connection taken after it.
LEMMA RoomStep ==
  ASSUME HandlerAssumption, HandlerInv, RoomOK, [Next]_vars
  PROVE  RoomOK'
<1>1. Functions
  BY InvFunctions
<1>2. CASE Poll
  <2>1. OpenSocks' = OpenSocks
    BY <1>2 DEF Poll, lockVars, OpenSocks, Open
  <2>2. todo'[Listener] = ListenerRevents
    BY <1>2 DEF Poll
  <2> QED BY <2>1, <2>2 DEF RoomOK, ListenerRevents
<1>3. CASE AcceptEvent
  <2> DEFINE s == Head(backlog)
  <2>1. s \in Socks /\ ~Open(s) /\ todo[Listener] # {} /\ todo'[Listener] = {}
    BY <1>1, <1>3, BacklogHead DEF AcceptEvent, Served, Set, Functions
  <2>2. uid' = [uid EXCEPT ![s] = cred[s]]
    BY <1>3 DEF AcceptEvent, OpenSock
  <2> HIDE DEF s
  <2>3. OpenSocks' \subseteq OpenSocks \cup {s} /\ s \notin OpenSocks
    BY <1>1, <2>1, <2>2 DEF OpenSocks, Open, Functions
  <2>4. OpenSocks \in SUBSET Socks
    BY DEF OpenSocks
  <2>5. IsFiniteSet(OpenSocks) /\ Cardinality(OpenSocks) \in Nat
    BY <2>4, FS_Subset, FS_CardinalityType DEF HandlerAssumption
  <2>6. /\ IsFiniteSet(OpenSocks \cup {s})
        /\ Cardinality(OpenSocks \cup {s}) = Cardinality(OpenSocks) + 1
    BY <2>3, <2>5, FS_AddElement
  <2>7. /\ Cardinality(OpenSocks') <= Cardinality(OpenSocks) + 1
        /\ Cardinality(OpenSocks') \in Nat
    BY <2>3, <2>6, FS_Subset, FS_CardinalityType
  <2> QED BY <2>1, <2>5, <2>7 DEF RoomOK, HandlerAssumption
<1>4. ASSUME NEW s \in Socks, ErrorEvent(s)
      PROVE  OpenSocks' \subseteq OpenSocks /\ todo'[Listener] = {}
  BY <1>4 DEF ErrorEvent, LoseTable, OpenSocks, Open
<1>5. ASSUME NEW s \in Socks, SendEvent(s) \/ RecvEvent(s)
      PROVE  OpenSocks' \subseteq OpenSocks /\ todo'[Listener] = todo[Listener]
  <2>1. todo' = [todo EXCEPT ![s] = {}]
    BY <1>5 DEF SendEvent, RecvEvent, Served, Set
  <2>2. todo'[Listener] = todo[Listener]
    BY <1>1, <2>1 DEF Functions, HandlerAssumption
  <2>3. uid' = uid \/ uid' = [uid EXCEPT ![s] = NoUid]
    BY <1>5 DEF SendEvent, RecvEvent, FreeSock, CloseSock, lockVars
  <2> QED BY <1>1, <2>2, <2>3 DEF OpenSocks, Open, Functions
<1>6. ASSUME NEW s \in Socks, Client(s)
      PROVE  OpenSocks' = OpenSocks /\ todo' = todo
  BY <1>6, ClientLocks
     DEF OpenSocks, Open, lockVars, serverVars, Client, Connect, Call, Write,
         Return, Fail, Disconnect
<1>7. CASE UNCHANGED vars
  BY <1>7 DEF vars, lockVars, serverVars, OpenSocks, Open, RoomOK
<1> QED BY <1>2, <1>3, <1>4, <1>5, <1>6, <1>7, FewerSocketsKeepRoom DEF Next, Server

\* The loop never has more client sockets than places in its table.
THEOREM HandlerSocketsBounded == Spec => []SocketsBounded
<1> USE HandlerAssumption
<1>1. Init => RoomOK
  <2>1. Init => OpenSocks = {} /\ todo[Listener] = {}
    BY DEF Init, LocksInit, OpenSocks, Open
  <2> QED BY <2>1, FS_EmptySet DEF RoomOK, HandlerAssumption
<1>2. HandlerInv /\ RoomOK /\ [Next]_vars => RoomOK'
  BY RoomStep
<1>3. RoomOK => SocketsBounded
  BY DEF RoomOK, SocketsBounded
<1> QED BY <1>1, <1>2, <1>3, HandlerInvariant, PTL DEF Spec

=============================================================================
