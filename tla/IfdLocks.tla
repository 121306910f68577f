------------------------------- MODULE IfdLocks -------------------------------
(***************************************************************************)
(* The lock table of one ifdhandler process (src/ifd/locks.c): the linked  *)
(* list `locks`, the counter `lock_handle`, and the part of a client's     *)
(* ct_socket_t the table reads, its address and its client_uid.            *)
(*                                                                         *)
(* The list always grows at its head, so it is in the order of the grants, *)
(* newest first.  A record carries the number of its grant (nr), and the   *)
(* list is the set of these records: its order is that of nr, and the      *)
(* handle, which wraps, is nr modulo HandleLimit.                          *)
(***************************************************************************)
EXTENDS Integers

CONSTANTS
  Socks,        \* addresses malloc gives to the ct_socket_t of a client
  Slots,        \* slot numbers that reach the table
  Uids,         \* user ids SO_PEERCRED reports
  NoUid,        \* no client
  HandleLimit,  \* lock handles are counted modulo this: 2^32
  MaxGrants     \* bound on the locks granted in the life of the process

ASSUME LocksAssumption == /\ NoUid \notin Uids
                          /\ HandleLimit \in Nat \ {0}
                          /\ MaxGrants \in Nat

Shared    == "shared"       \* IFD_LOCK_SHARED
Exclusive == "exclusive"    \* IFD_LOCK_EXCLUSIVE
LockTypes == {Shared, Exclusive}

VARIABLES
  uid,      \* client_uid of the open client sockets; NoUid: a free address
  locks,    \* the list of locks, as a set (see above)
  granted   \* locks granted so far: lock_handle before it wraps

lockVars == <<uid, locks, granted>>

Lock == [slot : Slots, uid : Uids, owner : Socks, exclusive : BOOLEAN, nr : Nat]

Handle(l) == l.nr % HandleLimit

Open(s) == uid[s] # NoUid

-------------------------------------------------------------------------------
(* Faulty variants, named <definition>_<fault>.  No specification uses      *)
(* them; each breaks a property when it takes the place of the definition.  *)

Conflicts_IgnoreHolder(s, slot, type) ==
  {l \in locks : /\ l.slot = slot
                 /\ l.owner # s
                 /\ type = Exclusive \/ l.uid # uid[s]}

NewLock_SameHandle(s, slot, type) ==
  [slot |-> slot, uid |-> uid[s], owner |-> s,
   exclusive |-> (type = Exclusive), nr |-> 0]

Matching_AnyOwner(s, slot, handle) ==
  {l \in locks : l.slot = slot /\ l.nr % HandleLimit = handle}

LocksWithout_SameUser(s) == {l \in locks : l.uid # uid[s]}

-------------------------------------------------------------------------------
(* ifdhandler_check_lock *)

\* The locks that stand in the way of client s taking, or acting under, a lock
\* of this type on the slot.
Conflicts(s, slot, type) ==
  {l \in locks : /\ l.slot = slot
                 /\ l.owner # s
                 /\ l.exclusive \/ type = Exclusive \/ l.uid # uid[s]}

CheckLock(s, slot, type) == Conflicts(s, slot, type) = {}

-------------------------------------------------------------------------------
(* ifdhandler_lock, ifdhandler_unlock, ifdhandler_unlock_all *)

NewLock(s, slot, type) ==
  [slot |-> slot, uid |-> uid[s], owner |-> s,
   exclusive |-> (type = Exclusive), nr |-> granted]

GrantLock(s, slot, type) ==
  /\ CheckLock(s, slot, type)
  /\ granted < MaxGrants
  /\ locks' = locks \cup {NewLock(s, slot, type)}
  /\ granted' = granted + 1
  /\ UNCHANGED uid

\* The locks unlock's loop stops at, and the one it meets first, if any.
Matching(s, slot, handle) ==
  {l \in locks : l.owner = s /\ l.slot = slot /\ Handle(l) = handle}

Newest(L) == {l \in L : \A m \in L : m.nr <= l.nr}

ReleaseLock(s, slot, handle) ==
  /\ \E l \in Newest(Matching(s, slot, handle)) : locks' = locks \ {l}
  /\ UNCHANGED <<uid, granted>>

LocksWithout(s) == {l \in locks : l.owner # s}

\* The socket of a client comes to life and goes away: ct_socket_accept takes
\* the credentials of the peer, ct_socket_free calls ifdhandler_unlock_all and
\* frees the memory, so that its address can be used again.
OpenSock(s, u) ==
  /\ ~Open(s)
  /\ uid' = [uid EXCEPT ![s] = u]
  /\ UNCHANGED <<locks, granted>>

CloseSock(s) ==
  /\ Open(s)
  /\ locks' = LocksWithout(s)
  /\ uid' = [uid EXCEPT ![s] = NoUid]
  /\ UNCHANGED granted

\* The process dies, and the table with it.  It does not come back.
LoseTable ==
  /\ locks' = {}
  /\ uid' = [s \in Socks |-> NoUid]
  /\ UNCHANGED granted

-------------------------------------------------------------------------------
LocksInit == /\ uid = [s \in Socks |-> NoUid]
             /\ locks = {}
             /\ granted = 0

LocksNext ==
  \/ \E s \in Socks :
       \/ \E u \in Uids : OpenSock(s, u)
       \/ CloseSock(s)
       \/ /\ Open(s)
          /\ \E slot \in Slots :
               \/ \E type \in LockTypes : GrantLock(s, slot, type)
               \/ \E handle \in 0 .. (HandleLimit - 1) :
                    ReleaseLock(s, slot, handle)
  \/ LoseTable

LocksSpec == LocksInit /\ [][LocksNext]_lockVars

-------------------------------------------------------------------------------
(* Properties *)

\* Types of the three variables; grants are numbered below the counter.
LocksTypeOK ==
  /\ uid \in [Socks -> Uids \cup {NoUid}]
  /\ locks \subseteq Lock
  /\ granted \in 0 .. MaxGrants

\* Two clients that hold locks on one slot at the same time both hold shared
\* locks and run under the same user id (the promise of openct.h for
\* ct_card_lock, kept by ifdhandler_check_lock).
Exclusion ==
  \A l, m \in locks : l.slot = m.slot /\ l.owner # m.owner =>
                        ~l.exclusive /\ ~m.exclusive /\ l.uid = m.uid

\* Every lock belongs to a socket that is open, with the user id of the client
\* now behind it: no owner pointer dangles after ct_socket_free, so a client
\* whose socket gets a used address inherits nothing.
OwnersOpen == \A l \in locks : Open(l.owner) /\ l.uid = uid[l.owner]

\* While handles have not wrapped, a client's handle names one of its locks
\* on a slot: unlock cannot release another lock than the one the client got
\* this handle for.
HandleNamesOneLock ==
  granted <= HandleLimit =>
    \A l \in locks : Matching(l.owner, l.slot, Handle(l)) = {l}

\* The table as its callers rely on it: no two clients in conflict, no owner
\* gone, no handle that stands for two locks.
LocksSafe == Exclusion /\ OwnersOpen /\ HandleNamesOneLock

\* The strongest lock of every client on every slot: the abstract state.
ModeOf(slot, s) ==
  IF \E l \in locks : l.slot = slot /\ l.owner = s /\ l.exclusive
  THEN "exclusive"
  ELSE IF \E l \in locks : l.slot = slot /\ l.owner = s
       THEN "shared"
       ELSE "none"

Mode == [slot \in Slots |-> [s \in Socks |-> ModeOf(slot, s)]]

Abstract == INSTANCE SlotLocks WITH mode <- Mode

\* The table implements the abstract lock service.
ImplementsSlotLocks == Abstract!Spec
=============================================================================
