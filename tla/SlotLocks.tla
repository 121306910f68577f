------------------------------ MODULE SlotLocks ------------------------------
(***************************************************************************)
(* What the lock table of an ifdhandler promises its clients, without the  *)
(* list, the handles or the user ids: for every slot, every client is in   *)
(* one of three modes, and a step changes the modes of one client only.    *)
(* IfdLocks implements this specification (IfdLocks!Abstract).             *)
(***************************************************************************)

CONSTANTS Socks,      \* the clients, named by their socket at the server
          Slots       \* the card slots of the reader

VARIABLE mode         \* mode[s][c]: the strongest lock of client c on slot s

Init == mode = [s \in Slots |-> [c \in Socks |-> "none"]]

\* A client gets a shared lock if nobody else has an exclusive one.
AcquireShared(c, s) ==
  /\ mode[s][c] = "none"
  /\ \A d \in Socks \ {c} : mode[s][d] # "exclusive"
  /\ mode' = [mode EXCEPT ![s][c] = "shared"]

\* A client gets an exclusive lock, or has its shared lock raised to one, if
\* nobody else has any lock.
AcquireExclusive(c, s) ==
  /\ \A d \in Socks \ {c} : mode[s][d] = "none"
  /\ mode' = [mode EXCEPT ![s][c] = "exclusive"]

\* A client gives a lock back: its strongest mode may fall, on that slot only.
Release(c, s) ==
  /\ mode[s][c] # "none"
  /\ \E m \in {"none", "shared"} : mode' = [mode EXCEPT ![s][c] = m]

\* A client goes away, and every lock it has with it.
Leave(c) == mode' = [s \in Slots |-> [mode[s] EXCEPT ![c] = "none"]]

\* The service ends, and every lock with it.
Stop == mode' = [s \in Slots |-> [c \in Socks |-> "none"]]

Next ==
  \/ \E c \in Socks : \/ Leave(c)
                      \/ \E s \in Slots : \/ AcquireShared(c, s)
                                          \/ AcquireExclusive(c, s)
                                          \/ Release(c, s)
  \/ Stop

Spec == Init /\ [][Next]_mode
=============================================================================
