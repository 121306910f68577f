------------------------------ MODULE IfdHandler ------------------------------
(***************************************************************************)
(* One ifdhandler process serving the clients of its reader: the poll loop *)
(* (src/ct/mainloop.c), the socket of every client (src/ct/socket.c), the  *)
(* dispatch of a request (src/ifd/process.c) over the lock table           *)
(* (IfdLocks), and at the other end the client library in the middle of a  *)
(* ct_socket_call.                                                         *)
(*                                                                         *)
(* A connection is named by the ct_socket_t the server gives it; the name  *)
(* is used again when both ends are closed, as malloc does with the        *)
(* address.  The library has one call open on a connection at a time, so   *)
(* the request under way is one packet; it travels in Pieces pieces, the   *)
(* server may read it in the middle.  A reply is one write.                *)
(***************************************************************************)
EXTENDS IfdLocks, Sequences, FiniteSets

CONSTANTS
  Units,        \* units a request may name; those outside Slots are refused
  Cmds,         \* the commands the clients use
  Pieces,       \* pieces a request is read in
  MaxClients,   \* client sockets up to IFD_MAX_SOCKETS
  Listener,     \* the socket of ct_socket_listen
  FairClients,  \* clients that never stop in the middle of a call
  None          \* no packet, no reply, no client

CardCmds == {"TRANSACT", "RESET", "REQUEST_ICC", "EJECT_ICC", "PERFORM_VERIFY",
             "MEMORY_READ", "MEMORY_WRITE", "SET_PROTOCOL"}
AllCmds == CardCmds \cup {"LOCK", "UNLOCK", "TRANSACT_OLD", "STATUS", "OUTPUT",
                          "unknown"}

ASSUME HandlerAssumption == /\ IsFiniteSet(Socks)
                            /\ Slots \subseteq Units
                            /\ Cmds \subseteq AllCmds
                            /\ Pieces \in Nat \ {0}
                            /\ MaxClients \in Nat \ {0}
                            /\ Listener \notin Socks
                            /\ None \notin Socks
                            /\ FairClients \subseteq Socks

Handles == 0 .. (HandleLimit - 1)

Requests ==
  [cmd : Cmds \cap {"LOCK"}, unit : Units, arg : LockTypes] \cup
  [cmd : Cmds \cap {"UNLOCK"}, unit : Units, arg : Handles] \cup
  [cmd : Cmds \ {"LOCK", "UNLOCK"}, unit : Units, arg : {"-"}]

Ok(handle)  == [error |-> "none", handle |-> handle]
Done        == Ok(0)
Error(code) == [error |-> code, handle |-> 0]

Errors == {"locked", "nolock", "no memory", "invalid slot", "invalid cmd",
           "card"}
Replies == [error : Errors \cup {"none"}, handle : Handles]

VARIABLES
  alive,    \* the process runs
  backlog,  \* connections the kernel holds for accept
  rbuf,     \* pieces of a request in the server's receive buffer
  sbuf,     \* reply in the server's send buffer
  events,   \* what the server polls a client socket for
  todo,     \* revents of this round of the loop, still to be served
  card,     \* the client whose command the card in a slot saw last
  conn,     \* the client's end: "none", "open", "closed"
  cred,     \* the user behind it
  packet,   \* the last request the client wrote
  waiting,  \* the client is inside ct_socket_call
  unsent,   \* pieces of the packet it has still to write
  held,     \* the locks the client was told it has
  inq,      \* pieces of the packet on their way to the server
  outq,     \* reply on its way to the client
  reset     \* the server's end has a pending ECONNRESET

serverVars == <<alive, rbuf, sbuf, events, todo>>
clientVars == <<conn, cred, packet, waiting, unsent, held>>
netVars    == <<backlog, inq, outq, reset>>
vars == <<lockVars, serverVars, clientVars, netVars, card>>

Empty(q) == [s \in Socks |-> q]
Set(f, s, v) == [f EXCEPT ![s] = v]
-------------------------------------------------------------------------------
Init == /\ LocksInit
        /\ alive = TRUE
        /\ backlog = <<>>
        /\ rbuf = Empty(0) /\ sbuf = Empty(None) /\ events = Empty("in")
        /\ todo = [s \in Socks \cup {Listener} |-> {}]
        /\ card = [slot \in Slots |-> None]
        /\ conn = Empty("none") /\ cred = Empty(NoUid)
        /\ packet = Empty(None)
        /\ waiting = Empty(FALSE) /\ unsent = Empty(0) /\ held = Empty({})
        /\ inq = Empty(0) /\ outq = Empty(None) /\ reset = Empty(FALSE)

-------------------------------------------------------------------------------
(* Faulty variants of definitions below, as in IfdLocks *)

Revents_NoEndOfFile(s) ==
  (IF reset[s] THEN {"err"} ELSE {}) \cup
  (IF events[s] = "out" THEN {"out"} ELSE IF inq[s] > 0 THEN {"in"} ELSE {})

ListenerRevents_NoLimit == IF backlog # <<>> THEN {"in"} ELSE {}

-------------------------------------------------------------------------------
(* ifdhandler_process: what a request does to the lock table and the card, *)
(* and the reply.  The commands that use the card leave out of view what   *)
(* the driver does; it answers or fails.                                   *)

NoEffect == UNCHANGED <<locks, granted, card>>

UseCard(s, slot, reply) ==
  /\ card' = Set(card, slot, s)
  /\ reply \in {Done, Error("card")}
  /\ UNCHANGED <<locks, granted>>

DoLock(s, unit, type, reply) ==
  \/ /\ unit \notin Slots
     /\ reply = Error("invalid slot")
     /\ NoEffect
  \/ /\ unit \in Slots
     /\ ~CheckLock(s, unit, type)
     /\ reply = Error("locked")
     /\ NoEffect
  \/ /\ unit \in Slots
     /\ CheckLock(s, unit, type)
     /\ reply = Error("no memory")
     /\ NoEffect
  \/ /\ unit \in Slots
     /\ GrantLock(s, unit, type)
     /\ reply = Ok(granted % HandleLimit)
     /\ UNCHANGED card

DoUnlock(s, unit, handle, reply) ==
  \/ /\ unit \notin Slots
     /\ reply = Error("invalid slot")
     /\ NoEffect
  \/ /\ unit \in Slots
     /\ Matching(s, unit, handle) = {}
     /\ reply = Error("nolock")
     /\ NoEffect
  \/ /\ unit \in Slots
     /\ ReleaseLock(s, unit, handle)
     /\ reply = Done
     /\ UNCHANGED card

DoTransactOld(s, unit, reply) ==
  \/ /\ ~CheckLock(s, unit, Exclusive)
     /\ reply = Error("locked")
     /\ NoEffect
  \/ /\ CheckLock(s, unit, Exclusive)
     /\ unit \notin Slots
     /\ reply = Error("invalid slot")
     /\ NoEffect
  \/ /\ CheckLock(s, unit, Exclusive)
     /\ unit \in Slots
     /\ UseCard(s, unit, reply)

DoCardCommand(s, unit, reply) ==
  \/ /\ unit \notin Slots
     /\ reply = Error("invalid slot")
     /\ NoEffect
  \/ /\ unit \in Slots
     /\ UseCard(s, unit, reply)

\* The library's requests are well formed: nothing is refused as INVALID_MSG.
Process(s, request, reply) ==
  \/ /\ request.cmd # "TRANSACT_OLD"          \* do_before_command fails
     /\ reply = Error("card")
     /\ NoEffect
  \/ /\ request.cmd = "LOCK"
     /\ DoLock(s, request.unit, request.arg, reply)
  \/ /\ request.cmd = "UNLOCK"
     /\ DoUnlock(s, request.unit, request.arg, reply)
  \/ /\ request.cmd = "TRANSACT_OLD"
     /\ DoTransactOld(s, request.unit, reply)
  \/ /\ request.cmd \in CardCmds
     /\ DoCardCommand(s, request.unit, reply)
  \/ /\ request.cmd \in {"STATUS", "OUTPUT"}
     /\ reply \in {Done, Error("card"), Error("invalid slot")}
     /\ NoEffect
  \/ /\ request.cmd = "unknown"
     /\ reply = Error("invalid cmd")
     /\ NoEffect

-------------------------------------------------------------------------------
(* The server: one round of ct_mainloop is a Poll and one event for every  *)
(* socket poll() reported.                                                 *)

\* poll() reports an error whether it was asked for or not.
Revents(s) ==
  (IF reset[s] THEN {"err"} ELSE {}) \cup
  (IF events[s] = "out" THEN {"out"}
   ELSE IF inq[s] > 0 \/ reset[s] \/ conn[s] = "closed" THEN {"in"} ELSE {})

OpenSocks == {s \in Socks : Open(s)}

\* New connections are taken only while there is room for their socket.
ListenerRevents ==
  IF backlog # <<>> /\ Cardinality(OpenSocks) < MaxClients THEN {"in"} ELSE {}

RoundOver == \A x \in Socks \cup {Listener} : todo[x] = {}

Poll ==
  /\ alive /\ RoundOver
  /\ todo' = [x \in Socks \cup {Listener} |->
                IF x = Listener THEN ListenerRevents
                ELSE IF Open(x) THEN Revents(x) ELSE {}]
  /\ todo' # todo
  /\ UNCHANGED <<lockVars, alive, rbuf, sbuf, events, clientVars, netVars, card>>

\* ct_socket_free: the locks go (ifdhandler_close), both buffers, and what the
\* kernel still held for this end.
FreeSock(s) ==
  /\ CloseSock(s)
  /\ rbuf' = Set(rbuf, s, 0)
  /\ sbuf' = Set(sbuf, s, None)
  /\ events' = Set(events, s, "in")
  /\ inq' = Set(inq, s, 0)
  /\ reset' = Set(reset, s, FALSE)
  /\ IF conn[s] = "closed"
     THEN /\ conn' = Set(conn, s, "none")
          /\ cred' = Set(cred, s, NoUid)
          /\ packet' = Set(packet, s, None)
     ELSE UNCHANGED <<conn, cred, packet>>
  /\ UNCHANGED <<alive, card, backlog, outq, waiting, unsent, held>>

Served(s) == /\ alive
             /\ todo' = Set(todo, s, {})

\* ifdhandler_accept
AcceptEvent ==
  /\ todo[Listener] # {}
  /\ Served(Listener)
  /\ OpenSock(Head(backlog), cred[Head(backlog)])
  /\ backlog' = Tail(backlog)
  /\ UNCHANGED <<alive, rbuf, sbuf, events, clientVars, inq, outq, reset, card>>

\* sock->error is a null pointer in a client's socket: the call ends the
\* process, and the kernel closes its ends of the connections.
ErrorEvent(s) ==
  /\ "err" \in todo[s]
  /\ alive /\ alive' = FALSE
  /\ LoseTable
  /\ todo' = [x \in Socks \cup {Listener} |-> {}]
  /\ rbuf' = Empty(0) /\ sbuf' = Empty(None) /\ events' = Empty("in")
  /\ inq' = Empty(0) /\ reset' = Empty(FALSE) /\ backlog' = <<>>
  /\ UNCHANGED <<clientVars, outq, card>>

\* ifdhandler_send: ct_socket_flsbuf writes the buffer once, and turns to
\* reading when it is called with nothing left to write.
SendEvent(s) ==
  /\ "err" \notin todo[s] /\ "out" \in todo[s]
  /\ Served(s)
  /\ \/ /\ sbuf[s] = None
        /\ events' = Set(events, s, "in")
        /\ UNCHANGED <<lockVars, alive, rbuf, sbuf, clientVars, netVars, card>>
     \/ /\ sbuf[s] # None /\ conn[s] = "open"
        /\ outq' = Set(outq, s, sbuf[s])
        /\ sbuf' = Set(sbuf, s, None)
        /\ UNCHANGED <<lockVars, alive, rbuf, events, clientVars, backlog, inq,
                       reset, card>>
     \/ /\ sbuf[s] # None /\ conn[s] = "closed"      \* EPIPE
        /\ FreeSock(s)

\* Faulty variant: the read waits for the rest of the request.
RecvEvent_WaitsForRest(s) ==
  /\ todo[s] = {"in"}
  /\ Served(s)
  /\ \/ /\ inq[s] < Pieces /\ (reset[s] \/ conn[s] = "closed")
        /\ FreeSock(s)
     \/ /\ inq[s] = Pieces
        /\ inq' = Set(inq, s, 0)
        /\ \E reply \in Replies :
             /\ Process(s, packet[s], reply)
             /\ sbuf' = Set(sbuf, s, reply)
        /\ events' = Set(events, s, "out")
        /\ UNCHANGED <<uid, alive, rbuf, clientVars, backlog, outq, reset>>

\* ifdhandler_recv: ct_socket_filbuf takes what is there; a whole request is
\* processed and its reply put into the send buffer.
RecvEvent(s) ==
  /\ todo[s] = {"in"}
  /\ Served(s)
  /\ \/ /\ inq[s] = 0                        \* end of file or ECONNRESET
        /\ FreeSock(s)
     \/ /\ inq[s] > 0 /\ rbuf[s] + inq[s] < Pieces
        /\ rbuf' = Set(rbuf, s, rbuf[s] + inq[s])
        /\ inq' = Set(inq, s, 0)
        /\ UNCHANGED <<lockVars, alive, sbuf, events, clientVars, backlog, outq,
                       reset, card>>
     \/ /\ inq[s] > 0 /\ rbuf[s] + inq[s] = Pieces
        /\ rbuf' = Set(rbuf, s, 0)
        /\ inq' = Set(inq, s, 0)
        /\ \E reply \in Replies :
             /\ Process(s, packet[s], reply)
             /\ sbuf' = Set(sbuf, s, reply)
        /\ events' = Set(events, s, "out")
        /\ UNCHANGED <<uid, alive, clientVars, backlog, outq, reset>>

Server == \/ Poll
          \/ AcceptEvent
          \/ \E s \in Socks : ErrorEvent(s) \/ SendEvent(s) \/ RecvEvent(s)

-------------------------------------------------------------------------------
(* The clients *)

\* ct_reader_connect; the kernel makes the connection before accept does.
Connect(s) ==
  /\ alive /\ conn[s] = "none" /\ ~Open(s)
  /\ conn' = Set(conn, s, "open")
  /\ \E u \in Uids : cred' = Set(cred, s, u)
  /\ backlog' = Append(backlog, s)
  /\ UNCHANGED <<lockVars, serverVars, packet, waiting, unsent, held, inq, outq,
                 reset, card>>

\* ct_socket_call puts the request into the send buffer.  A client that asks
\* to unlock no longer counts on the lock.
Call(s) ==
  /\ conn[s] = "open" /\ ~waiting[s]
  /\ \E request \in Requests :
       /\ packet' = Set(packet, s, request)
       /\ held' = IF request.cmd = "UNLOCK"
                  THEN Set(held, s, {h \in held[s] : h.slot # request.unit
                                                     \/ h.handle # request.arg})
                  ELSE held
  /\ waiting' = Set(waiting, s, TRUE)
  /\ unsent' = Set(unsent, s, Pieces)
  /\ UNCHANGED <<lockVars, serverVars, conn, cred, netVars, card>>

Write(s) ==
  /\ alive /\ unsent[s] > 0
  /\ unsent' = Set(unsent, s, unsent[s] - 1)
  /\ inq' = Set(inq, s, inq[s] + 1)
  /\ UNCHANGED <<lockVars, serverVars, conn, cred, packet, waiting, held, backlog,
                 outq, reset, card>>

\* The reply arrives; ct_card_lock tells the application of its new lock.
Return(s) ==
  /\ waiting[s] /\ outq[s] # None
  /\ waiting' = Set(waiting, s, FALSE)
  /\ outq' = Set(outq, s, None)
  /\ packet' = Set(packet, s, None)
  /\ held' = IF packet[s].cmd = "LOCK" /\ outq[s].error = "none"
             THEN Set(held, s, held[s] \cup
                        {[slot |-> packet[s].unit, handle |-> outq[s].handle,
                          exclusive |-> packet[s].arg = Exclusive]})
             ELSE held
  /\ UNCHANGED <<lockVars, serverVars, conn, cred, unsent, backlog, inq, reset,
                 card>>

\* The call fails: the write with EPIPE, the read at the end of file.
Fail(s) ==
  /\ waiting[s] /\ ~alive /\ outq[s] = None
  /\ waiting' = Set(waiting, s, FALSE)
  /\ unsent' = Set(unsent, s, 0)
  /\ UNCHANGED <<lockVars, serverVars, conn, cred, packet, held, netVars, card>>

\* ct_reader_disconnect, or the client dies, in the middle of a call or not.
\* What it wrote stays readable; a reply it never read resets the server's end.
Disconnect(s) ==
  /\ conn[s] = "open"
  /\ conn' = Set(conn, s, "closed")
  /\ waiting' = Set(waiting, s, FALSE)
  /\ unsent' = Set(unsent, s, 0)
  /\ held' = Set(held, s, {})
  /\ reset' = Set(reset, s, alive /\ outq[s] # None)
  /\ outq' = Set(outq, s, None)
  /\ UNCHANGED <<lockVars, serverVars, cred, packet, backlog, inq, card>>

Client(s) == Connect(s) \/ Call(s) \/ Write(s) \/ Return(s) \/ Fail(s)
             \/ Disconnect(s)

Next == Server \/ \E s \in Socks : Client(s)

\* The loop of the server goes round as long as poll reports anything, and a
\* client inside ct_socket_call writes and reads on; nobody has to call or to
\* disconnect.
Fairness == /\ WF_vars(Server)
            /\ \A s \in FairClients : WF_vars(Write(s) \/ Return(s) \/ Fail(s))

Spec == Init /\ [][Next]_vars /\ Fairness

-------------------------------------------------------------------------------
(* Properties *)

HeldLock == [slot : Slots, handle : Handles, exclusive : BOOLEAN]

HandlerTypeOK ==
  /\ LocksTypeOK
  /\ alive \in BOOLEAN
  /\ backlog \in Seq(Socks)
  /\ rbuf \in [Socks -> 0 .. (Pieces - 1)]
  /\ sbuf \in [Socks -> Replies \cup {None}]
  /\ events \in [Socks -> {"in", "out"}]
  /\ todo \in [Socks \cup {Listener} -> SUBSET {"err", "in", "out"}]
  /\ card \in [Slots -> Socks \cup {None}]
  /\ conn \in [Socks -> {"none", "open", "closed"}]
  /\ cred \in [Socks -> Uids \cup {NoUid}]
  /\ packet \in [Socks -> Requests \cup {None}]
  /\ waiting \in [Socks -> BOOLEAN]
  /\ unsent \in [Socks -> 0 .. Pieces]
  /\ held \in [Socks -> SUBSET HeldLock]
  /\ inq \in [Socks -> 0 .. Pieces]
  /\ outq \in [Socks -> Replies \cup {None}]
  /\ reset \in [Socks -> BOOLEAN]

\* A lock a client was told it has, and has not asked to give back, is in the
\* table: no request of another client, no disconnection and no reuse of a
\* socket takes it away behind its back.
HeldIsLocked ==
  alive => \A s \in Socks : \A h \in held[s] :
             \E l \in locks : /\ l.owner = s /\ l.slot = h.slot
                              /\ Handle(l) = h.handle
                              /\ l.exclusive = h.exclusive

\* The promise of openct.h as the applications see it: while one of them counts
\* on an exclusive lock, no other counts on any lock of that slot, and those
\* that share a slot run under one user id.
ClientExclusion ==
  alive => \A s, t \in Socks : \A h \in held[s], k \in held[t] :
             s # t /\ h.slot = k.slot =>
               ~h.exclusive /\ ~k.exclusive /\ cred[s] = cred[t]

\* What the clients were told of their locks is true, and keeps them apart.
LocksHold == HeldIsLocked /\ ClientExclusion

\* A lock leaves the table in three ways only: its owner's unlock is processed,
\* its owner's socket is freed after the owner has gone, the process ends.
LocksLeaveInTurn ==
  [][\A l \in locks \ locks' :
       \/ ~alive'
       \/ conn[l.owner] = "closed" /\ ~Open(l.owner)'
       \/ packet[l.owner].cmd = "UNLOCK" /\ sbuf'[l.owner] = Done]_vars

\* The loop never holds more client sockets than its table of pollfds has room
\* for: room is checked before the poll, a connection is taken after it.
SocketsBounded == Cardinality(OpenSocks) <= MaxClients

\* A client that disconnects, at whatever moment and with whatever request of
\* its still under way, is forgotten: its socket is freed and its locks with it.
GoneClientsForgotten ==
  \A s \in Socks : conn[s] = "closed" ~> ~Open(s)

\* A call of a client that keeps reading comes to an end, whatever the others
\* do: one that stops in the middle of its request, or never takes its reply,
\* does not hold up the loop.  A call waits for ever only to be accepted, while
\* others take all the sockets.
CallsEnd ==
  \A s \in FairClients :
    []<>(~waiting[s] \/ (~Open(s) /\ Cardinality(OpenSocks) = MaxClients))

\* "exclusive locks deny any access by other applications" (openct.h): while a
\* client has an exclusive lock on a slot, the card there serves nobody else.
ExclusiveAccess ==
  [][\A slot \in Slots : \A l \in locks :
       l.slot = slot /\ l.exclusive /\ card'[slot] # card[slot] =>
         card'[slot] = l.owner]_vars
=============================================================================
