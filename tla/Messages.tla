------------------------------ MODULE Messages ------------------------------
(***************************************************************************)
(* One application and the ifdhandler it talks to, down to the bytes: the  *)
(* calls of the client library (src/src/ct/client.c), their arguments as   *)
(* tagged items, packets in the buffers of both sockets                    *)
(* (src/src/ct/socket.c), reads and writes that transfer any part of them, *)
(* and the handler that takes the items apart again (src/src/ifd/process.c)*)
(* and answers.                                                            *)
(***************************************************************************)
EXTENDS Tlv, FiniteSets

CONSTANTS
    BufSize,      \* CT_SOCKET_BUFSIZ, also for the client's argument buffer
    SmallArgs,    \* the 256 bytes some calls have for their arguments
    AtrSize,      \* the handler's 64 bytes for an ATR
    ReplySize,    \* and its 258 + 256 for the answer to an APDU
    PipeSize,     \* bytes the kernel keeps for a socket
    XidBase,      \* values of a transaction id
    Requests,     \* calls: [cmd, slot, args, recv], args <<tag, value>> in order
    Answers,      \* what the reader may answer: sequences of bytes
    Garbage,      \* a result read from memory nobody wrote
    NoRequest, Refused, None

ASSUME XidAssumption == XidBase \in Nat /\ XidBase >= 3

Client == "client"
Handler == "ifdhandler"
Side == {Client, Handler}

\* Tags that travel as numbers; the others are strings or blocks.
IntTags == {"timeout", "address", "count", "protocol"}

(* Per command: the arguments the handler insists on, the tag of the       *)
(* answer, and the size of the client's buffer for the arguments.          *)
Commands ==
    [reset        |-> [needs |-> {}, gives |-> "atr", room |-> SmallArgs],
     set_protocol |-> [needs |-> {"protocol"}, gives |-> None, room |-> SmallArgs],
     transact     |-> [needs |-> {"request"}, gives |-> "response", room |-> BufSize],
     verify       |-> [needs |-> {"pin"}, gives |-> "response", room |-> SmallArgs],
     mem_read     |-> [needs |-> {"address", "count"}, gives |-> "data", room |-> BufSize],
     mem_write    |-> [needs |-> {"address", "data"}, gives |-> None, room |-> BufSize]]

VARIABLES
    sock,      \* per side: [rbuf, sbuf], the socket's buffers
    wire,      \* per side: bytes under way to it
    up,        \* sides whose end of the connection is open
    large,     \* handler: the client uses large tags
    xid,       \* client: the transaction id of its last call
    request,   \* client: the call in progress, or NoRequest
    waiting,   \* client: the whole command is written
    carried,   \* the command the reader got for this call, and its answer
    result     \* client: what the last call returned

vars == <<sock, wire, up, large, xid, request, waiting, carried, result>>

NewSocket == [rbuf |-> BufInit(BufSize), sbuf |-> BufInit(BufSize)]

Init ==
    /\ sock = [s \in Side |-> NewSocket]
    /\ wire = [s \in Side |-> <<>>]
    /\ up = Side
    /\ large = FALSE
    /\ xid = 0
    /\ request = NoRequest
    /\ waiting = FALSE
    /\ carried = NoRequest
    /\ result = Refused

-----------------------------------------------------------------------------
(* Packets                                                                 *)

\* The header, in two parts: whose answer to what; error and size of the body.
Packet(x, dest, error, body) ==
    <<[xid |-> x, dest |-> dest], [error |-> error, count |-> Len(body)]>> \o body

HeaderLen == 2

Body(b) == SubSeq(b.data, HeaderLen + 1, HeaderLen + b.data[2].count)

\* ct_socket_get_packet: nothing is taken before all of it is there.
HasPacket(b) ==
    /\ BufAvail(b) >= HeaderLen
    /\ BufAvail(b) >= HeaderLen + b.data[2].count

TakePacket(b) == BufGet(BufGet(b, HeaderLen), b.data[2].count)

\* ct_socket_filbuf: the buffer is compacted only when nothing fits behind its data.
ReadRoom(b) == IF BufTailroom(b) = 0 THEN BufCompact(b) ELSE b

Filled(s, n) == BufPut(ReadRoom(sock[s].rbuf), SubSeq(wire[s], 1, n))

Read(s, n) ==
    /\ n \in 1 .. Len(wire[s])
    /\ n <= BufTailroom(ReadRoom(sock[s].rbuf))
    /\ wire' = [wire EXCEPT ![s] = SubSeq(@, n + 1, Len(@))]

\* ct_socket_flsbuf: one write takes what the kernel has room for.
Write(from, to, n) ==
    /\ n \in 1 .. BufAvail(sock[from].sbuf)
    /\ Len(wire[to]) + n <= PipeSize
    /\ wire' = [wire EXCEPT ![to] = @ \o SubSeq(sock[from].sbuf.data, 1, n)]
    /\ sock' = [sock EXCEPT ![from].sbuf = BufGet(@, n)]

-----------------------------------------------------------------------------
(* The client library                                                      *)

\* Each item has a builder of its own, whose error nobody looks at; only the
\* PIN block is put together from parts: a control byte, the offset, the APDU.
AddArg(buf, tag, v) ==
    LET b == Builder(buf, TRUE)
        byte(x, i) == AddBytes(x, <<v[i]>>)
    IN  CASE tag \in IntTags -> PutInt(b, tag, v).buf
          [] tag = "pin"     -> AddBytes(byte(byte(PutTag(b, tag), 1), 2), SubSeq(v, 3, Len(v))).buf
          [] OTHER           -> PutOpaque(b, tag, v).buf

Args(r) ==
    LET args[i \in 0 .. Len(r.args)] ==
            IF i = 0 THEN BufPut(BufInit(Commands[r.cmd].room), <<r.cmd, r.slot>>)
            ELSE AddArg(args[i - 1], r.args[i][1], r.args[i][2])
    IN  args[Len(r.args)].data

NextXid == IF (xid + 1) % XidBase = 0 THEN 1 ELSE xid + 1

\* ct_socket_call, up to the packet in the send buffer.
Call(r) ==
    LET sbuf == BufCompact(sock[Client].sbuf)
        packet == Packet(NextXid, 0, None, Args(r))
    IN  /\ Client \in up
        /\ request = NoRequest
        /\ xid' = NextXid
        /\ result' = Refused
        /\ \/ /\ BufFits(sbuf, packet)
              /\ sock' = [sock EXCEPT ![Client].sbuf = BufPut(sbuf, packet)]
              /\ request' = r
           \/ /\ ~BufFits(sbuf, packet)
              /\ UNCHANGED <<sock, request>>
        /\ UNCHANGED <<wire, up, large, waiting, carried>>

Return(v) ==
    /\ request' = NoRequest
    /\ waiting' = FALSE
    /\ carried' = NoRequest
    /\ result' = v

ClientWrites(n) ==
    /\ request # NoRequest /\ ~waiting
    /\ Handler \in up
    /\ Write(Client, Handler, n)
    /\ waiting' = (n = BufAvail(sock[Client].sbuf))
    /\ UNCHANGED <<up, large, xid, request, carried, result>>

\* The bytes ct_tlv_get_bytes finds; for a tag the answer does not have it looks
\* into a parser nobody cleared.
Result(r, body) ==
    LET p   == Parse(body)
        tag == Commands[r.cmd].gives
        room == IF r.cmd = "verify" THEN r.recv ELSE Commands[r.cmd].room
    IN  IF Len(body) > room THEN Refused
        ELSE IF tag = None THEN <<>>
        ELSE IF ~p.ok THEN Refused
        ELSE IF ~Has(p, tag) THEN Garbage
        ELSE GetBytes(p, tag, r.recv)

\* The rest of ct_socket_call, and what its caller makes of the answer.  One call is
\* open at a time and the handler answers each once, so there is at most one packet.
ClientReads(n) ==
    LET rbuf == Filled(Client, n)
    IN  /\ waiting
        /\ Read(Client, n)
        /\ IF HasPacket(rbuf)
           THEN sock' = [sock EXCEPT ![Client].rbuf = TakePacket(rbuf)]
           ELSE sock' = [sock EXCEPT ![Client].rbuf = rbuf]
        /\ IF HasPacket(rbuf) /\ rbuf.data[1].xid = xid
           THEN Return(IF rbuf.data[2].error # None THEN Refused ELSE Result(request, Body(rbuf)))
           ELSE UNCHANGED <<request, waiting, carried, result>>
        /\ UNCHANGED <<up, large, xid>>

\* As if the end of the stream were never an error.
CallFails_LoopsAtEof ==
    /\ request # NoRequest /\ ~waiting
    /\ Handler \notin up
    /\ Return(Refused)
    /\ UNCHANGED <<sock, wire, up, large, xid>>

\* The handler has closed the connection: writing to it or reading its end fails.
CallFails ==
    /\ request # NoRequest
    /\ Handler \notin up
    /\ waiting => wire[Client] = <<>>
    /\ Return(Refused)
    /\ UNCHANGED <<sock, wire, up, large, xid>>

\* The application disconnects or ends, in a call or between two.
Disconnect ==
    /\ Client \in up
    /\ up' = up \ {Client}
    /\ sock' = [sock EXCEPT ![Client] = NewSocket]
    /\ wire' = [wire EXCEPT ![Client] = <<>>]
    /\ Return(Refused)
    /\ xid' = 0
    /\ UNCHANGED large

\* ct_reader_connect: a connection to a new socket of the handler.
Connect ==
    /\ up = {}
    /\ up' = Side
    /\ UNCHANGED <<sock, wire, large, xid, request, waiting, carried, result>>

-----------------------------------------------------------------------------
(* The handler                                                             *)

\* What a do_* function makes of the items: every command's arguments, as given.
Understood(cmd, slot, p) ==
    [cmd |-> cmd, slot |-> slot,
     args |-> [t \in DOMAIN p.val |-> IF t \in IntTags THEN GetInt(p, t) ELSE GetOpaque(p, t)]]

\* The room the handler has for what the reader answers.
Asked(p, cmd) ==
    CASE cmd = "reset"    -> AtrSize
      [] cmd = "mem_read" -> IF GetInt(p, "count") > BufSize THEN BufSize ELSE GetInt(p, "count")
      [] OTHER            -> ReplySize

\* The item with the answer a; an answer to reset without ATR has none.
Response(cmd, a, big) ==
    LET b == Builder(BufInit(BufSize + 1), big)
        tag == Commands[cmd].gives
    IN  IF tag = None \/ (cmd = "reset" /\ a = <<>>) THEN b ELSE AddBytes(PutTag(b, tag), a)

Close(s) ==
    /\ up' = up \ {s}
    /\ sock' = [sock EXCEPT ![s] = NewSocket]
    /\ wire' = [wire EXCEPT ![s] = <<>>]

\* A reply that does not fit makes ct_mainloop drop the client.
Answer(rbuf, error, body) ==
    LET packet == Packet(rbuf.data[1].xid, 1, error, body)
    IN  IF BufFits(sock[Handler].sbuf, packet)
        THEN /\ sock' = [sock EXCEPT ![Handler] =
                   [rbuf |-> TakePacket(rbuf), sbuf |-> BufPut(@.sbuf, packet)]]
             /\ UNCHANGED up
        ELSE /\ sock' = [sock EXCEPT ![Handler] = NewSocket]
             /\ up' = up \ {Handler}

\* Part of a command, or all of it: ifdhandler_recv asks for more,
\* or has ifdhandler_process carry it out.
HandlerReads(n) ==
    LET rbuf == Filled(Handler, n)
        body == Body(rbuf)
        cmd  == body[1]
        p    == Parse(SubSeq(body, 3, Len(body)))
        big  == large \/ p.large
    IN  /\ Handler \in up
        /\ BufAvail(sock[Handler].sbuf) = 0
        /\ Read(Handler, n)
        /\ \/ /\ ~HasPacket(rbuf)
              /\ sock' = [sock EXCEPT ![Handler].rbuf = rbuf]
              /\ UNCHANGED <<up, large, carried>>
           \/ /\ HasPacket(rbuf)
              /\ ~p.ok
              /\ Answer(rbuf, "invalid_msg", <<>>)
              /\ UNCHANGED <<large, carried>>
           \/ /\ HasPacket(rbuf)
              /\ p.ok
              /\ large' = big
              /\ \/ Answer(rbuf, "failed", <<>>) /\ UNCHANGED carried
                 \/ \E a \in Answers :
                        /\ \A t \in Commands[cmd].needs : Has(p, t)
                        /\ Len(a) <= Asked(p, cmd)
                        /\ Commands[cmd].gives = None => a = <<>>
                        /\ carried' = IF request = NoRequest THEN NoRequest
                                      ELSE <<Understood(cmd, body[2], p), a>>
                        /\ LET b == Response(cmd, a, big)
                           IN  Answer(rbuf, IF b.error THEN "failed" ELSE None,
                                      IF b.error THEN <<>> ELSE b.buf.data)
        /\ UNCHANGED <<xid, request, waiting, result>>

HandlerWrites(n) ==
    /\ {Client, Handler} \subseteq up
    /\ Write(Handler, Client, n)
    /\ UNCHANGED <<up, large, xid, request, waiting, carried, result>>

\* The end of the stream, or a write to a client that has gone.
HandlerCloses ==
    /\ Handler \in up /\ Client \notin up
    /\ wire[Handler] = <<>> \/ BufAvail(sock[Handler].sbuf) > 0
    /\ Close(Handler)
    /\ large' = FALSE
    /\ UNCHANGED <<xid, request, waiting, carried, result>>

-----------------------------------------------------------------------------
ClientSteps == CallFails \/ \E n \in 1 .. BufSize : ClientWrites(n) \/ ClientReads(n)
HandlerSteps == HandlerCloses \/ \E n \in 1 .. BufSize : HandlerReads(n) \/ HandlerWrites(n)

Next ==
    \/ \E r \in Requests : Call(r)
    \/ ClientSteps
    \/ HandlerSteps
    \/ Disconnect
    \/ Connect

\* Both processes go on with what they can do: the library blocks in read and
\* write, the handler in poll.
Spec == Init /\ [][Next]_vars /\ WF_vars(ClientSteps) /\ WF_vars(HandlerSteps)

-----------------------------------------------------------------------------
\* The call as the caller means it, whatever the order of its arguments.
Meant(r) ==
    [cmd |-> r.cmd, slot |-> r.slot,
     args |-> [t \in {r.args[i][1] : i \in DOMAIN r.args} |->
                  LET i == CHOOSE i \in DOMAIN r.args : r.args[i][1] = t IN r.args[i][2]]]

\* Bytes in pieces, buffers with holes, items of one or two length bytes and calls
\* that do not fit: the reader gets the command that was meant, once, and the
\* caller that command's answer or an error.
Calls == INSTANCE CallServer WITH
            Requests <- {[call |-> Meant(r), recv |-> r.recv] : r \in Requests},
            request  <- IF request = NoRequest THEN NoRequest
                        ELSE [call |-> Meant(request), recv |-> request.recv],
            carried  <- IF carried = NoRequest THEN NoRequest
                        ELSE <<[call |-> carried[1], recv |-> request.recv], carried[2]>>

ImplementsCalls == Calls!Spec

\* Every call returns, whatever the connection does: the client reads without a
\* time limit, so that an answer never sent would hang the application.
CallsReturn == request # NoRequest ~> request = NoRequest
=============================================================================
