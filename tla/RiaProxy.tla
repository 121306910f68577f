------------------------------- MODULE RiaProxy -------------------------------
(***************************************************************************)
(* Readers on other hosts: the proxy (ifdproxy server, ria-server.c) pairs *)
(* a device that an exporter offers (ifdproxy export, ria-device.c) with   *)
(* the ifdhandler that claims it (ifd_open_remote, ria.c).  Every program  *)
(* is single threaded; packets travel in order on each connection, and are *)
(* the messages of this module (Messages shows how bytes become packets).  *)
(* An application opens one connection and claims one device,              *)
(* as ifd_open_remote does, so a connection is named by the program at its *)
(* far end.  The unit of data is a chunk of RIA_SEND_CHUNK bytes.          *)
(***************************************************************************)
EXTENDS Naturals, Sequences, FiniteSets, SequencesExt

CONSTANTS
  Apps,       \* ifdhandlers that open a remote device
  Devs,       \* exporters, one device each
  MaxWork,    \* bound: calls on open devices, and chunks the devices produce
  MaxDown,    \* bound: packets the kernel keeps of a connection that is closed
  QueueLen,   \* RIA_QUEUE_LEN, in chunks
  ReadMax,    \* what one read of the serial line returns at most, in chunks
  None

ASSUME RiaAssumption == /\ MaxWork \in Nat /\ MaxDown \in Nat
                        /\ QueueLen \in Nat \ {0} /\ ReadMax \in Nat \ {0}
                        /\ Apps \cap Devs = {} /\ None \notin Apps \cup Devs

Ends == Apps \cup Devs

VARIABLES
  link,        \* the proxy's end of a connection: "none", "listed" (on the list
               \* of clients), "reset" (listed, with POLLERR set), "freed"
  registered,  \* devices that have a name and a handle
  peer,        \* ria_peer_t.peer
  shut,        \* connections the proxy has shut down for reading
  up, down,    \* packets to the proxy, and from it
  phase,       \* where each program is
  call,        \* the command a program waits for the answer of
  xid,         \* ria_client_t.xid
  result,      \* what the last answer a program took was, and to which call
  work,        \* calls made on open devices, and chunks they produced
  sbuf,        \* packets an application has not flushed yet
  data,        \* ria_client_t.data: chunks queued at an end
  rbuf,        \* packets an exporter has read and not processed
  line,        \* chunks the device has put on its serial line
  made,        \* how many the device has produced
  taken,       \* chunks an application has read
  written      \* chunks an exporter wrote to its device

proxyVars  == <<link, registered, peer, shut>>
deviceVars == <<line, made, written>>
appVars    == <<work, sbuf, taken>>
endVars    == <<phase, call, xid, result, appVars, data, rbuf, deviceVars>>
vars       == <<proxyVars, up, down, endVars>>

-----------------------------------------------------------------------------
(* Packets.  `by` is the program a call comes from, `dev` the device a      *)
(* claim names, `body` the data; `rc` tells what the handler of the call    *)
(* returned, which the packet itself does not carry.                        *)

Packet(cmd, x, by, dev, body) ==
  [cmd |-> cmd, xid |-> x, dest |-> FALSE, error |-> 0, rc |-> 0, by |-> by,
   dev |-> dev, body |-> body]

\* ria_send numbers the packet with the xid it has just incremented.
SentBy(c, cmd, dev, body) == Packet(cmd, xid[c] + 1, c, dev, body)

\* The end of ct_socket_default_recv_cb: the error of the handler clears the
\* body, and is not put into the header, which stays that of the call.
Reply(p, rc, body) ==
  [p EXCEPT !.dest = TRUE, !.rc = rc, !.error = IF rc = 0 THEN 0 ELSE @,
            !.body = IF rc = 0 THEN body ELSE <<>>]

Set(f, c, v) == [f EXCEPT ![c] = v]

Put(f, c, p) == [f EXCEPT ![c] = Append(@, p)]

\* What the proxy answers; there is no answer to a reply it cannot deliver.
Respond(c, p, rc, body) ==
  down' = IF p.dest THEN down ELSE Put(down, c, Reply(p, rc, body))

\* ct_buf_put into ria_client_t.data: what does not fit whole is dropped.
Queued(queue, chunks) ==
  IF Len(queue) + Len(chunks) <= QueueLen THEN queue \o chunks ELSE queue

Init ==
  /\ link = [c \in Ends |-> "none"]
  /\ registered = {} /\ shut = {}
  /\ peer = [c \in Ends |-> None]
  /\ up = [c \in Ends |-> <<>>] /\ down = [c \in Ends |-> <<>>]
  /\ phase = [c \in Ends |-> "new"]
  /\ call = [c \in Ends |-> None]
  /\ xid = [c \in Ends |-> 0]
  /\ result = [a \in Apps |-> None]
  /\ work = 0
  /\ sbuf = [a \in Apps |-> <<>>]
  /\ taken = [a \in Apps |-> <<>>]
  /\ data = [c \in Ends |-> <<>>]
  /\ rbuf = [d \in Devs |-> <<>>]
  /\ line = [d \in Devs |-> <<>>]
  /\ made = [d \in Devs |-> 0]
  /\ written = [d \in Devs |-> <<>>]

-----------------------------------------------------------------------------
(* The proxy.                                                               *)

Listed(c) == link[c] \in {"listed", "reset"}

\* ria_svc_accept, ria_peer_new, ria_svc_link, as soon as a program connects.
Accepts(c) == link[c] = "none" /\ link' = Set(link, c, "listed")

\* Faulty variant: the claim of another client is not looked at.
Claimable_Busy(d) == d \in registered

\* What RIA_MGR_CLAIM asks of the device that ria_find_device returns.
Claimable(d) == d \in registered /\ peer[d] = None

\* ria_svc_app_handler: the proxy's own commands, then those for the device.
\* Left out: RIA_MGR_INFO, which no program of the repository sends and which
\* changes nothing; and a claim by a client that has claimed, since
\* ifd_open_remote claims once in the life of a connection.
AppRequest(a) ==
  /\ Listed(a) /\ up[a] # <<>>
  /\ up' = Set(up, a, Tail(up[a]))
  /\ LET p == Head(up[a]) IN
     \/ /\ p.cmd = "list"
        /\ Respond(a, p, 0, SetToSeq(registered))
        /\ UNCHANGED peer
     \/ /\ p.cmd = "claim" /\ Claimable(p.dev)
        /\ Respond(a, p, 0, <<p.dev>>)
        /\ peer' = [peer EXCEPT ![a] = p.dev, ![p.dev] = a]
     \/ /\ p.cmd = "claim" /\ ~Claimable(p.dev)
        /\ Respond(a, p, -1, <<>>)
        /\ UNCHANGED peer
     \/ /\ p.cmd \notin {"list", "claim"} /\ peer[a] = None
        /\ Respond(a, p, -1, <<>>)
        /\ UNCHANGED peer
     \/ /\ p.cmd \notin {"list", "claim"} /\ peer[a] # None
        /\ down' = Put(down, peer[a], p)
        /\ UNCHANGED peer
  /\ UNCHANGED <<link, registered, shut, endVars>>

\* ria_svc_dev_handler: a registration, or something for the client.
DevRequest(d) ==
  /\ Listed(d) /\ up[d] # <<>>
  /\ up' = Set(up, d, Tail(up[d]))
  /\ LET p == Head(up[d]) IN
     \/ /\ p.cmd = "register" /\ d \notin registered
        /\ registered' = registered \cup {d}
        /\ Respond(d, p, 0, <<>>)
     \/ /\ p.cmd # "register" /\ peer[d] = None
        /\ Respond(d, p, -1, <<>>)
        /\ UNCHANGED registered
     \/ /\ p.cmd # "register" /\ peer[d] # None
        /\ down' = Put(down, peer[d], p)
        /\ UNCHANGED registered
  /\ UNCHANGED <<link, peer, shut, endVars>>

\* Faulty variant: the peer keeps its pointer to the client that left.
Detached_PeerStays(c) == [peer EXCEPT ![c] = None]

\* ria_peer_free
Detached(c) == [x \in Ends |-> IF x \in {c, peer[c]} THEN None ELSE peer[x]]

\* What is in the proxy's buffers of connections C is lost when it closes them,
\* what the kernel has is not.
Unsent(C) == \E kept \in [C -> 0 .. MaxDown] :
               down' = [c \in Ends |-> IF c \in C
                          THEN SubSeq(down[c], 1, IF kept[c] < Len(down[c])
                                                  THEN kept[c] ELSE Len(down[c]))
                          ELSE down[c]]

\* End of file on a connection, or a write to one whose far end is closed:
\* ct_socket_free runs ria_svc_app_close or ria_svc_dev_close, which detaches
\* the peer; the peer of a device reads no further.
DropClient(c) ==
  /\ Listed(c)
  /\ \/ up[c] = <<>> /\ (phase[c] = "closed" \/ c \in shut)
     \/ down[c] # <<>> /\ phase[c] = "closed"
  /\ link' = Set(link, c, "freed")
  /\ registered' = registered \ {c}
  /\ peer' = Detached(c)
  /\ shut' = IF c \in Devs THEN shut \cup ({peer[c]} \cap Apps) ELSE shut
  /\ up' = Set(up, c, <<>>)
  /\ IF phase[c] = "closed" THEN down' = Set(down, c, <<>>) ELSE Unsent({c})
  /\ UNCHANGED endVars

\* POLLERR: sock->error is a null pointer in the proxy's sockets, the call
\* ends it, and the kernel closes every connection.
ProxyDies ==
  /\ \E c \in Ends : link[c] = "reset"
  /\ link' = [c \in Ends |-> "freed"]
  /\ registered' = {} /\ shut' = {}
  /\ peer' = [c \in Ends |-> None]
  /\ up' = [c \in Ends |-> <<>>]
  /\ Unsent(Ends)
  /\ UNCHANGED endVars

-----------------------------------------------------------------------------
(* The application: ifd_open_remote and the operations of its device, each  *)
(* a ria_send and a ria_recv until the answer, the end of file or the time  *)
(* limit.                                                                   *)

\* ria_command, or the wait for data of ifd_remote_recv, which sends nothing:
\* ria_recv first flushes what ria_send has put into the socket's buffer.
Calls(a, packets, cmd) ==
  /\ xid' = Set(xid, a, xid[a] + Len(packets))
  /\ call' = Set(call, a, [cmd |-> cmd, xid |-> xid'[a]])
  /\ up' = Set(up, a, up[a] \o sbuf[a] \o packets)
  /\ sbuf' = Set(sbuf, a, <<>>)

\* A program leaves, and its memory with it.  What it has not read makes its end
\* reset the connection, unless it is still in the proxy's own buffer.
Leaves(c) ==
  /\ phase' = Set(phase, c, "closed")
  /\ call' = Set(call, c, None) /\ xid' = Set(xid, c, 0)
  /\ data' = Set(data, c, <<>>)
  /\ down' = IF link[c] = "freed" THEN Set(down, c, <<>>) ELSE down
  /\ \/ link' = link
     \/ down[c] # <<>> /\ link[c] = "listed" /\ link' = Set(link, c, "reset")

AppLeaves(a) ==
  /\ Leaves(a)
  /\ result' = Set(result, a, None)
  /\ sbuf' = Set(sbuf, a, <<>>) /\ taken' = Set(taken, a, <<>>)
  /\ UNCHANGED <<registered, peer, shut, up, work, rbuf, deviceVars>>

\* ria_connect, and the first call: all or nothing, the proxy accepts at once.
Connect(a, cmd, d) ==
  /\ phase[a] = "new"
  /\ Accepts(a)
  /\ phase' = Set(phase, a, cmd)
  /\ Calls(a, <<SentBy(a, cmd, d, <<>>)>>, cmd)
  /\ UNCHANGED <<registered, peer, shut, down, result, work, taken, data,
                 rbuf, deviceVars>>

\* ifd_open_remote as far as its claim
OpenRemote(a, d) == Connect(a, "claim", d)

\* ifdproxy list
ListDevices(a) == Connect(a, "list", None)

\* ifd_device_reset on the new device.
ResetDevice(a) ==
  /\ phase[a] = "claimed" /\ call[a] = None
  /\ phase' = Set(phase, a, "reset")
  /\ IF link[a] = "freed"
     THEN UNCHANGED <<call, xid, up, sbuf>>
     ELSE Calls(a, <<SentBy(a, "reset", None, <<>>)>>, "reset")
  /\ UNCHANGED <<proxyVars, down, result, work, taken, data, rbuf,
                 deviceVars>>

Idle(a) == phase[a] = "open" /\ call[a] = None /\ work < MaxWork

\* ifd_remote_flush, ifd_remote_send_break; "config" is ifd_remote_get_params and
\* ifd_remote_set_params
Command(a, cmd) ==
  /\ Idle(a) /\ link[a] # "freed"
  /\ work' = work + 1
  /\ Calls(a, <<SentBy(a, cmd, None, <<>>)>>, cmd)
  /\ UNCHANGED <<proxyVars, down, phase, result, taken, data, rbuf,
                 deviceVars>>

\* ifd_remote_send of n chunks: every packet carries the first of them.
Chunked(a, n) ==
  [i \in 1 .. n |-> [SentBy(a, "data", None, <<[by |-> a, n |-> xid[a] + 1]>>)
                   EXCEPT !.xid = xid[a] + i]]

\* They stay in the socket's buffer; the first k are those that
\* ct_socket_put_packet flushes when there is no room for the next of them.
SendData(a, n) ==
  /\ Idle(a)
  /\ work' = work + 1
  /\ xid' = Set(xid, a, xid[a] + n)
  /\ LET packets == sbuf[a] \o Chunked(a, n)
     IN \E k \in {0} \cup (Len(sbuf[a]) .. Len(packets) - 1) :
          /\ k # 0 => link[a] # "freed"
          /\ up' = Set(up, a, up[a] \o SubSeq(packets, 1, k))
          /\ sbuf' = Set(sbuf, a, SubSeq(packets, k + 1, Len(packets)))
  /\ UNCHANGED <<proxyVars, down, phase, call, result, taken, data, rbuf,
                 deviceVars>>

\* ifd_remote_recv: what is queued is taken; when there is nothing, ria_recv
\* waits for data, and gives the device up when its flush fails.
RecvData(a) ==
  /\ Idle(a)
  /\ work' = work + 1
  /\ \/ /\ data[a] # <<>>
        /\ taken' = Set(taken, a, Append(taken[a], Head(data[a])))
        /\ data' = Set(data, a, Tail(data[a]))
        /\ UNCHANGED <<proxyVars, up, down, phase, call, xid, sbuf>>
     \/ /\ data[a] = <<>> /\ link[a] # "freed"
        /\ Calls(a, <<>>, "recv")
        /\ UNCHANGED <<proxyVars, down, phase, taken, data>>
  /\ UNCHANGED <<result, rbuf, deviceVars>>

\* The flush of ifd_remote_recv, or of ifd_remote_send, fails: ifd_remote_close
GivesUp(a) ==
  /\ phase[a] = "open" /\ call[a] = None
  /\ link[a] = "freed" /\ sbuf[a] # <<>>
  /\ AppLeaves(a)

\* Faulty variant: any reply ends the call.
IsAnswer_Any(p, c) == p.dest /\ c.cmd # "recv"

\* What ends the wait of ria_recv for the answer of call c.
IsAnswer(p, c) == p.dest /\ c.cmd # "recv" /\ p.xid = c.xid

\* How a call's end moves the program on.  A refused claim is not an error, and
\* leaves devinfo uninitialized: its type may read as one ifd_open_remote knows.
Proceeds(a, ok, body) ==
  \/ phase[a] = "claim" /\ ok /\ phase' = Set(phase, a, "claimed")
  \/ phase[a] = "claim" /\ (~ok \/ body = <<>>) /\ phase' = Set(phase, a, "failed")
  \/ phase[a] = "list" /\ phase' = Set(phase, a, "failed")
  \/ phase[a] = "reset" /\ phase' = Set(phase, a, IF ok THEN "open" ELSE "failed")
  \/ phase[a] = "open" /\ UNCHANGED phase

\* ifd_remote_flush and ifd_remote_send_break clear the queue whatever came of
\* the call.
Kept(a, cmd) == IF cmd \in {"flush", "break"} THEN Set(data, a, <<>>) ELSE data

\* One packet in the loop of ria_recv.
Receive(a) ==
  /\ call[a] # None /\ down[a] # <<>>
  /\ down' = Set(down, a, Tail(down[a]))
  /\ LET p == Head(down[a]) IN
     \/ /\ p.cmd = "data" /\ ~p.dest
        /\ data' = Set(data, a, Queued(data[a], p.body))
        /\ call' = IF call[a].cmd = "recv" THEN Set(call, a, None) ELSE call
        /\ UNCHANGED <<phase, result>>
     \/ /\ IsAnswer(p, call[a])
        /\ Proceeds(a, p.error = 0, p.body)
        /\ result' = Set(result, a, [call |-> call[a], answer |-> p])
        /\ call' = Set(call, a, None)
        /\ data' = Kept(a, call[a].cmd)
     \/ /\ p.dest /\ ~IsAnswer(p, call[a])
        /\ UNCHANGED <<phase, call, result, data>>
  /\ UNCHANGED <<proxyVars, up, xid, appVars, rbuf, deviceVars>>

\* ria_recv returns an error: the time limit, or the second end of file.
CallFails(a) ==
  /\ \/ call[a] # None /\ down[a] = <<>> /\ data' = Kept(a, call[a].cmd)
     \/ phase[a] = "reset" /\ call[a] = None /\ UNCHANGED data
  /\ Proceeds(a, FALSE, <<>>)
  /\ call' = Set(call, a, None)
  /\ UNCHANGED <<proxyVars, up, down, xid, result, appVars, rbuf, deviceVars>>

\* ifd_remote_close, or the end of the process in the middle of a call
Close(a) ==
  /\ phase[a] \notin {"new", "closed"}
  /\ AppLeaves(a)

-----------------------------------------------------------------------------
(* The exporter: "register" until its registration is answered, then in the *)
(* "loop" of ct_mainloop.                                                   *)

\* ria_export_device, ria_register_device
Export(d) ==
  /\ phase[d] = "new"
  /\ Accepts(d)
  /\ phase' = Set(phase, d, "register")
  /\ xid' = Set(xid, d, 1)
  /\ up' = Put(up, d, SentBy(d, "register", None, <<>>))
  /\ UNCHANGED <<registered, peer, shut, down, call, result, appVars, data, rbuf,
                 deviceVars>>

\* ria_recv reads all there is; what follows the answer stays in the buffer.
Registered(d) ==
  /\ phase[d] = "register" /\ down[d] # <<>>
  /\ phase' = Set(phase, d, "loop")
  /\ rbuf' = Set(rbuf, d, Tail(down[d]))
  /\ down' = Set(down, d, <<>>)
  /\ UNCHANGED <<proxyVars, up, call, xid, result, appVars, data, deviceVars>>

\* ria_devsock_process, and the reply.  poll must report input, even if what is
\* processed was read before; RIA_RESET_DEVICE is not one of the commands.
ExporterProcesses(d) ==
  /\ phase[d] = "loop" /\ down[d] # <<>>
  /\ LET p == Head(rbuf[d] \o down[d]) IN
     \/ /\ p.dest
        /\ UNCHANGED <<up, data, line>>
     \/ /\ ~p.dest /\ p.cmd = "data"
        /\ data' = Set(data, d, Queued(data[d], p.body))
        /\ UNCHANGED <<up, line>>
     \/ /\ ~p.dest /\ p.cmd # "data"
        /\ up' = Put(up, d, Reply(p, IF p.cmd = "reset" THEN -1 ELSE 0, <<p.cmd>>))
        /\ line' = IF p.cmd = "flush" THEN Set(line, d, <<>>) ELSE line
        /\ UNCHANGED data
  /\ IF rbuf[d] # <<>>
     THEN rbuf' = Set(rbuf, d, Tail(rbuf[d])) /\ UNCHANGED down
     ELSE down' = Set(down, d, Tail(down[d])) /\ UNCHANGED rbuf
  /\ UNCHANGED <<proxyVars, phase, call, xid, result, appVars, made, written>>

\* ria_poll_device, POLLIN.  A read that fills the buffer leaves no room for the
\* command in the packet ria_send builds, which then carries no data.
LineToProxy(d) ==
  /\ phase[d] = "loop" /\ line[d] # <<>>
  /\ \E n \in 1 .. Len(line[d]) :
       /\ n <= ReadMax
       /\ up' = Put(up, d, SentBy(d, "data", None,
                   IF n = ReadMax THEN <<>> ELSE SubSeq(line[d], 1, n)))
       /\ line' = Set(line, d, SubSeq(line[d], n + 1, Len(line[d])))
  /\ xid' = Set(xid, d, xid[d] + 1)
  /\ UNCHANGED <<proxyVars, down, phase, call, result, appVars, data, rbuf, made,
                 written>>

\* ria_poll_device, POLLOUT
DataToLine(d) ==
  /\ phase[d] = "loop" /\ data[d] # <<>>
  /\ \E n \in 1 .. Len(data[d]) :
       /\ written' = Set(written, d, written[d] \o SubSeq(data[d], 1, n))
       /\ data' = Set(data, d, SubSeq(data[d], n + 1, Len(data[d])))
  /\ UNCHANGED <<proxyVars, up, down, phase, call, xid, result, appVars, rbuf,
                 line, made>>

\* The card in the device answers.
DeviceSends(d) ==
  /\ phase[d] = "loop" /\ work < MaxWork
  /\ work' = work + 1
  /\ made' = Set(made, d, made[d] + 1)
  /\ line' = Put(line, d, made[d] + 1)
  /\ UNCHANGED <<proxyVars, up, down, phase, call, xid, result, sbuf, taken,
                 data, rbuf, written>>

\* The device is unplugged, the connection ends (ria_devsock_close), or the
\* exporter is killed.
ExporterExits(d) ==
  /\ phase[d] \in {"register", "loop"}
  /\ Leaves(d)
  /\ rbuf' = Set(rbuf, d, <<>>) /\ line' = Set(line, d, <<>>)
  /\ UNCHANGED <<registered, peer, shut, up, result, appVars, made, written>>

-----------------------------------------------------------------------------
ProxyStep == \/ \E c \in Ends : DropClient(c)
             \/ \E a \in Apps : AppRequest(a)
             \/ \E d \in Devs : DevRequest(d)
             \/ ProxyDies

AppStep(a) == \/ \E d \in Devs : OpenRemote(a, d)
              \/ ListDevices(a)
              \/ ResetDevice(a)
              \/ Command(a, "flush") \/ Command(a, "break") \/ Command(a, "config")
              \/ SendData(a, 1) \/ SendData(a, 2)
              \/ RecvData(a) \/ GivesUp(a) \/ Receive(a) \/ CallFails(a) \/ Close(a)

DevStep(d) == \/ Export(d) \/ Registered(d)
              \/ ExporterProcesses(d) \/ LineToProxy(d) \/ DataToLine(d)
              \/ DeviceSends(d) \/ ExporterExits(d)

Next == \/ ProxyStep
        \/ \E a \in Apps : AppStep(a)
        \/ \E d \in Devs : DevStep(d)

\* The main loop of the proxy serves every connection that is ready.
Fairness == \A c \in Ends : /\ WF_vars(DropClient(c))
                            /\ WF_vars(c \in Apps /\ AppRequest(c))
                            /\ WF_vars(c \in Devs /\ DevRequest(c))

Spec == Init /\ [][Next]_vars /\ Fairness

-----------------------------------------------------------------------------
(* Properties.                                                              *)

\* The two pointers of a claim agree, and both ends are on the proxy's list:
\* no client has a device of another, none follows a pointer to a client that
\* was freed (RIA_MGR_CLAIM, ria_peer_free).
PeersPaired ==
  \A c \in Ends : peer[c] # None =>
    /\ peer[peer[c]] = c
    /\ Listed(c) /\ Listed(peer[c])
    /\ c \in Apps <=> peer[c] \in registered

\* What a packet for a device comes to: a chunk, or a call with its number.
Entry(p) ==
  IF p.dest THEN [by |-> None, n |-> 0]
  ELSE IF p.cmd = "data" THEN p.body[1] ELSE [by |-> p.by, n |-> p.xid]

Entries(packets) == [i \in 1 .. Len(packets) |-> Entry(packets[i])]

\* What has come to a device, and what is on its way from the proxy, the oldest first.
Coming(d) == written[d] \o data[d] \o Entries(rbuf[d] \o down[d])

\* The chunks that a packet brings from the device.
Body(p) == IF p.cmd = "data" /\ ~p.dest THEN p.body ELSE <<>>

\* What an application has from its device, and the chunks on their way from the proxy.
Reading(a) == <<taken[a] \o data[a]>> \o [i \in 1 .. Len(down[a]) |-> Body(down[a][i])]

\* Through the queues of the proxy, the exporter and the device, the calls and
\* the data of a client stay apart from those of the next one to claim the
\* device, and in order; what an application reads is in the order of the serial
\* line.
DataInTurn ==
  /\ \A d \in Devs :
       LET s == Coming(d)
       IN \A i, j \in 1 .. Len(s) : i < j /\ s[i].by = s[j].by /\ s[i].by # None =>
            /\ s[i].n <= s[j].n
            /\ \A k \in i .. j : s[k].by \in {s[i].by, None}
  /\ \A a \in Apps :
       LET s == Reading(a)
       IN \A i, j \in 1 .. Len(s) : \A k \in 1 .. Len(s[i]), l \in 1 .. Len(s[j]) :
            i < j \/ (i = j /\ k < l) => s[i][k] < s[j][l]

\* The gap in ria_recv: an exporter's late answer to a client that has left goes
\* to the next one to claim the device, and is taken for the answer to its call of
\* the same number.
Inherited(p, c) ==
  /\ p.by \in Apps /\ phase[p.by] = "closed"
  /\ c.cmd \notin {"claim", "list"}

\* The answer a call takes is that to this very call: not to one that the same
\* client gave up, nor to one of another client that is still there; and what the
\* proxy answers itself, claims above all, is never mistaken.
AnswersOwnCall ==
  \A a \in Apps : result[a] # None =>
    LET c == result[a].call  p == result[a].answer
    IN IF p.by = a THEN p.cmd = c.cmd ELSE Inherited(p, c)

\* A device whose client has gone can be claimed again, or is gone itself.
DevicesFreed ==
  \A a \in Apps, d \in Devs :
    peer[d] = a /\ phase[a] = "closed" ~> peer[d] # a
=============================================================================
