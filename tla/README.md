# A verification project for OpenCT

OpenCT gives applications access to smart cards. A *handler* process
(`ifdhandler`) owns one reader and serves any number of clients over a UNIX
socket; the client library (`libopenct`), the CT-API and PC/SC libraries above it
and `openct-tool` are the other end. A shared status file tells clients which
readers there are and which cards are in them; `openct-control` starts and stops
handlers. Below a handler are drivers for some thirty readers, and the protocols
that the drivers do not do themselves. A reader may be on another host, behind
`ifdproxy`.

The modules in this directory are TLA+ translations of that code, TLC
configurations that check them on small instances, and proofs of what is worth
knowing for instances of every size. Paths are relative to `src/src/` unless
they say otherwise.

- [Inventory](#inventory)
- [Modules and the code](#modules-and-the-code)
- [Runs](#runs)
- [Proofs](#proofs)
- [Disagreements between the code and what it says](#disagreements-between-the-code-and-what-it-says)
- [Not modelled](#not-modelled)
- [What is left](#what-is-left)

## Inventory

| Part | State it keeps | Operations | Talks to |
|---|---|---|---|
| Lock table, `ifd/locks.c` | list of `(slot, uid, owner socket, exclusive, handle)`, a handle counter | check, lock, unlock, unlock_all | `process.c`, and `ifdhandler_close` |
| Event loop, `ct/mainloop.c`, `ct/socket.c` | list of sockets, one poll mask and two buffers each, `leave_mainloop` | add, leave, one round of poll, error, send, recv, accept | callbacks of `ifdhandler.c` |
| Dispatch, `ifd/process.c`, `ifd/ifdhandler.c` | none of its own | one request in, one reply out | lock table, reader |
| Client library, `ct/client.c` | a socket per reader, mapped status file, `h->card[]` | connect, lock, unlock, status, reset, transact, ... | handler; status file |
| Buffers, TLV, packets, `ct/buffer.c`, `ct/tlv.c`, `ct/socket.c` | head, tail, size, overrun; `xid` | get, put, compact; put/parse items; get/put packet | library and handler |
| Status file, `ct/status.c` | records `(ct_pid, ct_name, ct_card[])`, the file `status.lock` | clear, alloc_slot, update, update_slot, destroy | all processes, by `mmap` |
| openct-control, `tools/`, `ifd/manager.c` | none | init, attach, shutdown, status | status file, fork, signals |
| Reader, `ifd/reader.c`, `ifd/protocol.c`, `ifd/atr.c` | slots: ATR, protocol, `next_update`; `card_seq` | activate, poll, event, status, reset, command, memory, ... | drivers, protocols, status file |
| T=0, T=1, GBP, synchronous: `ifd/proto-*.c` | T=1: `ns`, `nr`, `ifsc`, `state`; T=0: `state`; GBP: `ns`, `state` | transceive, resynchronise, set parameters | driver `send`/`recv` |
| CCID driver, `ifd/ifd-ccid.c`, `ifd/sys-linux.c` | `icc_present[]`, `seq`, features, the event capture | card_status, reset, set_protocol, exchange, event, before/after_command | USB: control, bulk, interrupt |
| Drivers of GemPC, Kaan, cyberJack, Towitoko | speed, fragments; frozen, activity; the protocol object; parity | activate, status, reset, set_protocol, exchange, memory, verify | serial line, or USB |
| Other drivers, `ifd/ifd-*.c` | reader-specific | open, reset, send, recv, ... | device |
| Remote devices, `ifd/ria*.c`, `ifd/ifdproxy.c` | registered devices, claims (`peer`), a data queue | register, claim, data, close | TCP sockets |
| CT-API, PC/SC, `ctapi/`, `pcsc/` | list of open terminals; per reader a context and a mutex | CT_init/data/close; IFDH* | client library |

### What is hard, and what makes each part correct

**Lock table.** Grants, releases and disconnections of several clients
interleave; owners are compared by address, so a record that outlived its socket
would hand its lock to the next client malloc gives the address to. Correct:
nobody has a lock together with an exclusive one of another client; shared
locks do not cross users; a lock never outlives its owner; a handle names one lock.

**Event loop and sockets.** One thread for all. Sockets reported by one poll are
served one after the other, and each service may free one. A client may stop or
die at any byte of its request or of its reply. Correct: what an application was
told of its locks is true; a gone client is forgotten; nobody holds up the
others; the table of pollfds is never overrun.

**Requests and answers.** They cross two sockets in pieces of any size, through
buffers that have holes in front, as items with one or two length bytes. Correct: the
command that was meant is carried out, once, and its caller gets its answer or an
error, however little fits.

**Status file and processes.** Written by processes that may be killed at any
line, locked by a file that nobody cleans up, and mapped by processes that
outlive its replacement. Correct: two handlers have two slots; the record of a
running handler tells the truth; a start and an end come to their end.

**T=1 and GBP.** Either direction of the line may garble or drop a block, and
acknowledgement is by one-bit numbers. Correct: a command is executed at most
once, the answer is the whole answer to it, both sides agree on the numbers
afterwards, and the exchange ends.

**T=0 and reset.** A line without framing: what a byte means follows from what was said
before, and what comes after a time limit is still on the line. Correct: a card that waits
for data is never sent a header; after a reset no byte of what was before is left; a command
ends, with its own answer. **Memory cards** are found by writing to them. Correct: they hold
what the applications wrote.

**Drivers.** Each keeps a belief about its reader: numbers of messages, speed, protocol,
whether it is frozen, who has the protocol object. Correct: belief and reader agree
after a reset or an error; a late answer is not taken for another command's.

**Card status.** The reader reports changes when it likes, on a pipe that several
readers of it (event loop, poll, commands) open, drain and cancel in turn; the
driver caches. Correct: a card that comes or goes is published; an
application that is told "not changed" has seen this very card.

**Remote devices.** Claims by programs that come and go, answers that come after
their timeout, a queue that is full. Correct: a claim has two ends or none;
the data of two clients never mix; a device is free again when its client has gone.

**CT-API and PC/SC.** A global list and connections that are never closed, under
several threads of which a mutex covers a part. Correct: commands go to a card under its
lock only; a channel tells the ATR of its last power action; no mutex stays locked.

`PROJECT.json` lists every component, and under `hazards` the lines where
these things bite with the properties that guard them.

## Modules and the code

```
   SlotLocks      what a lock service promises
      ^ implements (run handler, theorems LocksRefinement and HandlerRefinement)
   IfdLocks       ifd/locks.c                                          IfdHandlerProofs
      ^ extends
   IfdHandler     ct/mainloop.c, ct/socket.c, ifd/process.c, ifd/ifdhandler.c, ct/client.c
                                                                       IfdHandlerProofs
   CallServer     what a call of the library promises
      ^ implements (run messages)
   Messages       ct/client.c, ct/socket.c, ifd/process.c
      ^ extends Tlv (ct/tlv.c), which extends CtBuffer (ct/buffer.c)

   StatusFile     ct/status.c, ifd/ifdhandler.c, tools/openct-control.c
                                                                       StatusFileProofs
   CardStatus     ifd/ifd-ccid.c, ifd/sys-linux.c, ifd/reader.c, ct/client.c
                                                                       CardStatusProofs

   Session        ifd/reader.c, ifd/protocol.c, ifd/proto-sync.c, ifd/ifd-towitoko.c
                                                                       SessionProofs
      ^ extends T0Protocol (ifd/proto-t0.c, ifd/apdu.c), which extends Atr (ifd/atr.c)
   T1Protocol     ifd/proto-t1.c                                       T1ProtocolProofs

   Drivers        one handler with one of four drivers                 DriversProofs
      ^ extends GemPc (ifd/ifd-gempc.c, on Gbp: ifd/proto-gbp.c), Ccid (ifd/ifd-ccid.c),
        Kaan (ifd/ifd-kaan.c), CyberJack (ifd/ifd-cyberjack.c), all on Driver

   RiaProxy       ifd/ria.c, ifd/ria-server.c, ifd/ria-device.c, ifd/ifdproxy.c
                                                                       RiaProxyProofs

   Pcsc           pcsc/pcsc.c                                          PcscProofs
      ^ extends CtApi (ctapi/ctapi.c), which extends CtFiles (ctapi/ctapi.c, files)
```

A module `MCX` gives the constants of `X` their values. Operators named
`<definition>_<fault>` are faulty variants that no specification uses; each
states one plausible bug that breaks one of the properties.

### IfdLocks

`locks` is the linked list. It only grows at its head, so a record carries the
number of its grant and the list is the set of the records; `lock_handle` is that
number modulo `HandleLimit` (2^32 in the code). `uid` is `client_uid` of the
sockets that are open: `OpenSock` is accept with `SO_PEERCRED`, `CloseSock` is
`ct_socket_free` after `ifdhandler_close`, which calls `ifdhandler_unlock_all`.
`Conflicts` is the condition of `ifdhandler_check_lock`, one conjunct per `if`.
`ReleaseLock` takes the newest of the matching records, as the loop in
`ifdhandler_unlock` stops at the first. `LoseTable` is the end of the process.

**SlotLocks** knows neither list nor handles: every client is in one of three
modes on every slot. The refinement mapping (`Mode`) takes the strongest lock of
each client. That a client that unlocks may fall from exclusive to shared, or
stay where it was because it has a second lock, is the abstract `Release`.

### IfdHandler

One action per callback of the loop, and the client's `ct_socket_call` cut where
other processes can come in between (`Call`, `Write`, `Return`).

- A round of `ct_mainloop` is a `Poll` and then one event per reported socket.
  The code serves them in the order of its list; here any order is allowed, which
  includes that one.
- A socket is named by its address, and the name is used again after both ends
  are closed: what malloc does to `ct_socket_t *`.
- `Revents` is poll(2): an error is reported even if nobody asked. `POLLHUP`
  without `POLLIN` does not occur on these sockets, since the listening mask of an
  idle socket is `POLLIN`. A client that goes and leaves a reply unread gives
  POLLERR; the callback for it is a null pointer, and the process ends.
- A request travels in `Pieces` pieces and may be read in the middle;
  the library has one call open at a time, so there is one packet per connection.
- `Slots` are the slot numbers `process.c` lets through; `Units` what a client
  may put into the header. (The code lets `slot == nslots` through as well:
  that number would be in `Slots`.)
- The commands that use the card differ, for the properties here, only in
  whether they ask `ifdhandler_check_lock` first; that those of today's library do not is the
  run `handler_access`. `card[slot]` remembers whose
  command the card saw last.
- `do_lock` may fail for lack of memory, and a driver may fail: both are choices.

### CtBuffer, Tlv, Messages

`CtBuffer` is `ct_buf_t` as a record of size, head and contents, `Tlv` the builder
and the parser as operators on it: tags with one or two length bytes, what is
left in the buffer by an item that does not fit, the length written again after each
addition, integers of four bytes (one digit here). `Messages` puts a call of the library
into the client's buffers, moves any number of bytes into and out of each pipe, and
takes it apart in the handler: `Call` is a call up to the first write,
`ClientWrites` and `ClientReads` the loop of `ct_socket_call`, `HandlerReads`
is `ct_socket_filbuf`, `ct_socket_get_packet` and `ifdhandler_process`,
`HandlerWrites` is `ct_socket_flsbuf`. `Commands` has one row per `CT_CMD_*` with
arguments or an answer. `xid` is a counter modulo `XidBase`.

A byte is a member of `0 .. ByteBase - 1`, a header two elements; the limits of
the code (512, 256, 64, 514, 266) shrink with `ByteBase`, in the same order.
**CallServer** is what the library promises: a call, its one execution, its
result. `ImplementsCalls` is the refinement.

### StatusFile

`Start ... RecordChild` is `main` of ifdhandler up to the exit of the first process,
with `ct_status_alloc_slot` cut at every file operation: `Link` (one attempt at
`status.lock`), `Scan` (one record), `Unlock`, `Reserve`. `Open ... Clear` is the
child, with the loop cut at the points where SIGTERM matters: before the handler is
installed, before `leave_mainloop = 0`, between the test of the flag and
poll(). `Shutdown`/`ShutdownStep` walk the table from its end. A process is
alive as `kill(pid, 0)` sees it; process ids are not used again. `Retries` is the
ten attempts of the code. With a full table `*num` stays -1: `Reserve` then hits
memory in front of the mapping, and either ends the process or does nothing visible.

### CardStatus

`Begin ... ReturnTo...` is one call of `ccid_card_status`, cut at every point
where the reader can put in a notification: while it waits in its own capture
(`Read`, `TimeOut`), between the timeout and the discarding of the URB
(`EndCapture`), before the probe. `Poll` calls it from `ifd_poll` and publishes
(`SlotStatusUpdate`), `Command` from `CT_CMD_STATUS` and `CT_CMD_RESET` and does
not. `Event` is `ifd_event`: the array it passes is uninitialised and the driver
only ever sets or keeps the changed bit, hence the choice of `garbage`.
`OtherCommand` and `BadCommand` are before_command and after_command around other
requests; the second returns too early.

The card in a slot is named by the number of its insertion. The code knows
only whether there is one, and nothing in the model compares two cards; the names
are there so that the properties can tell a swap. The reader's pipe carries slot
change notifications only (not hardware error messages); the changed bit says
that the slot changed since the last notification, as the CCID specification has it.
A reader is not dirty at the start: what is in it is found by the first poll.

### T1Protocol

`Transceive` begins a `t1_transceive`; `Host` is one turn of its loop: what the received
block leads to and the block sent next. The helpers (`HostRSending`, `TakeAnswer`,
`HostResynced`, ...) are the branches of the loop in its order. `Negotiate` and
`AsksIfs` are `t1_negotiate_ifsd`, `Resynchronize` and `AsksResync` the
`t1_resynchronize` that it calls when the line fails. Data are units, each
named by its APDU, its direction and its place, so "whole", "doubled" and "out of
order" can be told; a chunk is at most `ifsc` units. Checksums, node addresses and
lengths are abstracted to "garbled or not"; `retries` is the `unsigned int` of the
code and wraps (`RetryMod`). The card is external: it follows ISO 7816-3, may ask
for S(IFS) and S(WTX), and answers an unusable block by an R-block (`CardErrors`
says with which error bits). `Garble` and `Lose` act on blocks in either
direction, `MaxErrors` times. `Reset` is a reset by the application, which
makes a new protocol object. `resynced` and `strayed` are history: the exchange has
resynchronised; it has taken an I-block for the answer while it waited for the response
to S(RESYNC).

### Atr, T0Protocol, Session

`Atr` has the four readings of an ATR as operators on a sequence of bytes with
nibbles: how many bytes the reader loop takes (`AtrExpected`), `ifd_atr_complete`,
`ifd_protocol_select` and `ifd_atr_parse`. `T0Protocol` is
`t0_transceive`: `Transceive` up to the header, `ProcedureByte` one turn of the loop in
`t0_xcv`, `AfterStatus` what follows (GET RESPONSE), `Timeout` a receive that fails. `Fail`
is the way out by "done:". `line` holds the bytes on their way; one may be spoilt, or
come after the handler stopped waiting. A byte nobody expected at its place can look like
any procedure byte (`Meanings`). The card is external (`CardTalks`, `CardSends`): it
wants what the header said, answers with NULL bytes, INS, its complement, or a status,
or says nothing. `Session` puts it below `reader.c`: `Request` is
the reset, with both parities and the loop that reads the ATR, `SetProtocol` makes a protocol object, `Probe` and
`WriteStep` are `ifd_sync_detect_icc` and `ifd_sync_write`, one driver command per step, `Insert` and
`Draw` the user. What a memory card *should* hold is the history variable `meant`.

### Driver, Gbp, GemPc, Ccid, Kaan, CyberJack, Drivers

`Driver` is what the four drivers share: the operation the handler is in (`op`), the
place in it (`at`), the command for the reader (`cmd`), what came of it (`reply`),
and what the handler was told at the end (`told`); the user, and the reader's
answers with their faults. Each driver's module has three layers: the *link*
(`gbp_transceive`; the numbered messages of `ccid_command`; one T=1 exchange of
the terminals; `cyberjack_recv`), the *operations* of `struct ifd_driver_ops` with one action per
answer they wait for, and the *reader*, external, which does what the driver
presumes of it. `dd` is `reader->driver_data`, `rdr` the reader's own state, and the
properties compare the two. The CCID readers differ in the features of their
descriptor (`CcidReaders`). `Drivers` starts a handler with one of the four.

Presumed of the readers, where the code does not say: a Kaan stays frozen during
the commands that go through to the card (`kaan_transparent` does not note activity);
a reset of the cyberJack's terminal switches the card off.

### RiaProxy

A connection is named by the program at its far end. `AppRequest` and
`DevRequest` are the two handlers of `ria-server.c` with one branch per kind of command; `DropClient` is
the removal of a client by the main loop, with its close callback and `ria_peer_free`;
`ProxyDies` is the null error callback; `AppStep` has one action
per function of `ria.c` that a driver calls, cut at sending and receiving;
`DevStep` is the exporter's loop (`ria-device.c`). Messages are whole packets here;
how bytes become packets is in `Messages`, which models the same functions of `socket.c`.
`made`, `written`, `taken` and `result` are history.

### CtFiles, CtApi, Pcsc

`CtFiles` has the virtual files of the terminal as sequences of blocks and `put`,
which cuts the wanted part out of them. `CtApi` has a thread's call
(`CT_init`, `CT_data`, `CT_close`) in steps on the global list, which has no lock:
`th[t].at` is the place in the code, `cur` and `prev` its pointers. CT_close walks the list one
element per step, as it changes it; the search of CT_data, which only reads, is one step
(`DataFinds`, `DataFindsFreed`). CT_init puts a terminal on the list and fills in its files after
that (`InitPublishes`, `InitFills`). Freed memory keeps its contents and may be followed. A
connection to a handler is never closed, so `owner` loses a lock only when a
program ends (`Exits`). `Pcsc` adds the driver's functions with the mutex each of
them takes, and releases before `CT_data` in some. The lock table and the cards
behind the connections are abstracted to `owner`, `card` and `resets`.

## Runs

"fails" marks a run that checks one statement of a comment or a header that the
code does not keep; the counterexample is the result.

| Run | Instance | Distinct states | What it shows |
|---|---|---|---|
| `handler` | 2 clients of 2 users, 1 slot, LOCK, UNLOCK and a command the handler does not know, 2 grants | 2.3 million | Under every interleaving with the loop, disconnections and reused sockets, the table keeps clients apart and implements `SlotLocks`, and what a client believes of its locks is in it. |
| `handler_live` | 3 clients, room for 2, requests (TRANSACT_OLD) in 2 pieces | 325 thousand | The pollfds suffice, gone clients are forgotten, a fair client's call ends. |
| `handler_access` (fails) | 2 clients, the current commands | | TRANSACT passes another client's exclusive lock. |
| `messages` | every call of the library; short, long, empty and oversized arguments; 4 answers; pipes of 5 bytes | 225 thousand | However the bytes are cut, the command that was meant is carried out once and its caller gets its answer or an error; every call returns. |
| `status` | 3 starts, one at a time, 2 records, 1 file, parents killed before the fork, children anywhere | 441 thousand | Slots are unique, records are true, starts end, SIGTERM ends a handler. |
| `card` | 1 slot, 2 insertions, 1 failed probe; with and without pipe, polled and event mode | 46 thousand | What is published follows the card; a client learns of a swap. |
| `t1` | APDUs of 1, 3 and 2 units, answers of 3, 2 and 1, `ifsc` 1 or 2, 6 line errors, 2 requests of the card | 293 thousand | Answers are whole, commands executed once, both sides in step, exchanges end. |
| `session` | 4 ATRs, 4 kinds of memory card, a mute card; 4 things that users and applications do, 1 NULL, 1 spoilt byte, 2 faults | 1.2 million | T=0 answers belong to their commands, resets leave nothing behind, memory cards hold what was written, everything ends. |
| `drivers` | 4 drivers, 5 kinds of CCID reader, 3 cards, 1 fault, 4 operations or movements of cards | 1.0 million | Driver, reader and card agree; nothing runs twice; statuses and memories are true; operations end. |
| `gbp_resyncs` (fails) | GemPC, 1 fault | | A command after a failed one is resynchronised for ever. |
| `remote` | 2 ifdhandlers, 1 device, queue of 1 chunk, 2 pieces of work | 1.1 million | Claims have two ends, data do not mix, an answer is taken by the call it belongs to or is inherited from a client that has left, devices are freed. |
| `apps` | pcscd with 2 threads and a program with 1, 1 reader, 3 terminals, 4 calls | 566 thousand | Commands go to a card under its lock, a channel's ATR is the last, files are read as they are, calls end. |

### Bounds, and why they are enough

- **Clients.** The lock table relates pairs of clients, and a user matters by being
  the same or another: two and two. "Two that share and one that wants
  exclusive" needs three, and is left to the proofs, which hold for any number; so are
  handles that wrap, which two grants cannot. The loop relates a client, the socket
  reported after it, and one that takes the last place in the table: three, in
  `handler_live`.
- **Pieces.** One or two: a third would be read like the second.
- **Messages.** `ByteBase` 4 makes 4 the first length that needs two digits, and 15
  the last that can be written, as 256 and 65535 do. The pipe is shorter than
  the longest packet and longer than the shortest, so that both ends block. One slot and two
  calls in succession: nothing of a call but `xid` and the buffers survives it,
  and `xid` wraps.
- **Starts.** A slot is fought over by two processes. Two records let the
  loser have another one, and a third start finds them both taken. Two attempts at the lock file give both "retry" and "give
  up". One status file; a second init adds processes that are not in
  the current file, to which the properties do not apply.
- **Cards.** Two insertions after the first card give a swap between two looks at the
  slot. `SeqLimit` stays above what a run can use; the wrap of a
  32-bit sequence number to 0, "no card", needs 2^32 insertions.
- **T=1.** Three attempts and three resynchronisations are the code's; six line
  errors exhaust the former and leave some for the latter. Chains of up to three
  blocks have a first, a middle and a last one; three APDUs have one before and one after
  the disturbed one. `RetryMod` is far above what a run can count to, so a wrap
  below 0 is seen as a value that is too large.
- **Session.** One command of each case, two marks to tell a command from the one
  before, one NULL to reach the limit of NULLs, a page of 2 so that a write crosses
  its end. Two faults let a probe fail and its restoring write fail too.
- **Drivers.** Commands below and above each limit of one message; four pieces of work are
  insert, reset, command, and a command or withdrawal after the disturbed one. Late answers are
  allowed for CCID only, whose messages are numbered; GBP takes a late answer for
  the next command's, see below.
- **Remote.** One device for two applications; a second device for one connection is
  what `ifd_open_remote` never claims. A read that returns more chunks than the
  queue has room for overruns it. Kernel buffers of closed connections keep one packet.
- **Apps.** Two threads in one program for the list, a second program for the lock; three
  terminals let a list have a middle.
- **Symmetry** is used in `handler` and `handler_access`, over clients and users, which
  the code tells apart by name only; neither has a liveness property.

Where a system may come to rest the run says `CHECK_DEADLOCK FALSE`: all clients have
gone, all starts are over, or the last piece of work is done. `messages` and `card`
cannot come to rest, and TLC checks that they do not.

### Fairness

- `IfdHandler`: the server is weakly fair: `ct_mainloop` loops for as long as poll
  reports anything. `FairClients` are weakly fair inside a `ct_socket_call`, which
  writes and reads until it has its reply. Nobody has to call, to disconnect, or to
  read; one client in `handler_live` is fair and the other two may stop anywhere.
- `Messages`: both processes go on with what they can do: the library blocks in
  read and write, the handler in poll.
- `StatusFile`: a process runs on. `WakeUp` is fair only with `Wakes`, when some socket
  is polled: then `ct_mainloop` gives poll() a timeout.
- `CardStatus`: the handler runs on (weak). `Notify` is strongly fair: the URB is
  submitted and discarded over and over, each capture waits 100 ms, and a reader
  sends its notification within that. `Poll(s)` is strongly fair: the loop calls
  `ifd_poll` once a second, between commands. (A command puts the *next* poll of
  its slot off by a second, so an application that sends more than one a second
  keeps its slot from being polled; the model assumes that applications
  pause.)
- `T1Protocol`: the loop runs on, and the card answers a block that arrives. A lost
  block ends the exchange with a timeout, which is `Lose`.
- `Session`: the handler runs on, since every receive has a time limit; the card
  need not say anything.
- `Drivers`: driver and reader go on; user, applications and late answers need not.
- `RiaProxy`: the proxy's loop serves each connection that is ready. Programs at the other
  ends may stop anywhere.
- `Pcsc`: some thread goes on. Nobody has to call, exit, or start.

### What the properties leave out, by name

Each excuse is a definition, and each is a gap of the code that TLC found
while the excuse was not there; what is left is what the code achieves. (The
gaps are in the section on [disagreements](#disagreements-between-the-code-and-what-it-says).)

| Module | Excuse | What it stands for |
|---|---|---|
| `CardStatus` | `taken` | a command read the notification, and does not publish |
| | `missed` | the notification came between the timeout and the discarding of its URB |
| | `LeftBehind` | these, and in event mode a first poll that failed, or a loop left deaf by an unknown command |
| `StatusFile` | `NoSlot` in `SlotsUnique`, `StatusNamesServer` | handlers that found the table full share the record in front of the file |
| | `TermEnds` | a SIGTERM between `sigaction` and the first line of `ct_mainloop` is forgotten |
| `T1Protocol` | `resynced` | after a resynchronisation the rest of an APDU is sent as a whole one |
| | `strayed` | an I-block was taken for the answer before the card had seen S(RESYNC) |
| `T0Protocol` | `stale` | a receive failed and was forgotten, or the protocol was made anew in the middle of things |
| `Session` | `excused` | a command for the memory card failed, detection could not write a byte back, or the card was drawn |
| `Drivers` | `OutOfStep` | GBP with the number 1 after a resynchronisation |
| | `Fragmented`, `CutShort` | GemPC: long commands; answers longer than the command's Lc |
| | `Renegotiates` | CCID: the negation names readers and choices with which no parameters are sent again |
| | `Unready`, `MistakesSW`, `crashed` | cyberJack: no protocol object; a status word as an ATR; no driver data. `Unready` also: a CCID reader without the card's voltage |
| | `Unwatched` | Kaan: a failed exchange that woke the terminal |
| | `len <= FileMax` in `MemoryKept` | Kaan: of a write of more than one chunk only the first is written |
| `RiaProxy` | `Inherited` | the exporter's late reply to a client that has left, taken by the device's next client for the answer to its call of the same number |
| `Pcsc` | `Passing` | in a program of several threads: a terminal that is being opened, or was closed, under another of them |
| | `Splits` | a read that begins in the middle of a block of a file |

`CallsEnd` of `IfdHandler` lets a call wait for a place in the table of sockets, and
only clients that leave nothing unread are counted on; the process ends otherwise.

## Proofs

The first part of `IfdHandlerProofs` proves of the table of locks, for every set of
sockets, slots and users, every `HandleLimit` and every `MaxGrants`, from
`LocksAssumption` alone:

| Theorem | Statement |
|---|---|
| `LocksTypeCorrect` | `LocksSpec => []LocksTypeOK` |
| `LocksOwnersOpen` | `LocksSpec => []OwnersOpen` |
| `LocksExclusion` | `LocksSpec => []Exclusion` |
| `LocksHandleNamesOneLock` | `LocksSpec => []HandleNamesOneLock` |
| `LocksAlwaysSafe` | `LocksSpec => []LocksSafe`, the last three together |
| `LocksRefinement` | `LocksSpec => Abstract!Spec` |

All but the last follow from one inductive invariant (`LocksInvariant`). `Exclusion`
is not inductive: a grant compares the user id of the *socket*
with those of the *locks*, so the invariant needs `OwnersOpen`, that a lock carries
the user id of the client now behind its owner; and that needs `CloseSock` to remove
every lock of the socket before its address can be used again. Likewise
`HandleNamesOneLock` needs that grants are numbered below the counter and no two
alike; with at most `HandleLimit` grants the numbers are their own residues.

The refinement is proved action by action under the invariant: a grant maps to
`AcquireShared`, `AcquireExclusive` or, when the client has as strong a lock
already, a stutter; `Exclusion` is what turns "no conflicting record" into the guards of the
abstract service.

Its second part proves of the handler together with its clients, for every number
of clients, users, slots, places for sockets and pieces of a request, and for every set
of commands, from `HandlerAssumption` and `LocksAssumption`:

| Theorem | Statement |
|---|---|
| `HandlerImplementsLocks` | `Spec => LocksSpec`: all theorems on the table hold in the handler |
| `HandlerTableSafe` | `Spec => []LocksSafe` |
| `HandlerRefinement` | `Spec => ImplementsSlotLocks` |
| `HandlerTypeCorrect` | `Spec => []HandlerTypeOK` |
| `HandlerHeldIsLocked` | `Spec => []HeldIsLocked` |
| `HandlerClientExclusion` | `Spec => []ClientExclusion` |
| `HandlerLocksHold` | `Spec => []LocksHold`, the last two together |
| `HandlerLocksLeaveInTurn` | `Spec => LocksLeaveInTurn` |
| `HandlerSocketsBounded` | `Spec => []SocketsBounded` |

The inductive invariant is `HandlerInv`: the invariant of the table, the types, and
for every connection four parts. A client's belief about its locks is not inductive
because it depends on a reply that is still in a buffer: `HeldOK` says that a reply
that grants a lock is true from the moment it is written until the client reads
it, and that an unlock under way names no lock the client still counts on. That in
turn needs that one request is under way at a time and is in one place (`CallOK`:
being written, in the kernel, in the receive buffer, or answered), that a socket
which poll() reported is still open when it is served, and that a read which finds
nothing means that the client has gone (`TodoOK`): otherwise `ct_socket_free` would
take locks away from a client that lives. `ConnOK` ties the user id of the socket to
the user behind the connection. With these, `ClientExclusion` follows from
`HeldIsLocked` and the table's `Exclusion`. Each action has a lemma; connections that an
action does not touch are settled once, in `SockFrame`. `SocketsBounded` needs that the
room found before poll() is still there at accept (`RoomOK`), which holds as one
connection is taken per round.

`StatusFileProofs` proves of the slots, for any finite number of starts, any number of
records and attempts, from `StatusAssumption`:

| Theorem | Statement |
|---|---|
| `StatusSlotsUnique` | `OneAtATime => (Spec => []SlotsUnique)` |
| `StatusNamesItsServer` | `OneAtATime /\ MaxFiles = 1 => (Spec => []StatusNamesServer)` |

`OneAtATime` is what the code needs and does not enforce: parents run one after the
other (`MaxParents = 1`), none is killed between the fork and its last write, and `None` is not
a process. `StatusInv` is the inductive invariant. A slot is found free long before it is
served, and the lock is given up between; so the invariant speaks of slots that are
*kept* (`Holds`): from the end of the scan until both processes are gone. Two kept slots
differ (`SlotsKept`), since a kept slot's record names, at every point, a process that is
alive (`RecordsKept`), so that a scan passes it by, and since nobody writes another's
record (`WriteKeepsOthers`), which is `SlotsKept` again. The premise of one status file is
needed for the sockets only: a handler of an older file binds the path of its slot even when
a handler of the current file has it.

`RiaProxyProofs` proves of the proxy, for all sets of applications and devices and all bounds,
from `RiaAssumption`:

| Theorem | Statement |
|---|---|
| `RiaPeersPaired` | `Spec => []PeersPaired` |
| `RiaAnswersOwnCall` | `Spec => []AnswersOwnCall` |
| `RiaDataInTurn` | `Spec => []DataInTurn` |

`PeersPaired` is not inductive, as `RIA_MGR_CLAIM` does not look whether the client that asks
has a device already. That it has none rests on a claim being the first packet of a
connection (`FirstIsClaim`; before that nothing is under way, `Unconnected`); that a paired
device is still on the list of clients rests on a device leaving both lists together
(`RegisteredListed`); and a pair is an application and a device (`PeersDiffer`).

`AnswersOwnCall` is a statement about every answer that has ended a call, whoever asked for
it, and an answer may have been under way since long before. It has two parts. That an answer
with a program's own mark is the one to this call is `CommandsMatch`, kept by `AnswersInv`, which
speaks of every packet there is: `AllAmong(G)` says that all queues and buffers hold packets
of a set `G`, and `Own(p)` that a packet of `G` with a program's number is an answer to
the call with that number. A step keeps it because a program never uses a number again
(`NumbersGrow`), so a late answer meets a call with another number; and because answers are
made from the request they answer. That any other answer is `Inherited` is `WayInv`, which says
on whose way a packet can be: what comes to a client bears its own mark, or that of a
client that had the device before and has left (`ToApp`, `FromDev`), because a device changes hands only
when a connection is gone (`Stay`); and a claim, the first call of a connection, ends before
anything of the device can come.

`DataInTurn` speaks of two ways, and each has its invariant beside the other two. To the
device (`TurnInv`): `Coming(d)` is the one sequence of what the device was given, has in
its queue and is still sent. It only loses segments or gets one packet more at its end, so that
all a step has to show is that the new packet is in turn (`TurnStep`). The packet is of
the client that holds the claim; nothing of another client came behind that client's first
packet (`Latest`), because a client that claims has sent the device nothing yet (`Fresh`, which rests
on `FirstIsClaim` again); and it is no older than what came, because numbers that a client has
yet to send are not below (`Covered`), through the buffer it flushes late. From the device
(`ReadInv`): what the application has read, its queue and the packets to it are in order,
and so are the packets from the device, its line and the count of what it made; `Follows`
ties the two sides of a claim together, and survives a lost connection because then the
application has no device any more, and claims none again.

`T1ProtocolProofs` proves of the protocol, for any number of APDUs, any lengths of
commands, answers and blocks, and any number of line errors, retries and requests of the
card, from `T1Assumption`:

| Theorem | Statement |
|---|---|
| `T1TypeCorrect` | `ErrorsAreTold => (Spec => [](TypeInv /\ OneBlock))` |
| `T1ReplyIsAnswer` | `ErrorsAreTold => (Spec => []ReplyIsAnswer)` |
| `T1ExecutedOnce` | `ErrorsAreTold => (Spec => []ExecutedOnce)` |
| `T1InStep` | `ErrorsAreTold => (Spec => []InStep)` |

`ErrorsAreTold` is a premise on the card: it marks the R-block for a garbled block as an
error, as ISO 7816-3 wants; with cards that do not, TLC finds `ExecutedOnce` violated. None
of the three properties is inductive, because what is returned depends on blocks that were
on the line long before. At most one block is on its way (`OneBlock`), and the invariant
`Exchange` names the stage the exchange is in: a chunk of the command has not reached the
card (`CommandSent`), it has (`ChunkTaken`), the card has said a chunk of its answer
(`AnswerSaid`), the host asks for the next (`AnswerAsked`), S(RESYNC) has not reached the
card (`ResyncSent`), it has (`CardResynced`). In each stage the four sequence bits, the
buffers of both ends, the card's last block and the block on the line fit together; a block
that arrives moves the exchange to the next stage, one that is lost or garbled leaves
it where it is. The stage `AnswerSaid` is where the attempt to prove `InStep` without an excuse
failed: a host that waits for the response to S(RESYNC) may take an answer there (`strayed`).

`PcscProofs` proves of the PC/SC driver and the CT-API library, for any numbers of programs, threads, channels, readers and terminals, from `PcscAssumption` and
`ProgramsAssumption`:

| Theorem | Statement |
|---|---|
| `PcscAtrOfLastPower` | `Spec => []AtrOfLastPower` |
| `AloneUnderLock` | `Spec => [](\A t \in Threads : Alone(Program(t)) => HoldsLock(t))` |
| `CommandsAreUnderLock` | `(\A p \in Programs : Alone(p)) => (Spec => []CommandsUnderLock)` |

`AtrOfLastPower` speaks of channels whose mutex is free. While it is taken, the thread that
powers the card holds the ATR that the channel will get (`HasAtr`), so `ChannelInv`
follows it from the handler's answer to the end of the call, and `ThreadInv` says that whoever is
at such a place has the mutex. `CommandsUnderLock` rests on the list of terminals: every
terminal in use of a program with one thread has its reader's lock, or is the one
the thread is opening, and then it is the first of the list (`AloneInv`) - which is why removing
it, when the lock is refused, removes the right one (`Opening`). That other programs, with
however many threads, cannot disturb this is one lemma (`OneProgram`): a step of one program
changes neither the lists nor the locks of another (`Within`). Programs of several
threads are left to TLC, whose run has one; there the property needs `Passing`.

`SessionProofs` proves of a slot with a serial reader, for any cards, commands, answers, writes
and page sizes, any delays, spoilt bytes and failures of the driver, from `T0Assumption` and
`SessionAssumption`:

| Theorem | Statement |
|---|---|
| `SessionTypeCorrect` | `Spec => []LineTypes` |
| `SessionHeaderNotData` | `Spec => []HeaderNotData` |
| `SessionAnswersInTurn` | `Spec => []AnswersInTurn` |
| `SessionResetIsClean` | `Spec => []ResetIsClean` |
| `SessionMemoryKept` | `Spec => []MemoryKept` |

*T=0.* What a procedure byte means depends on what was said before, so the invariant speaks of
all bytes that are still to come, on the line and in the card (`Count`, `Said`).
`Turn` says that handler and card are at the same point of the command: the handler has data to
send, and the card waits for as many or has said what leads there (`Sending`, four
stages); or the handler collects an answer, of which the rest comes byte by byte (`Pairs`) and then
at once, or with a status alone (`Rest`). Each part allows a NULL in front, spoilt bytes at
any place (`Comes`) and a card that was drawn and leaves what it had sent (`Off`). A byte read
(`ReadsMoves`), a byte sent (`SendsMoves`), a turn of the card (`SendingTalks`,
`ReceivingTalks`) each lead to the next stage, and a procedure byte that is what it should
be is taken for what it is (`TakenForIt`). When a command ends well, what was collected is in
order (`GotInOrder`, `Orderly`) and there is nothing to come (`Resting`), which is what the next
command starts from. A command that fails leaves the protocol in a state that refuses the
next, or is forgotten and counted (`stale`).

*Reset.* `SessionAssumption` says of a card with an ATR that this is one by ISO 7816-3
(`IsAtr`): a chain of T0, TD1, TD2 ..., protocols in ascending order, a check byte unless there
is T=0 only. (The order is needed: see `reader.c:299-312` below.) `AtrOfCard` shows for all of
them that the reading loop takes exactly the whole ATR and that `ifd_atr_complete` is content with that and with
no shorter part. `ParseAgrees` shows that `ifd_atr_parse`, where it accepts a string of bytes at all, names
the protocols that `ifd_protocol_select` finds, the same one first; for every string, an ATR
or not. The four readings are recursive functions along the chain. What such a function
computes needs an induction, and that it exists at all needs one too; the library's induction theorems take
operators as parameters and cannot be used here. Instead a set of numbers has a least
one (`Least`, from the well-founded order of the naturals and `WFMin`, which take sets), so what follows at
every place from the later places holds at all (`Everywhere`), and a function
that goes from place to place has values (`GoesAlong`). `AtrInv` then carries the ATR from the reset
to the next one: it is the ATR of a card, of the card in the slot while that is powered, and
until the next command nothing else comes from the card.

*Memory cards.* `MemoryKept` speaks of a slot where nothing is under way. `MemoryInv` says where the card may
differ from what was meant in between: while an application writes, nowhere but in the
chunk under way (`Storing`); while a card is being detected, nowhere but in its first byte, and
the byte to be restored is the one that was meant (`Detecting`). A write is counted as done
when it reads back (`WriteGoesOnKeeps`), so it does not matter how much the
driver wrote (`DriverStores`); that the byte inverted by detection goes back is the case
`op.then.step = "restore"`, and where the write that inverts it fails without an error, that the
card still has the old byte follows from the comparison (`WriteAgainKeeps`).

`CardStatusProofs` proves of readers with one slot, for any number of cards, clients and
failures, with and without a pipe, polled and in event mode, from `CardAssumption`:

| Theorem | Statement |
|---|---|
| `OneSlotSwapSeen` | `NSlots = 1 => (Spec /\ [][seq' >= seq]_vars => []SwapSeen)` |

The premise on `seq` is that the 32-bit counter does not start again. `SwapSeen` compares
what a client was told with what is published; it is kept as every new number is
larger than all that were told (`Numbers`), and needs a number for every change.
So `CardInv` follows a change from the reader to the status file: a notification
tells of one (`Notified`), the reader is asked only when nothing is known
(`Asked`), what `ccid_card_status` says is what the driver knows (`Answered`), and what the driver knows is
published, or about to be as a change (`Told`). With two slots the property fails (see
CCID below), so the premise is needed.

`DriversProofs` proves of a handler with a CCID, a Kaan or a cyberJack reader (`driver \in Proved`), for
any cards, memories, lengths of commands and requests, any features of a CCID reader and any number of
faults, from `DriverAssumption`, `CcidAssumption`, `KaanAssumption` and `CjAssumption`:

| Theorem | Statement, where `P` is the property |
|---|---|
| `NoneOverdue` | `"ccid" \notin Late => (Spec => []~Overdue)` |
| `OwnAnswers` | `"cyberjack" \notin Late => (Spec /\ []~Overdue => [](driver \in Proved => P))` with `AnswersOwn` |
| `RanAtMostOnce` | the same with `RunsOnce` |
| `AgreedProtocol` | with `ProtocolAgreed` |
| `TrueResets` | with `ResetTrue` |
| `TrueStatus` | with `StatusTrue` |
| `KeptMemory` | with `MemoryKept` |

The first premise is that the cyberJack's answers come in time or not at all, as its serial T=1 sees to; its
messages have no number. The second is about CCID readers alone (`Overdue` is false with any other
driver). Their answers may come late, but the number of a message has eight bits: an answer that is 255
commands late has the number of the next command, and `ccid_command` takes it for that command's.
A state where such an answer is under way is `Overdue`, and the theorems speak of behaviours without
one. `NoneOverdue` shows that it takes a late answer to get there, so for readers that answer in time or not
at all the premise can be left out. No run comes near it, since that takes 255 commands.

All six follow from one invariant (`HandlerInv`), since what an
operation returns is settled before it returns. It says of every place in a driver's functions which
operation leads there and which command is under way (`KaanKinds`, `KaanCommands`, `CjKinds`, `CcidKinds` ...), and
of an answer what it says of the card (`KaanSays`, `CjSays`, `CcidSays`): true from when the reader gives it
until the driver has used it, though the card may be drawn in between - which is why a status is compared with the card
at the beginning *or* the end. `KaanRan`, `CjRan` and `CcidRan` have what the card has
executed: nothing until it has the command, and the command once from then on. A reset of a
synchronous card reads a file before it selects the application: `KaanResetting` carries the ATR and the
card's state along the way. `KaanWatch` is why a frozen terminal need not be asked: it was
told the last status, and `dd.frozen` goes with everything that wakes it. `KaanMemory` says that what
has been read is a prefix of the memory, and `ChunkJoins` that the next chunk continues it.

For CCID, `CcidLine` speaks of all answers under way, in time or late (`Coming`): one that has the number
the driver waits for is an answer to the command it waits with (`CcidMessage`), the others are passed over.
`CcidOpened` is what the driver took from the reader's descriptor, `CcidTries` that the voltages
already tried are not the card's, and `CcidSelection` how far the selection of a protocol has come: who of driver,
reader and card has which protocol and speed at each place of `ccid_set_protocol`. Which
selections leave them agreed (`Decides`) follows for every combination of the features `params`, `pps`,
`atrparse` and `apdu`, with any protocols and TA1 in the ATR. A card that has not been
used since its reset (`Unused`) is the only one that takes a PTS, so that is part of it. The
steps of driver, link, reader, handler and user each have a lemma.

TLC checked every inductive invariant on the instances of the runs before it was proved.
The prover in its turn found what TLC could not: conditions of a CASE that overlapped, of
which TLC takes the first and the semantics of TLA+ any (in `CtApi`, `Pcsc`); they now exclude each other.

Only model-checked:

- liveness (`CallsEnd`, `GoneClientsForgotten`, `StartsEnd`, `TermEnds`, `ExchangeEnds`, `CardsSeen`,
  `CallsReturn`, `CommandsReturn`, `OperationsEnd`, `DevicesFreed`), which rests on fairness: the
  prover does not reach ENABLED;
- `FileReads`, which is about a fold with an operator as its parameter, and all of `Messages`,
  `ImplementsCalls` with it: its parsers are RECURSIVE operators, for which the prover loses its SMT
  backend (`CallServer` itself has no fairness and would be in reach);
- `SwapSeen` with several slots, `CommandsUnderLock` with several threads in a program;
- the invariants of `Drivers` with a GemPC reader, and with a CCID reader whose answers are
  so late that their number has come round.

## Disagreements between the code and what it says

Two are shown by the failing runs and listed as findings in `PROJECT.json`:
exclusive locks that only the obsolete command obeys (`ifd/process.c:157`; `openct.h:38-39`
promises more), and GBP's resynchronisations that are not limited
(`ifd/proto-gbp.c:178`; the comment at 264 says they are).

The rest was met while modelling. What has a name in the table of excuses above is in
a model; the others were read.

*Handler and status file.*
`ct/mainloop.c:104`: the error callback of a client's socket is a null pointer, so a client
that leaves a reply unread ends the process. `ct/mainloop.c:39`: `leave_mainloop = 0` at
the head of the loop forgets a SIGTERM that came before; `:40` and `:85`: without a polled
socket there is no timeout, and a SIGTERM between the test and poll() is seen at the next
event only. `ifd/process.c:99-102`: which error a bad slot gives depends on locks.
`ct/status.c:168`: the lock ends before the record is taken, so two starts at the same time
may get one slot. `ct/status.c:177` with a full table: `*num` is -1 and the record in front of the file is
written, and `ifd/ifdhandler.c:126-129` waits in vain for a null pointer.
`ifd/ifdhandler.c:146`: the record names the parent until the parent writes the child's pid; a
`shutdown` in between kills the parent, and a parent killed there leaves a serving child
whose slot counts as free.

*Library and messages.*
`ct/tlv.c`: `ct_tlv_get_bytes` for a missing tag looks into a parser that nobody cleared.
`ct/client.c:195`: a reset without an ATR returns what was in memory. An answer that
does not fit into the reply's buffer makes `ct_mainloop` drop the client.

*T=1 and T=0.*
`ifd/proto-t1.c:233-241` and `:277-286`: while the host waits for the response to S(RESYNC), a garbled block
is answered with R(0), as if nothing had been asked; a card that has not seen the request repeats its
last I-block, which is then taken for the answer, and the sequence numbers stay apart (`strayed`).
`ifd/proto-t1.c:317`: after a resynchronisation in a chain the rest of the APDU is sent as an
APDU. `:291-295` against `:366`: an I-block with the wrong number and an R-block during
reception are answered without counting retries, so with a card that keeps sending them
the loop does not end. `:610-633`: `t1_negotiate_ifsd` never counts its retries down. After a
lost block the state stays DEAD although a resynchronisation has succeeded. With cards
whose R-blocks carry no error bits the host repeats where the card has gone on, and
the two may disagree on the next number; the run `t1` has cards that set them.
`ifd/proto-t0.c`, "done:": a failed receive is forgotten, and the next command starts in the
middle of the old one. `t0_resynch` always fails, so one failed byte leaves the protocol
confused until the next reset. `ifd/reader.c:299-312`: an ATR that names T=1 first and T=0
last leaves its check byte unread. `ifd/reader.c:335-338`: a reset whose protocol
selection fails still succeeds, without a protocol.

*Memory cards.* `ifd_sync_detect_icc` ignores what its restoring write says, `ifd_sync_write` what
reading back says; the Towitoko's partial writes report success.

*CCID.* `ifd/ifd-ccid.c:979`: the status of slot 0 is asked for, whatever the slot; with two slots the card of
one is published for the other, and later replaced by the right one without a new number, so that a client is not told of the
change. `:1005` and
`process.c:219`: in event mode CT_CMD_STATUS and CT_CMD_RESET may read the notification of a
card that is then never published. T=0 selected after T=1 on a card without TA1 reports success while the card
stays with T=1. The exchange does not look at the type of the answer's message. An
answer that comes 255 commands late has the number of the next one (`:307`), and `ccid_command` takes it for its answer (`Overdue`).
In `ifd_pts_complete` a position is set (`j = +...`) where it should be advanced.

*GBP and GemPC.* A late answer is taken for the next command's. `retries` goes below 0.
`gbp_resynchronize` has no caller. Long commands send the wrong fragment
(`gpc_iso_send_frag`), exchanges use Lc for Le, and a swap of the card is not seen between a reset and the next
poll. A failed switch of speed leaves GBP dead. Each selection of a protocol forgets the old object.

*Kaan.* A failed exchange may have woken a terminal that is taken for frozen (982-998); a
change of the card is never reported as such; a failed request leaves an overridden timeout
(984 before 990). `kaan_update_binary` writes its first chunk only and reports success;
`kaan_read_binary` may read past the buffer. Without a key pad verification returns 0. 6985 in reply to
a selection of protocol is taken for success.

*cyberJack.* One protocol object moves between driver and slot: a second reset without a
removal of the card or a CT_CMD_STATUS in between fails. After a failed activation `driver_data` is null and
is used (`ifd/ifd-cyberjack.c:545`, `590`, `693`). A bare status word is taken for an ATR; a copy at 630-632
reads too far; `sw < 0x63cf` leaves 63CF out.

*Remote devices.* `ifd/ria.c:304`: `ifd_remote_send` sends its first chunk over and over.
A handler's error empties the answer but is not put into its header, so a refused claim
looks like one that succeeded and leaves the device's data uninitialised. The exporter's reply
to a client that has left goes to whoever has claimed the device since
(`ifd/ria-server.c:210`, `246-250`), and `ifd/ria.c:162` looks at its number only: the second call of the one client
takes what was said to the second call of the other (`Inherited`). POLLERR
on a connection ends the proxy. The exporter does not know `RIA_RESET_DEVICE`. Data for a device
with a full queue are dropped without a word (`ria-device.c:171`); a full read leaves no room for the
command in its packet.

*CT-API and PC/SC.* `ctapi/ctapi.c:562-563`: CT_init puts the entry into the list before it is complete
and locked, and two threads lose one; a third that has found it before goes on without the lock,
or without the terminal's files: `cwd` is null until line 564, and `mf` has no generator until 567 (`DispatchesFreed`). It allows the same terminal number twice; a
denied lock closes all entries with that number. Connections are never closed: the lock
stays until the program ends, and opening the reader again in the same program fails with
ERR_HTSI. CT_close reads the terminal it has just freed (603-613). Commands for the second card
go to slot 0, except reads of memory (539). `put` does not advance in a block it partly skips (67-84).
The files `ctcf` and `hoststatus` leave their size uninitialised. 9000 and 6282 seem reversed
(154-163). A command shorter than four bytes uses an uninitialised answer. A CPU card with a
4-byte ATR is taken for a memory card. `pcsc/pcsc.c`: IFDHGetCapabilities uses the context of a channel that has none;
SetProtocolParameters succeeds whatever the terminal says; CloseChannel calls CT_close outside
the mutex, Transmit and Control release it before CT_data, ICCPresence takes none.

## Not modelled

- The drivers for other readers and tokens: one device each, a command and its answer at a
  time, and no state between two that the modelled drivers do not have in kind.
- Of the modelled drivers: secure PIN entry of CCID and cyberJack, the second slot and the
  display of the Kaan, the lamps of Towitoko and cyberJack, and the recognition of models.
- USB descriptors, device paths, `conf.c`, `path.c`, `error.c`, `modules.c`: parsing,
  configuration and messages, no state that outlives a call. `openct-tool` is a command line over the library.
- BSD, Solaris, Mac OS and Sun Ray device code: calls through to the system.
- The lookup and printing of reader names in the library, and of `openct-control status`.
- Lengths, node addresses and the two checksums of T=1: a block is garbled or not.
- Calls with arguments for a PIN that do not fit into the buffer.
- T=0: a spoilt byte that happens to be another procedure byte the command could have had there.
- What a card with wires gives for an ATR (`ifd_sync_detect_icc`): the session has its protocol only.
- CCID: a request for more time that is itself too short (`ifd/ifd-ccid.c:375`).
- Kaan: the status words 62A5 and 62A7 of a reset, which choose a synchronous protocol by themselves, and
  files that take several exchanges (`kaan_read_binary` is modelled in full for memories only).
- Proxy: RIA_MGR_INFO, which nobody sends, and a second claim on one connection, which
  `ifd_open_remote` never makes.
- PC/SC and CT-API: `malloc` that fails, requests longer than the driver's buffers, which it refuses (`pcsc/pcsc.c:394`,
  `446`), and the shift by -1 for the status of unit 0 (`ctapi/ctapi.c:227`, `229`).
- Some of the hazards in `PROJECT.json` are told and not caught, as their notes say:
  the end of the process on POLLERR, two starts at the same time, a parent killed between fork and record, two
  status files, T=1's uncounted answers to a card that misbehaves, two slots of a CCID
  reader, data dropped on a full queue, a second claim. Where the model reaches such a case a bound of the run or an
  excuse in the table above leaves it out; what happens then is under the disagreements.
- Real time. Timeouts are choices; a second is "comes back to it".

## What is left

- Proofs: the invariants of `Drivers` with a GemPC reader; lemmas on `CtBuffer` for every
  length (a compaction keeps the contents, a put that is refused keeps them too).
- `RiaProxy` as an implementation of an abstract table of claims.
- Multi-slot readers below `CardStatus` and `Drivers`, once the code asks for the right slot's status.
- Time in `CardStatus`, so that the poll that commands put off can be stated.
