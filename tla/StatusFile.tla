------------------------------ MODULE StatusFile ------------------------------
(***************************************************************************)
(* How ifdhandler processes come and go: the slot each takes in the status *)
(* file (src/ct/status.c), the fork into the background and the way out    *)
(* (src/ifd/ifdhandler.c, src/ct/mainloop.c), with openct-control starting *)
(* and stopping them (src/tools/openct-control.c).                         *)
(*                                                                         *)
(* A start is one run of the ifdhandler program: its first process, the    *)
(* parent, takes the slot and forks the child, which serves the reader.    *)
(* `openct-control init` makes a new status file; those who mapped the old *)
(* one keep it.  Process ids are not used again.                           *)
(***************************************************************************)
EXTENDS Integers, FiniteSets

CONSTANTS
  Starts,       \* runs of ifdhandler
  MaxReaders,   \* OPENCT_MAX_READERS
  Retries,      \* attempts at the lock file
  MaxFiles,     \* bound on the status files made by `openct-control init`
  MaxParents,   \* parents running at a time
  DeathPoints,  \* where a parent may be killed
  Wakes,        \* poll() in the loop has a timeout: some socket is polled
  None          \* no process, no reader

ASSUME StatusAssumption == /\ MaxReaders \in Nat \ {0}
                           /\ Retries \in Nat \ {0}
                           /\ MaxFiles \in Nat \ {0}
                           /\ MaxParents \in Nat \ {0}
                           /\ Wakes \in BOOLEAN
                           /\ DeathPoints \subseteq {"link", "scan", "unlock",
                                                     "reserve", "fork", "record"}

Slots   == 0 .. (MaxReaders - 1)
Parent(h) == <<h, "parent">>
Child(h)  == <<h, "child">>

NoSlot  == -1        \* what *num still is when the table is full
Free    == [pid |-> None, reader |-> None]
NoFile  == 0

VARIABLES
  file,      \* the status file the path names, by number
  table,     \* table[f][n]: ct_pid and ct_name in record n of file f
  lockFile,  \* status.lock exists
  socket,    \* socket[n]: the start whose child is bound to socket path n
  pc,        \* where the parent of a start is
  cpc,       \* where the child is
  mapped,    \* the status file a start has mapped
  slot,      \* the slot it has found
  tries,     \* attempts at the lock left; later, the record it looks at
  leave,     \* leave_mainloop in the child
  down       \* records `openct-control shutdown` has still to visit

vars == <<file, table, lockFile, socket, pc, cpc, mapped, slot, tries, leave, down>>

NotRunning == MaxReaders + 1    \* value of down: no shutdown yet

Alive(pid) == IF pid[2] = "parent" THEN pc[pid[1]] \notin {"new", "gone"}
                                   ELSE cpc[pid[1]] \notin {"none", "gone"}

\* Faulty variant: every background process is taken for dead.
Unused_ChildIgnored(record) ==
  record.pid = None \/ record.pid[2] = "child" \/ ~Alive(record.pid)

Unused(record) == record.pid = None \/ ~Alive(record.pid)

At(f, h, v) == [f EXCEPT ![h] = v]

\* A record of the mapped file; a slot that was never found names memory in
\* front of the file.
WriteRecord(h, record) ==
  table' = IF slot[h] = NoSlot THEN table
           ELSE [table EXCEPT ![mapped[h]][slot[h]] = record]

Record(h) == table[mapped[h]][slot[h]]
-------------------------------------------------------------------------------
Init == /\ file = NoFile
        /\ table = [f \in 1 .. MaxFiles |-> [n \in Slots |-> Free]]
        /\ lockFile = FALSE
        /\ socket = [n \in Slots \cup {NoSlot} |-> None]
        /\ pc = [h \in Starts |-> "new"]
        /\ cpc = [h \in Starts |-> "none"]
        /\ mapped = [h \in Starts |-> NoFile]
        /\ slot = [h \in Starts |-> NoSlot]
        /\ tries = [h \in Starts |-> 0]
        /\ leave = [h \in Starts |-> FALSE]
        /\ down = NotRunning

-------------------------------------------------------------------------------
(* Faulty variants, named <definition>_<fault>.  No specification uses      *)
(* them; each breaks a property when it takes the place of the definition.  *)

Link_UntilLocked(h) ==
  /\ pc[h] = "link"
  /\ IF lockFile
     THEN UNCHANGED <<pc, lockFile, tries>>
     ELSE /\ lockFile' = TRUE
          /\ pc' = At(pc, h, "scan")
          /\ tries' = At(tries, h, 0)
  /\ UNCHANGED <<file, table, socket, cpc, mapped, slot, leave, down>>

RecordChild_NotRecorded(h) ==
  /\ pc[h] = "record"
  /\ pc' = At(pc, h, "gone")
  /\ UNCHANGED <<file, table, lockFile, socket, cpc, mapped, slot, tries, leave, down>>

CallPoll_ClearsFlag(h) ==
  /\ cpc[h] = "call"
  /\ cpc' = At(cpc, h, "blocked")
  /\ leave' = At(leave, h, FALSE)
  /\ UNCHANGED <<file, table, lockFile, socket, pc, mapped, slot, tries, down>>

-------------------------------------------------------------------------------
(* The parent: ct_status_alloc_slot, then fork *)

\* ifd_spawn_handler waits for the parent it has started, so one
\* openct-control has one parent running at a time; hotplug scripts run an
\* openct-control each.
Start(h) ==
  /\ pc[h] = "new"
  /\ file # NoFile
  /\ Cardinality({g \in Starts : Alive(Parent(g))}) < MaxParents
  /\ pc' = At(pc, h, "link")
  /\ mapped' = At(mapped, h, file)
  /\ tries' = At(tries, h, Retries)
  /\ UNCHANGED <<file, table, lockFile, socket, cpc, slot, leave, down>>

\* ct_status_lock.  The caller does not look at what it returns: out of
\* attempts, the parent goes on without the lock.
Link(h) ==
  /\ pc[h] = "link"
  /\ IF lockFile /\ tries[h] > 1
     THEN /\ tries' = At(tries, h, tries[h] - 1)
          /\ UNCHANGED <<pc, lockFile>>
     ELSE /\ lockFile' = TRUE
          /\ pc' = At(pc, h, "scan")
          /\ tries' = At(tries, h, 0)
  /\ UNCHANGED <<file, table, socket, cpc, mapped, slot, leave, down>>

\* The search for a free record, one at a time.
Scan(h) ==
  /\ pc[h] = "scan"
  /\ IF tries[h] \in Slots /\ ~Unused(table[mapped[h]][tries[h]])
     THEN /\ tries' = At(tries, h, tries[h] + 1)
          /\ UNCHANGED <<pc, slot>>
     ELSE /\ slot' = At(slot, h, IF tries[h] \in Slots THEN tries[h] ELSE NoSlot)
          /\ tries' = At(tries, h, 0)
          /\ pc' = At(pc, h, "unlock")
  /\ UNCHANGED <<file, table, lockFile, socket, cpc, mapped, leave, down>>

\* ct_status_unlock removes the lock file, whoever made it.
Unlock(h) ==
  /\ pc[h] = "unlock"
  /\ lockFile' = FALSE
  /\ pc' = At(pc, h, "reserve")
  /\ UNCHANGED <<file, table, socket, cpc, mapped, slot, tries, leave, down>>

\* The record is taken.  Record -1 lies in front of the mapping: the write
\* kills the process or hits some other memory of it.
Reserve(h) ==
  /\ pc[h] = "reserve"
  /\ WriteRecord(h, [pid |-> Parent(h), reader |-> None])
  /\ \/ pc' = At(pc, h, "fork")
     \/ slot[h] = NoSlot /\ pc' = At(pc, h, "gone")
  /\ UNCHANGED <<file, lockFile, socket, cpc, mapped, slot, tries, leave, down>>

Fork(h) ==
  /\ pc[h] = "fork"
  /\ pc' = At(pc, h, "record")
  /\ cpc' = At(cpc, h, "open")
  /\ UNCHANGED <<file, table, lockFile, socket, mapped, slot, tries, leave, down>>

\* The parent puts the child's process id into the record and exits.
RecordChild(h) ==
  /\ pc[h] = "record"
  /\ slot[h] # NoSlot => WriteRecord(h, [Record(h) EXCEPT !.pid = Child(h)])
  /\ slot[h] = NoSlot => table' = table
  /\ pc' = At(pc, h, "gone")
  /\ UNCHANGED <<file, lockFile, socket, cpc, mapped, slot, tries, leave, down>>

\* The parent is killed, inside the lock by SIGKILL only: a lock file stays.
Kill(h) ==
  /\ pc[h] \in DeathPoints
  /\ pc' = At(pc, h, "gone")
  /\ UNCHANGED <<file, table, lockFile, socket, cpc, mapped, slot, tries, leave, down>>

-------------------------------------------------------------------------------
(* The child *)

\* ifd_open, and the name of the reader in the record; or no such device.
Open(h) ==
  /\ cpc[h] = "open"
  /\ \/ /\ cpc' = At(cpc, h, "bind")
        /\ slot[h] # NoSlot => WriteRecord(h, [Record(h) EXCEPT !.reader = h])
        /\ slot[h] = NoSlot => table' = table
     \/ /\ cpc' = At(cpc, h, "gone")
        /\ table' = table
  /\ UNCHANGED <<file, lockFile, socket, pc, mapped, slot, tries, leave, down>>

\* ifd_activate and ct_socket_listen, which unlinks what has the path.
Bind(h) ==
  /\ cpc[h] = "bind"
  /\ \/ /\ cpc' = At(cpc, h, "handle")
        /\ socket' = At(socket, slot[h], h)
     \/ /\ cpc' = At(cpc, h, "gone")
        /\ socket' = socket
  /\ UNCHANGED <<file, table, lockFile, pc, mapped, slot, tries, leave, down>>

\* sigaction(SIGTERM), and then the first line of ct_mainloop.
Handle(h) ==
  /\ cpc[h] = "handle"
  /\ cpc' = At(cpc, h, "enter")
  /\ UNCHANGED <<file, table, lockFile, socket, pc, mapped, slot, tries, leave, down>>

Enter(h) ==
  /\ cpc[h] = "enter"
  /\ leave' = At(leave, h, FALSE)
  /\ cpc' = At(cpc, h, "test")
  /\ UNCHANGED <<file, table, lockFile, socket, pc, mapped, slot, tries, down>>

\* The head of the loop; between the test and the sleep in poll() a signal
\* only sets the flag.
Test(h) ==
  /\ cpc[h] = "test"
  /\ cpc' = At(cpc, h, IF leave[h] THEN "clear" ELSE "call")
  /\ UNCHANGED <<file, table, lockFile, socket, pc, mapped, slot, tries, leave, down>>

CallPoll(h) ==
  /\ cpc[h] = "call"
  /\ cpc' = At(cpc, h, "blocked")
  /\ UNCHANGED <<file, table, lockFile, socket, pc, mapped, slot, tries, leave, down>>

\* poll() returns: after its timeout, or because a client or the reader wants
\* something, which nobody has to.
WakeUp(h) ==
  /\ cpc[h] = "blocked"
  /\ cpc' = At(cpc, h, "test")
  /\ UNCHANGED <<file, table, lockFile, socket, pc, mapped, slot, tries, leave, down>>

\* The record is cleared and the process exits.
Clear(h) ==
  /\ cpc[h] = "clear"
  /\ WriteRecord(h, Free)
  /\ cpc' = At(cpc, h, "gone")
  /\ UNCHANGED <<file, lockFile, socket, pc, mapped, slot, tries, leave, down>>

\* The device of a running reader is unplugged: exit_on_device_disconnect.
Unplug(h) ==
  /\ cpc[h] = "blocked"
  /\ cpc' = At(cpc, h, "clear")
  /\ UNCHANGED <<file, table, lockFile, socket, pc, mapped, slot, tries, leave, down>>

\* A child dies without a word: its record stays.
Die(h) ==
  /\ Alive(Child(h))
  /\ cpc' = At(cpc, h, "gone")
  /\ UNCHANGED <<file, table, lockFile, socket, pc, mapped, slot, tries, leave, down>>

-------------------------------------------------------------------------------
(* openct-control *)

\* mgr_init: ct_status_clear makes an empty status file in place of the old.
InitStatus ==
  /\ file < MaxFiles
  /\ down = NotRunning
  /\ file' = file + 1
  /\ UNCHANGED <<table, lockFile, socket, pc, cpc, mapped, slot, tries, leave, down>>

\* SIGTERM.  It ends a process that has no handler for it.  The handler sets
\* leave_mainloop, which also ends a sleep in poll().
Terminate(pid) ==
  IF pid[2] = "parent"
  THEN /\ pc' = At(pc, pid[1], "gone")
       /\ UNCHANGED <<cpc, leave>>
  ELSE /\ pc' = pc
       /\ IF cpc[pid[1]] \in {"open", "bind", "handle"}   \* not caught yet
          THEN /\ cpc' = At(cpc, pid[1], "gone")
               /\ leave' = leave
          ELSE /\ cpc' = IF cpc[pid[1]] = "blocked"
                         THEN At(cpc, pid[1], "test") ELSE cpc
               /\ leave' = At(leave, pid[1], TRUE)

\* mgr_shutdown walks the table from its end, and then removes the file.
Shutdown ==
  /\ file # NoFile
  /\ down = NotRunning
  /\ down' = MaxReaders
  /\ UNCHANGED <<file, table, lockFile, socket, pc, cpc, mapped, slot, tries, leave>>

ShutdownStep ==
  /\ down \in 1 .. MaxReaders
  /\ down' = down - 1
  /\ IF ~Unused(table[file][down - 1])
     THEN Terminate(table[file][down - 1].pid)
     ELSE UNCHANGED <<pc, cpc, leave>>
  /\ file' = IF down = 1 THEN NoFile ELSE file
  /\ UNCHANGED <<table, lockFile, socket, mapped, slot, tries>>

-------------------------------------------------------------------------------
ParentStep(h) == Link(h) \/ Scan(h) \/ Unlock(h) \/ Reserve(h) \/ Fork(h)
                 \/ RecordChild(h)

ChildStep(h) == Open(h) \/ Bind(h) \/ Handle(h) \/ Enter(h) \/ Test(h)
                \/ CallPoll(h) \/ Clear(h) \/ (Wakes /\ WakeUp(h))

Next == \/ \E h \in Starts : \/ Start(h) \/ ParentStep(h) \/ ChildStep(h)
                             \/ WakeUp(h) \/ Unplug(h) \/ Die(h) \/ Kill(h)
        \/ InitStatus \/ Shutdown \/ ShutdownStep

\* Processes run on; only with a timeout does poll() return by itself.
Fairness == /\ \A h \in Starts : WF_vars(ParentStep(h)) /\ WF_vars(ChildStep(h))
            /\ WF_vars(ShutdownStep)

Spec == Init /\ [][Next]_vars /\ Fairness

-------------------------------------------------------------------------------
(* Properties *)

\* Children past the opening of their device and not on their way out.
Serving(h) == cpc[h] \in {"handle", "enter", "test", "call", "blocked"}

\* Until a shutdown begins, two handlers that run on one status file have
\* different slots: the lock file, and openct-control's wait for the parent,
\* are there for this.  Handlers that found the table full have none.
SlotsUnique ==
  \A g, h \in Starts :
    down = NotRunning /\ g # h /\ Serving(g) /\ Serving(h)
    /\ mapped[g] = mapped[h] /\ slot[h] # NoSlot => slot[g] # slot[h]

\* Until a shutdown begins, what the status file says of a slot is true: the
\* record of a serving handler names its reader and a process of it, so that
\* `openct-control status` lists the reader and nobody is given its slot; and,
\* in the current file, the socket of the slot leads to it.
StatusNamesServer ==
  \A h \in Starts :
    down = NotRunning /\ Serving(h) /\ slot[h] # NoSlot =>
      /\ Record(h).reader = h
      /\ Record(h).pid = Child(h) \/ (pc[h] = "record" /\ Record(h).pid = Parent(h))
      /\ mapped[h] = file => socket[slot[h]] = h

\* A start never hangs on the lock file, not on one that a killed parent has
\* left either: the parent comes to its end.
StartsEnd == \A h \in Starts : pc[h] # "new" ~> pc[h] = "gone"

\* A handler told to leave by SIGTERM clears its record and exits ("Set an TERM
\* signal handler for clean exit", ifdhandler.c).
TermEnds == \A h \in Starts : leave[h] /\ cpc[h] # "enter" ~> cpc[h] = "gone"
=============================================================================
