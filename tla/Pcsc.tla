--------------------------------- MODULE Pcsc --------------------------------
(***************************************************************************)
(* The PC/SC driver (src/pcsc/pcsc.c) in pcscd, which calls it from        *)
(* several threads, beside other programs that use the CT-API library.     *)
(* Every channel is a terminal of the library, with a context of its own   *)
(* and a mutex; the library's list is under none of the mutexes.           *)
(***************************************************************************)
EXTENDS CtApi

CONSTANTS Pcscd,        \* the program that is pcscd
          Transmits,    \* what its clients send to cards, and to terminals
          Controls,
          LibraryCtns,  \* the terminals and commands of the other programs
          LibraryCommands

VARIABLES
    context,    \* ifdh_context: the number of the ATR it holds or 0; None without one
    mutex,      \* ifdh_context_mutex: the thread that has it
    newest      \* the ATR that the last power action of a channel got

vars == <<ctVars, context, mutex, newest>>

Init ==
    /\ CtInit
    /\ context = [c \in Ctns |-> None]
    /\ mutex = [c \in Ctns |-> None]
    /\ newest = [c \in Ctns |-> 0]

Free(t) == th[t].op = None /\ alive[Program(t)] /\ work < MaxWork
Calls(t, call) ==
    /\ Moves(t, call)
    /\ work' = work + 1
    /\ UNCHANGED <<head, node, alive, owner, card, resets, context, mutex, newest>>

\* IFD_RESET is IFD_POWER_UP with another instruction for the same terminal;
\* "capabilities" asks for the ATR, since the other tags are constants.  (Buffers
\* that are too long for CT_data change nothing, and memory does not run out.)
Powers == {"power up", "power down"}
Locking == Powers \cup {"create", "capabilities", "protocol", "transmit", "control"}
DriverOps == Locking \cup {"close channel", "presence"}
LibraryOps == {"init", "close", "data"}

ASSUME PcscAssumption == None \notin Threads \cup DriverOps \cup LibraryOps

\* pcscd calls the driver.
DriverCalled(t) ==
    /\ Free(t) /\ Program(t) = Pcscd
    /\ \E op \in DriverOps, c \in Ctns, r \in Readers :
         /\ op # "create" => r = CHOOSE any \in Readers : TRUE
         /\ \E cmd \in CASE op = "transmit" -> Transmits
                         [] op = "control" -> Controls
                         [] OTHER -> {None} :
              Calls(t, [Idle EXCEPT !.op = op, !.ctn = c, !.reader = r, !.cmd = cmd,
                                    !.at = CASE op = "close channel" -> "close"
                                             [] op = "presence" -> "status"
                                             [] OTHER -> "enter"])

\* Other programs call the library.
LibraryCalled(t) ==
    /\ Free(t) /\ Program(t) # Pcscd
    /\ \E c \in LibraryCtns, r \in Readers :
         \/ Calls(t, [Idle EXCEPT !.op = "init", !.ctn = c, !.reader = r, !.at = "init"])
         \/ Calls(t, [Idle EXCEPT !.op = "close", !.ctn = c, !.at = "close"])
         \/ \E cmd \in LibraryCommands :
              Calls(t, [Idle EXCEPT !.op = "data", !.ctn = c, !.cmd = cmd, !.at = "data"])

LibraryReturns(t) ==
    /\ At(t, "returned") /\ Program(t) # Pcscd
    /\ Moves(t, Idle)
    /\ UNCHANGED <<head, node, alive, owner, card, resets, work, context, mutex, newest>>

-----------------------------------------------------------------------------
Terminal(ins, want, proto) ==
    [dad |-> "ct", ins |-> ins, wellformed |-> TRUE, message |-> FALSE, unit |-> 1,
     want |-> want, proto |-> proto]

\* The command an operation has for the terminal.
Command(op) ==
    CASE op = "power up" -> Terminal("reset", "atr", None)
      [] op = "power down" -> Terminal("eject", None, None)
      [] op = "protocol" -> Terminal("protocol", None, "T1")
      [] op = "presence" -> Terminal("status", None, None)

Asks(t, cmd) == Moves(t, [th[t] EXCEPT !.at = "data", !.cmd = cmd])
Ctn(t) == th[t].ctn

DriverUnchanged == UNCHANGED <<head, node, alive, owner, card, resets, work>>

Takes(t) ==
    /\ At(t, "enter") /\ mutex[Ctn(t)] = None
    /\ mutex' = [mutex EXCEPT ![Ctn(t)] = t]
    /\ Moves(t, [th[t] EXCEPT !.at = "locked"])
    /\ DriverUnchanged /\ UNCHANGED <<context, newest>>

\* pthread_mutex_unlock, and the operation returns.
Leaves(t) == mutex' = [mutex EXCEPT ![Ctn(t)] = None] /\ Moves(t, Idle)

Absent_Locked(t) ==
    /\ At(t, "locked") /\ context[Ctn(t)] = None /\ th[t].op # "capabilities"
    /\ UNCHANGED mutex
    /\ IF th[t].op = "create" THEN Moves(t, [th[t] EXCEPT !.at = "init"]) ELSE Moves(t, Idle)
    /\ DriverUnchanged /\ UNCHANGED <<context, newest>>

\* There is no context: nothing is done, but for a new channel.
Absent(t) ==
    /\ At(t, "locked") /\ context[Ctn(t)] = None /\ th[t].op # "capabilities"
    /\ IF th[t].op = "create" THEN Moves(t, [th[t] EXCEPT !.at = "init"]) /\ UNCHANGED mutex ELSE Leaves(t)
    /\ DriverUnchanged /\ UNCHANGED <<context, newest>>

Present_Unlocked(t) ==
    /\ At(t, "locked") /\ context[Ctn(t)] # None
    /\ IF th[t].op \in {"create", "capabilities"} THEN Leaves(t)
       ELSE /\ mutex' = [mutex EXCEPT ![Ctn(t)] = None]
            /\ Asks(t, IF th[t].op \in {"transmit", "control"} THEN th[t].cmd ELSE Command(th[t].op))
    /\ DriverUnchanged /\ UNCHANGED <<context, newest>>

\* The mutex is held for as long as the terminal works, but not for the
\* commands of applications.
Present(t) ==
    /\ At(t, "locked") /\ context[Ctn(t)] # None
    /\ CASE th[t].op \in {"create", "capabilities"} -> Leaves(t)
         [] th[t].op \in {"transmit", "control"} ->
              Asks(t, th[t].cmd) /\ mutex' = [mutex EXCEPT ![Ctn(t)] = None]
         [] OTHER -> Asks(t, Command(th[t].op)) /\ UNCHANGED mutex
    /\ DriverUnchanged /\ UNCHANGED <<context, newest>>

PresenceAsks(t) ==
    At(t, "status") /\ Asks(t, Command("presence"))
    /\ DriverUnchanged /\ UNCHANGED <<context, mutex, newest>>

\* A successful answer has become the context of a new channel, or its ATR.
Became(t) ==
    LET old == context[Ctn(t)] IN
    IF th[t].rc # "OK" THEN old ELSE
    CASE th[t].op \in {"create", "power down"} -> 0
      [] th[t].op = "power up" -> IF th[t].rsp.data = <<>> THEN 0 ELSE th[t].rsp.data[1]
      [] OTHER -> old

Finishes(t) ==
    /\ At(t, "returned") /\ th[t].op \in {"create", "protocol"} \cup Powers
    /\ context' = [context EXCEPT ![Ctn(t)] = Became(t)]
    /\ newest' = IF th[t].op \in {"create", "power down"} /\ th[t].rc = "OK"
                 THEN [newest EXCEPT ![Ctn(t)] = 0] ELSE newest
    /\ Leaves(t)
    /\ DriverUnchanged

FinishesUnlocked(t) ==
    /\ At(t, "returned") /\ th[t].op \in {"transmit", "control", "presence"}
    /\ Moves(t, Idle)
    /\ DriverUnchanged /\ UNCHANGED <<context, mutex, newest>>

\* IFDHCloseChannel: the terminal is gone for some time when the context goes.
Forgets(t) ==
    /\ At(t, "returned") /\ th[t].op = "close channel" /\ mutex[Ctn(t)] = None
    /\ context' = [context EXCEPT ![Ctn(t)] = None]
    /\ Moves(t, Idle)
    /\ DriverUnchanged /\ UNCHANGED <<mutex, newest>>

-----------------------------------------------------------------------------
\* With its program, a channel ends.
Gone(p) ==
    IF p = Pcscd THEN /\ context' = [c \in Ctns |-> None]
                      /\ mutex' = [c \in Ctns |-> None]
                      /\ newest' = [c \in Ctns |-> 0]
    ELSE UNCHANGED <<context, mutex, newest>>

\* IFDHGetCapabilities does not look whether there is a context, to tell the ATR.
NoContext(t) ==
    /\ At(t, "locked") /\ context[Ctn(t)] = None /\ th[t].op = "capabilities"
    /\ Undefined(t)

Library(t) ==
    /\ CtSteps(t)
    /\ IF alive'[Program(t)]
       THEN /\ newest' = IF th[t].op \in Powers /\ resets' # resets
                         THEN [newest EXCEPT ![Ctn(t)] = resets'] ELSE newest
            /\ UNCHANGED <<context, mutex>>
       ELSE Gone(Program(t))

Steps(t) ==
    \/ Takes(t) \/ Absent(t) \/ Present(t) \/ PresenceAsks(t) \/ Finishes(t)
    \/ FinishesUnlocked(t) \/ Forgets(t) \/ LibraryReturns(t) \/ Library(t)
    \/ NoContext(t) /\ Gone(Program(t))

Progress == \E t \in Threads : Steps(t)

\* A program is killed, or started again; a card comes or goes.
Exits(p) == alive[p] /\ p # Pcscd /\ work < MaxWork /\ Ends(p) /\ work' = work + 1 /\ Gone(p)

Starts(p) ==
    /\ ~alive[p] /\ work < MaxWork /\ work' = work + 1
    /\ alive' = [alive EXCEPT ![p] = TRUE]
    /\ UNCHANGED <<head, node, th, owner, card, resets, context, mutex, newest>>

CardChanges ==
    /\ work < MaxWork /\ work' = work + 1
    /\ \E r \in Readers, x \in Cards \cup {None} :
         x # card[r] /\ (x = None \/ card[r] = None) /\ card' = [card EXCEPT ![r] = x]
    /\ UNCHANGED <<head, node, th, alive, owner, resets, context, mutex, newest>>

Next ==
    \/ \E t \in Threads : DriverCalled(t) \/ LibraryCalled(t)
    \/ Progress
    \/ \E p \in Programs : Exits(p) \/ Starts(p)
    \/ CardChanges

\* Some thread goes on.
Spec == Init /\ [][Next]_vars /\ WF_vars(Progress)

-----------------------------------------------------------------------------
OnCard(cmd) == cmd.dad # "ct" \/ cmd.ins \in {"reset", "protocol"}

\* The terminal is not open yet, or not any more: a thread has it from the list
\* while another of its program is in CT_init or CT_close.
Passing(n) ==
    \/ ~node[n].live
    \/ \E u \in Threads : th[u].node = n /\ th[u].op \in {"init", "create"}

HoldsLock(t) ==
    LET n == th[t].node IN
    th[t].at = "asks" /\ OnCard(th[t].cmd) => owner[node[n].reader] = n

\* The program has one thread.
Alone(p) == \A t, u \in Threads : Program(t) = p /\ Program(u) = p => t = u

\* A command goes to a card only from a terminal that has its reader's exclusive lock:
\* of two programs one has the card, whichever threads open, use and
\* close terminals, and until it ends.  (Of three threads of one program two can lose
\* a terminal from the list that the third has found, and it goes on without the lock.)
CommandsUnderLock ==
    \A t \in Threads : HoldsLock(t) \/ (~Alone(Program(t)) /\ Passing(th[t].node))

\* The ATR that PC/SC is told is that of the channel's last power action, however the
\* threads that power, reset and close the channel follow each other.
AtrOfLastPower ==
    \A c \in Ctns : mutex[c] = None /\ context[c] # None => context[c] = newest[c]

Splits(f, offset) == \A i \in 0 .. Len(Blocks(f)) : offset # Len(FlattenSeq(SubSeq(Blocks(f), 1, i)))

\* What is read of a terminal's file is the part that was asked for: except from the
\* middle of a block, and where the generator does not say how long the file is.
FileReads ==
    \A t \in Threads :
        LET cmd == th[t].cmd
            f == node[th[t].node].cwd
            bytes == FlattenSeq(Blocks(f)) IN
        /\ th[t].op = "data" /\ th[t].at = "returned" /\ th[t].rc = "OK"
        /\ IsFile(cmd) /\ cmd.ins = "read" /\ SizeKnown(f) /\ ~Splits(f, cmd.part[1])
        => th[t].rsp.data = SubSeq(bytes, cmd.part[1] + 1, Smaller(cmd.part[1] + cmd.part[2], Len(bytes)))

\* Every call ends, and so no mutex is kept.
CallsEnd == \A t \in Threads : th[t].op # None ~> th[t].op = None
=============================================================================
