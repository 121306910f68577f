-------------------------------- MODULE CtApi -------------------------------
(***************************************************************************)
(* The CT-API library in the programs that use it (src/ctapi/ctapi.c): a   *)
(* list of open terminals that all threads of a program share without a    *)
(* lock.  Every terminal has a connection to the handler of its reader,    *)
(* never closed, and wants that reader's exclusive lock.  A terminal and   *)
(* its connection have the same number; freed memory is not used again.    *)
(***************************************************************************)
EXTENDS CtFiles, Integers, FiniteSets

CONSTANTS Programs,     \* the running programs
          Threads,      \* their threads
          ProgramOf,    \* the program of a thread
          Ctns,         \* terminal numbers
          Readers,      \* reader numbers
          Cards,        \* cards, "cpu" or "memory"
          MaxNodes,     \* terminals ever opened
          MaxWork,      \* calls, card changes and restarts
          None

ASSUME ProgramsAssumption == ProgramOf \in [Threads -> Programs] /\ None \notin Cards \cup Programs

VARIABLES
    head,       \* cardTerminals of every program: a terminal, or 0
    node,       \* the terminals: struct CardTerminal
    th,         \* the call every thread is in
    alive,      \* the programs that run
    owner,      \* readers' handlers: the connection with the exclusive lock, or 0
    card,       \* the card in slot 0 of every reader
    resets,     \* resets the handlers have answered
    work        \* what MaxWork bounds

ctVars == <<head, node, th, alive, owner, card, resets, work>>

Nodes == 1 .. MaxNodes
Unused == [program |-> None, ctn |-> None, reader |-> None, sync |-> {}, cwd |-> "mf",
           next |-> 0, live |-> FALSE]
Idle == [op |-> None, ctn |-> None, reader |-> None, cmd |-> None, at |-> "idle",
         cur |-> 0, prev |-> 0, node |-> 0, rc |-> None, rsp |-> None]

Program(t) == ProgramOf[t]
At(t, place) == th[t].at = place /\ alive[Program(t)]
Moves(t, call) == th' = [th EXCEPT ![t] = call]
Returns(t, rc, rsp) == Moves(t, [th[t] EXCEPT !.at = "returned", !.rc = rc, !.rsp = rsp])

CtInit ==
    /\ head = [p \in Programs |-> 0]
    /\ node = [n \in Nodes |-> Unused]
    /\ th = [t \in Threads |-> Idle]
    /\ alive = [p \in Programs |-> TRUE]
    /\ owner = [r \in Readers |-> 0]
    /\ card \in [Readers -> Cards]
    /\ resets = 0
    /\ work = 0

\* The terminals in a program's memory
Mine(p) == {n \in Nodes : node[n].program = p}

\* The kernel closes a program's sockets, and the handlers drop their locks.
Ends(p) ==
    /\ alive' = [alive EXCEPT ![p] = FALSE]
    /\ head' = [head EXCEPT ![p] = 0]
    /\ th' = [t \in Threads |-> IF Program(t) = p THEN Idle ELSE th[t]]
    /\ owner' = [r \in Readers |-> IF owner[r] \in Mine(p) THEN 0 ELSE owner[r]]
    /\ node' = [n \in Nodes |-> IF n \in Mine(p) THEN Unused ELSE node[n]]
    /\ UNCHANGED <<card, resets>>

\* Memory that was freed is used: nothing is known of the program from there on.
Undefined(t) == Ends(Program(t)) /\ UNCHANGED work

-----------------------------------------------------------------------------
(* CT_init *)

\* The connection is there, and the terminal filled in as far as its place in the
\* list.  cwd is None until it has its files.
InitConnects(t) ==
    /\ At(t, "init")
    /\ \/ \E n \in Nodes :
            /\ node[n] = Unused /\ \A m \in 1 .. n - 1 : node[m] # Unused
            /\ node' = [node EXCEPT ![n] =
                 [program |-> Program(t), ctn |-> th[t].ctn, reader |-> th[t].reader,
                  sync |-> {}, cwd |-> None, next |-> head[Program(t)], live |-> TRUE]]
            /\ Moves(t, [th[t] EXCEPT !.at = "publish", !.node = n])
       \/ Returns(t, "INVALID", None) /\ UNCHANGED node
    /\ UNCHANGED <<head, alive, owner, card, resets, work>>

InitPublishes(t) ==
    /\ At(t, "publish")
    /\ head' = [head EXCEPT ![Program(t)] = th[t].node]
    /\ Moves(t, [th[t] EXCEPT !.at = "fill"])
    /\ UNCHANGED <<node, alive, owner, card, resets, work>>

\* The files are filled in when the terminal is on the list.
InitFills(t) ==
    LET n == th[t].node IN
    /\ At(t, "fill") /\ node[n].live
    /\ node' = [node EXCEPT ![n].cwd = "mf"]
    /\ Moves(t, [th[t] EXCEPT !.at = "lock"])
    /\ UNCHANGED <<head, alive, owner, card, resets, work>>

InitLocks_Tried(t) ==
    LET n == th[t].node
        r == node[n].reader IN
    /\ At(t, "lock") /\ node[n].live
    /\ owner' = [owner EXCEPT ![r] = IF @ = 0 THEN n ELSE @]
    /\ Returns(t, "OK", None)
    /\ UNCHANGED <<head, node, alive, card, resets, work>>

\* Whose connection gets the lock is for the handler to say; a terminal without one
\* is closed again, and with it all that have its number.
InitLocks(t) ==
    LET n == th[t].node
        r == node[n].reader IN
    /\ At(t, "lock") /\ node[n].live
    /\ IF owner[r] = 0
       THEN owner' = [owner EXCEPT ![r] = n] /\ Returns(t, "OK", None)
       ELSE Moves(t, [th[t] EXCEPT !.at = "close", !.rc = "HTSI"]) /\ UNCHANGED owner
    /\ UNCHANGED <<head, node, alive, card, resets, work>>

\* Another thread has closed the terminal before it was complete.
InitOfFreed(t) ==
    /\ At(t, "fill") \/ At(t, "lock")
    /\ ~node[th[t].node].live
    /\ Undefined(t)

-----------------------------------------------------------------------------
(* CT_close *)

CloseBegins(t) ==
    /\ At(t, "close")
    /\ Moves(t, [th[t] EXCEPT !.at = "unlink", !.cur = head[Program(t)], !.prev = 0])
    /\ UNCHANGED <<head, node, alive, owner, card, resets, work>>

\* The terminal is freed and remains the current one.
CloseFrees(t) ==
    LET n == th[t].cur IN
    /\ At(t, "unlink") /\ n # 0 /\ node[n].live /\ node[n].ctn = th[t].ctn
    /\ IF th[t].prev = 0
       THEN /\ head' = [head EXCEPT ![Program(t)] = node[n].next]
            /\ node' = [node EXCEPT ![n].live = FALSE]
       ELSE /\ node' = [node EXCEPT ![n].live = FALSE, ![th[t].prev].next = node[n].next]
            /\ UNCHANGED head
    /\ UNCHANGED <<th, alive, owner, card, resets, work>>

\* What is free seldom has the number it had.
ClosePasses(t) ==
    LET n == th[t].cur IN
    /\ At(t, "unlink") /\ n # 0
    /\ ~node[n].live \/ node[n].ctn # th[t].ctn
    /\ Moves(t, [th[t] EXCEPT !.cur = node[n].next, !.prev = n])
    /\ UNCHANGED <<head, node, alive, owner, card, resets, work>>

\* If it has, it is freed again.
CloseFreesTwice(t) ==
    At(t, "unlink") /\ th[t].cur # 0 /\ ~node[th[t].cur].live /\ Undefined(t)

CloseEnds(t) ==
    /\ At(t, "unlink") /\ th[t].cur = 0
    /\ Returns(t, IF th[t].rc = "HTSI" THEN "HTSI" ELSE "OK", None)
    /\ UNCHANGED <<head, node, alive, owner, card, resets, work>>

-----------------------------------------------------------------------------
(* CT_data *)

Sw(sw) == [data |-> <<>>, sw |-> sw]

\* Commands that ctapi_control refuses, or answers without the reader.  (The reset of
\* unit 0, of the terminal, also shifts 1 by -1 and clears that bit of sync: on the
\* machines there are, the sign bit, which means nothing.)
Refusals(cmd) ==
    IF ~cmd.wellformed THEN {"6700", "6c00"} ELSE
    CASE cmd.ins = "eject" -> {"6d00"}
      [] cmd.ins = "foreign" -> {"6e00"}
      [] cmd.ins = "reset" /\ (cmd.unit \notin 0 .. 2 \/ cmd.message) -> {"6a00"}
      [] cmd.ins = "reset" /\ cmd.unit = 0 /\ ~cmd.message -> IF cmd.want = "hist" THEN {"6a00"} ELSE {"9000"}
      [] cmd.ins = "protocol" /\ (cmd.unit \notin 1 .. 2 \/ cmd.proto \notin {"T0", "T1"}) ->
           {"6a00", "6a80", "6a85"}
      [] OTHER -> {}

IsFile(cmd) == cmd.dad = "ct" /\ cmd.ins \in {"select", "read"}
Filled(n) == node[n].cwd # None

\* n is the first of the list with the number or freed, or 0: there is none.
Found(p, c, n) ==
    LET from[m \in Mine(p) \cup {0}] ==
            IF m = 0 THEN 0 ELSE
            IF ~node[m].live \/ node[m].ctn = c THEN m ELSE from[node[m].next]
    IN n \in Mine(p) \cup {0} /\ n = from[head[p]]

\* The list is walked at once; CT_close walks it one terminal at a time.
DataFinds(t) ==
    /\ At(t, "data")
    /\ \E n \in Nodes \cup {0} :
         /\ Found(Program(t), th[t].ctn, n)
         /\ n # 0 => node[n].live
         /\ IF n = 0 \/ th[t].cmd.dad \notin {"icc1", "icc2", "ct"}
            THEN Returns(t, "INVALID", None)
            ELSE Moves(t, [th[t] EXCEPT !.at = "dispatch", !.node = n])
    /\ UNCHANGED <<head, node, alive, owner, card, resets, work>>

DataFindsFreed(t) ==
    /\ At(t, "data")
    /\ \E n \in Nodes : Found(Program(t), th[t].ctn, n) /\ ~node[n].live
    /\ Undefined(t)

\* ctapi_control and ctapi_transact, as far as the terminal alone is concerned.
Dispatches(t) ==
    LET n == th[t].node
        cmd == th[t].cmd IN
    /\ At(t, "dispatch") /\ node[n].live
    /\ Filled(n) \/ ~IsFile(cmd)
    /\ \/ /\ cmd.dad = "ct" /\ \E sw \in Refusals(cmd) : Returns(t, "OK", Sw(sw))
          /\ UNCHANGED node
       \/ /\ cmd.dad = "ct" /\ Refusals(cmd) = {} /\ cmd.ins = "select"
          /\ IF Selects(node[n].cwd, cmd.file)
             THEN node' = [node EXCEPT ![n].cwd = cmd.file] /\ Returns(t, "OK", Sw("9000"))
             ELSE Returns(t, "OK", Sw("6a82")) /\ UNCHANGED node
       \/ /\ cmd.dad = "ct" /\ Refusals(cmd) = {} /\ cmd.ins = "read"
          /\ \E a \in Read[node[n].cwd, cmd.part] : Returns(t, "OK", a)
          /\ UNCHANGED node
       \/ /\ cmd.dad # "ct" /\ cmd.ins = "kvk" /\ Returns(t, "OK", Sw("9000"))
          /\ UNCHANGED node
       \/ /\ IF cmd.dad = "ct" THEN Refusals(cmd) = {} /\ ~IsFile(cmd) ELSE cmd.ins # "kvk"
          /\ Moves(t, [th[t] EXCEPT !.at = "asks"])
          /\ UNCHANGED node
    /\ UNCHANGED <<head, alive, owner, card, resets, work>>

\* Freed, or without files: ct->cwd is NULL.
DispatchesFreed(t) ==
    LET n == th[t].node
    IN  /\ At(t, "dispatch")
        /\ ~node[n].live \/ (~Filled(n) /\ IsFile(th[t].cmd))
        /\ Undefined(t)

\* A memory card's READ BINARY is for its own slot, any other command for the first.
SlotOf(cmd) == IF cmd.dad = "icc2" THEN 1 ELSE 0
ReadsMemory(n, cmd) == cmd.ins = "binary" /\ SlotOf(cmd) \in node[n].sync
AsksSlot(n, cmd) ==
    CASE cmd.dad = "ct" -> cmd.unit - 1
      [] cmd.dad # "ct" /\ ReadsMemory(n, cmd) -> SlotOf(cmd)
      [] OTHER -> 0

\* The handler serves the request, of whoever it is, or it fails: the status then ends
\* at that slot, and there is no second one.
HandlerAnswers(t) ==
    LET n == th[t].node
        cmd == th[t].cmd
        r == node[n].reader
        there == AsksSlot(n, cmd) = 0 /\ card[r] # None
        serves(rsp) == Returns(t, "OK", rsp) /\ UNCHANGED resets
        kind == IF ReadsMemory(n, cmd) THEN "memory" ELSE "cpu" IN
    /\ At(t, "asks")
    /\ \/ cmd.ins # "status" /\ Returns(t, "INVALID", None) /\ UNCHANGED resets
       \/ /\ cmd.ins = "reset" /\ there
          /\ resets' = resets + 1
          /\ Moves(t, [th[t] EXCEPT !.at = "note",
                                    !.rsp = [number |-> resets + 1, kind |-> card[r]]])
       \/ /\ cmd.ins = "status"
          /\ \E slots \in {<<>>, <<IF card[r] # None THEN "present" ELSE "none">>} :
               serves([data |-> slots, sw |-> "9000"])
       \/ cmd.ins = "protocol" /\ \E sw \in {"9000", "6985"} : serves(Sw(sw))
       \/ /\ cmd.dad # "ct" /\ there /\ card[r] = kind
          /\ serves([data |-> <<kind>>, sw |-> "9000"])
    /\ UNCHANGED <<head, node, alive, owner, card, work>>

\* ctapi_reset: a card that answers four bytes is a memory card.
ResetNotes(t) ==
    LET n == th[t].node
        cmd == th[t].cmd
        s == cmd.unit - 1 IN
    /\ At(t, "note") /\ node[n].live
    /\ node' = [node EXCEPT ![n].sync = IF th[t].rsp.kind = "memory" THEN @ \cup {s} ELSE @ \ {s}]
    /\ Returns(t, "OK", CASE cmd.want = "hist" -> Sw("6a00")
                          [] cmd.want = "atr" -> [data |-> <<th[t].rsp.number>>, sw |-> "9000"]
                          [] OTHER -> Sw("9000"))
    /\ UNCHANGED <<head, alive, owner, card, resets, work>>

ResetNotesFreed(t) == At(t, "note") /\ ~node[th[t].node].live /\ Undefined(t)

CtSteps(t) ==
    \/ InitConnects(t) \/ InitPublishes(t) \/ InitFills(t) \/ InitLocks(t) \/ InitOfFreed(t)
    \/ CloseBegins(t) \/ CloseFrees(t) \/ ClosePasses(t) \/ CloseFreesTwice(t) \/ CloseEnds(t)
    \/ DataFinds(t) \/ DataFindsFreed(t) \/ Dispatches(t) \/ DispatchesFreed(t)
    \/ HandlerAnswers(t) \/ ResetNotes(t) \/ ResetNotesFreed(t)
=============================================================================
