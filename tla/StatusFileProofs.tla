--------------------------- MODULE StatusFileProofs ---------------------------
(***************************************************************************)
(* Proofs about the slots that ifdhandler processes take in the status     *)
(* file, for any number of starts, records and status files.               *)
(*                                                                         *)
(* The lock on the file ends before the record is written, so a slot found *)
(* free stays free only because no other parent runs: the premises are     *)
(* that starts come one after the other, as from one openct-control, and   *)
(* that no parent is killed between the fork and its last write.           *)
(*                                                                         *)
(* Neither SlotsUnique nor StatusNamesServer is inductive.  A slot is kept *)
(* from the end of the scan, long before its handler serves, until the     *)
(* last write of whoever had it (SlotsKept); that nobody else gets it      *)
(* rests on what its record says of it at every point between              *)
(* (RecordsKept), and that on nobody else writing it.                      *)
(***************************************************************************)
EXTENDS StatusFile, FiniteSetTheorems, TLAPS

OneAtATime == /\ MaxParents = 1 /\ "record" \notin DeathPoints
              /\ IsFiniteSet(Starts)
              /\ None \notin Starts \X {"parent", "child"}

ParentRuns(h) == pc[h] \notin {"new", "gone"}
ChildRuns(h)  == cpc[h] \notin {"none", "gone"}

StatusRecords == [pid : (Starts \X {"parent", "child"}) \cup {None},
                  reader : Starts \cup {None}]

StatusTypes ==
  /\ file \in 0 .. MaxFiles
  /\ table \in [1 .. MaxFiles -> [Slots -> StatusRecords]]
  /\ socket \in [Slots \cup {NoSlot} -> Starts \cup {None}]
  /\ pc \in [Starts -> {"new", "link", "scan", "unlock", "reserve", "fork", "record", "gone"}]
  /\ cpc \in [Starts -> {"none", "open", "bind", "handle", "enter", "test", "call",
                         "blocked", "clear", "gone"}]
  /\ mapped \in [Starts -> 0 .. MaxFiles]
  /\ slot \in [Starts -> Slots \cup {NoSlot}]
  /\ down \in 0 .. NotRunning
  /\ \A h \in Starts : pc[h] # "new" => mapped[h] \in 1 .. MaxFiles

OneParent == \A g, h \in Starts : ParentRuns(g) /\ ParentRuns(h) => g = h

ChildAfterFork == \A h \in Starts : cpc[h] # "none" => pc[h] \in {"record", "gone"}

\* From the end of its scan a start has its slot, until both processes are gone.
Holds(h) == /\ slot[h] # NoSlot
            /\ pc[h] \in {"unlock", "reserve", "fork", "record"} \/ ChildRuns(h)

SlotsKept == \A g, h \in Starts :
               down = NotRunning /\ g # h /\ Holds(g) /\ Holds(h)
               /\ mapped[g] = mapped[h] => slot[g] # slot[h]

\* What the record of a slot says of it while it is kept.
Opened == {"bind", "handle", "enter", "test", "call", "blocked", "clear"}

RecordKept(h) == /\ pc[h] = "fork" => Record(h).pid = Parent(h)
                 /\ pc[h] = "record" /\ ChildRuns(h) => Record(h).pid = Parent(h)
                 /\ pc[h] = "gone" => Record(h).pid = Child(h)
                 /\ cpc[h] \in Opened => Record(h).reader = h

RecordsKept == \A h \in Starts : down = NotRunning /\ Holds(h) => RecordKept(h)

\* With one status file a socket path has one handler.
SocketsKept == \A h \in Starts : MaxFiles = 1 /\ down = NotRunning /\ Holds(h) /\ Serving(h)
                                   => socket[slot[h]] = h

StatusInv == /\ StatusTypes /\ OneParent /\ ChildAfterFork
             /\ SlotsKept /\ RecordsKept /\ SocketsKept

-------------------------------------------------------------------------------
\* Alive looks at the process a pid belongs to.
LEMMA AliveRuns ==
  ASSUME NEW h
  PROVE  (Alive(Parent(h)) <=> ParentRuns(h)) /\ (Alive(Child(h)) <=> ChildRuns(h))
  BY DEF Alive, Parent, Child, ParentRuns, ChildRuns

\* A kept slot has a record in the file that its process mapped.
LEMMA HeldRecord ==
  ASSUME StatusTypes, ChildAfterFork, NEW h \in Starts, Holds(h)
  PROVE  /\ pc[h] # "new" /\ mapped[h] \in 1 .. MaxFiles /\ slot[h] \in Slots
         /\ mapped[h] \in DOMAIN table /\ slot[h] \in DOMAIN table[mapped[h]]
  BY DEF StatusTypes, ChildAfterFork, Holds, ChildRuns

\* A write puts a record into the table.
LEMMA WriteTypes ==
  ASSUME StatusTypes, NEW h \in Starts, mapped[h] \in 1 .. MaxFiles, slot[h] # NoSlot,
         NEW r \in StatusRecords, WriteRecord(h, r)
  PROVE  table' \in [1 .. MaxFiles -> [Slots -> StatusRecords]]
<1>1. table' = [table EXCEPT ![mapped[h]][slot[h]] = r]
  BY DEF WriteRecord
<1>2. table[mapped[h]] \in [Slots -> StatusRecords] /\ slot[h] \in Slots
  BY DEF StatusTypes
<1> QED BY <1>1, <1>2 DEF StatusTypes

\* A write to one's own record leaves the record of every other kept slot alone.
LEMMA WriteKeepsOthers ==
  ASSUME StatusInv, down = NotRunning, NEW h \in Starts, Holds(h),
         NEW r \in StatusRecords, WriteRecord(h, r)
  PROVE  /\ table' \in [1 .. MaxFiles -> [Slots -> StatusRecords]]
         /\ table'[mapped[h]][slot[h]] = r
         /\ \A g \in Starts : g # h /\ Holds(g) =>
              table'[mapped[g]][slot[g]] = table[mapped[g]][slot[g]]
<1>1. table' = [table EXCEPT ![mapped[h]][slot[h]] = r]
  BY DEF WriteRecord, Holds
<1>2. mapped[h] \in DOMAIN table /\ slot[h] \in DOMAIN table[mapped[h]]
  BY HeldRecord DEF StatusInv
<1>3. ASSUME NEW g \in Starts, g # h, Holds(g)
      PROVE  table'[mapped[g]][slot[g]] = table[mapped[g]][slot[g]]
  <2>1. mapped[g] \in DOMAIN table /\ slot[g] \in DOMAIN table[mapped[g]]
    BY <1>3, HeldRecord DEF StatusInv
  <2>2. mapped[g] # mapped[h] \/ slot[g] # slot[h]
    BY <1>3 DEF StatusInv, SlotsKept
  <2> QED BY <1>1, <1>2, <2>1, <2>2
<1>4. table' \in [1 .. MaxFiles -> [Slots -> StatusRecords]]
  BY HeldRecord, WriteTypes DEF StatusInv, Holds
<1> QED BY <1>1, <1>2, <1>3, <1>4

\* A step of one start that leaves the others alone keeps the invariant, if its own
\* record and socket are right, and what others keep is not touched.
LEMMA StepKeepsInv ==
  ASSUME StatusInv, NEW h \in Starts, StatusTypes', OneParent', ChildAfterFork', SlotsKept',
         down' = down,
         \A g \in Starts \ {h} : /\ pc'[g] = pc[g] /\ cpc'[g] = cpc[g]
                                /\ mapped'[g] = mapped[g] /\ slot'[g] = slot[g],
         \A g \in Starts \ {h} :
           down = NotRunning /\ Holds(g) =>
             /\ table'[mapped[g]][slot[g]] = table[mapped[g]][slot[g]]
             /\ MaxFiles = 1 => socket'[slot[g]] = socket[slot[g]],
         down = NotRunning /\ Holds(h)' =>
           RecordKept(h)' /\ (MaxFiles = 1 /\ Serving(h)' => socket'[slot'[h]] = h)
  PROVE  StatusInv'
<1>1. ASSUME NEW g \in Starts, g # h, down' = NotRunning, Holds(g)'
      PROVE  RecordKept(g)' /\ (MaxFiles = 1 /\ Serving(g)' => socket'[slot'[g]] = g)
  <2>1. Holds(g) /\ Record(g)' = Record(g)
    BY <1>1 DEF Holds, ChildRuns, Record
  <2>2. RecordKept(g)
    BY <1>1, <2>1 DEF StatusInv, RecordsKept
  <2>3. RecordKept(g)'
    BY <1>1, <2>1, <2>2 DEF RecordKept, ChildRuns
  <2>4. MaxFiles = 1 /\ Serving(g)' => socket'[slot'[g]] = g
    BY <1>1, <2>1 DEF StatusInv, SocketsKept, Serving
  <2> QED BY <2>3, <2>4
<1>2. RecordsKept' /\ SocketsKept'
  BY <1>1 DEF RecordsKept, SocketsKept, NotRunning
<1> QED BY <1>2 DEF StatusInv

\* Slots stay apart when a start gets none in the step.
LEMMA SlotsStay ==
  ASSUME StatusInv, NEW h \in Starts, down' = down,
         \A g \in Starts \ {h} : /\ pc'[g] = pc[g] /\ cpc'[g] = cpc[g]
                                /\ mapped'[g] = mapped[g] /\ slot'[g] = slot[g],
         Holds(h)' => Holds(h) /\ mapped'[h] = mapped[h] /\ slot'[h] = slot[h]
  PROVE  SlotsKept'
<1>1. \A g \in Starts : Holds(g)' =>
        Holds(g) /\ mapped'[g] = mapped[g] /\ slot'[g] = slot[g]
  BY DEF Holds, ChildRuns
<1> QED BY <1>1 DEF StatusInv, SlotsKept, NotRunning

\* A start that only moves on from one of its points to another.
LEMMA MoveKeepsInv ==
  ASSUME StatusInv, NEW h \in Starts, UNCHANGED <<file, table, socket, mapped, slot, down>>,
         pc' = pc \/ (\E x : pc' = [pc EXCEPT ![h] = x]),
         cpc' = cpc \/ (\E x : cpc' = [cpc EXCEPT ![h] = x]),
         StatusTypes', pc'[h] = pc[h] \/ ParentRuns(h), ChildAfterFork',
         Holds(h)' => Holds(h),
         down = NotRunning /\ Holds(h)' => RecordKept(h)' /\ (Serving(h)' => Serving(h))
  PROVE  StatusInv'
<1>1. DOMAIN pc = Starts /\ DOMAIN cpc = Starts
  BY DEF StatusInv, StatusTypes
<1>2. \A g \in Starts \ {h} : /\ pc'[g] = pc[g] /\ cpc'[g] = cpc[g]
                             /\ mapped'[g] = mapped[g] /\ slot'[g] = slot[g]
  BY <1>1
<1>3. OneParent'
  BY <1>2 DEF StatusInv, OneParent, ParentRuns
<1>4. SlotsKept'
  BY <1>2, SlotsStay
<1>5. MaxFiles = 1 /\ down = NotRunning /\ Holds(h)' /\ Serving(h)' => socket'[slot'[h]] = h
  BY DEF StatusInv, SocketsKept
<1> QED BY <1>2, <1>3, <1>4, <1>5, StepKeepsInv

-------------------------------------------------------------------------------
(* The parent *)

\* A parent starts when no other runs, with the status file of the moment.
LEMMA StartKeepsInv ==
  ASSUME StatusAssumption, OneAtATime, StatusInv, NEW h \in Starts, Start(h)
  PROVE  StatusInv'
<1>1. {g \in Starts : Alive(Parent(g))} = {}
  <2> DEFINE Running == {g \in Starts : Alive(Parent(g))}
  <2>1. IsFiniteSet(Running)
    BY FS_Subset DEF OneAtATime
  <2>2. Cardinality(Running) \in Nat /\ Cardinality(Running) < 1
    BY <2>1, FS_CardinalityType DEF Start, OneAtATime
  <2> QED BY <2>1, <2>2, FS_EmptySet
<1>2. \A g \in Starts : ~ParentRuns(g)
  BY <1>1, AliveRuns
<1>3. StatusTypes'
  BY DEF Start, At, StatusInv, StatusTypes, NoFile
<1>4. OneParent'
  BY <1>2 DEF Start, At, StatusInv, StatusTypes, OneParent, ParentRuns
<1>5. ChildAfterFork' /\ ~Holds(h)'
  BY DEF Start, At, StatusInv, StatusTypes, ChildAfterFork, Holds, ChildRuns
<1>6. \A g \in Starts \ {h} : /\ pc'[g] = pc[g] /\ cpc'[g] = cpc[g]
                             /\ mapped'[g] = mapped[g] /\ slot'[g] = slot[g]
  BY DEF Start, At, StatusInv, StatusTypes
<1>7. SlotsKept'
  BY <1>5, <1>6, SlotsStay DEF Start
<1> QED BY <1>3, <1>4, <1>5, <1>6, <1>7, StepKeepsInv DEF Start

\* The scan takes a record that no kept slot has: the process in that would be alive.
LEMMA ScanKeepsInv ==
  ASSUME StatusAssumption, OneAtATime, StatusInv, NEW h \in Starts, Scan(h)
  PROVE  StatusInv'
<1>1. /\ StatusTypes' /\ ChildAfterFork' /\ down' = down /\ table' = table
      /\ socket' = socket /\ mapped' = mapped /\ cpc' = cpc
      /\ \A g \in Starts \ {h} : pc'[g] = pc[g] /\ slot'[g] = slot[g]
  BY DEF Scan, At, StatusInv, StatusTypes, ChildAfterFork
<1>2. OneParent'
  BY DEF Scan, At, StatusInv, StatusTypes, OneParent, ParentRuns
<1>3. cpc[h] = "none" /\ cpc'[h] = "none" /\ pc[h] = "scan" /\ pc'[h] \in {"scan", "unlock"}
  BY DEF Scan, At, StatusInv, StatusTypes, ChildAfterFork
<1>4. CASE slot' = slot /\ pc' = pc
  <2>1. ~Holds(h)'
    BY <1>3, <1>4 DEF Holds, ChildRuns, Scan
  <2>2. SlotsKept'
    BY <1>1, <2>1, SlotsStay
  <2> QED BY <1>1, <1>2, <2>1, <2>2, StepKeepsInv
<1>5. ASSUME slot' = [slot EXCEPT ![h] = NoSlot]
      PROVE  StatusInv'
  <2>1. ~Holds(h)'
    BY <1>3, <1>5 DEF Holds, ChildRuns, StatusInv, StatusTypes
  <2>2. SlotsKept'
    BY <1>1, <2>1, SlotsStay
  <2> QED BY <1>1, <1>2, <2>1, <2>2, StepKeepsInv
<1>6. ASSUME tries[h] \in Slots, Unused(table[mapped[h]][tries[h]]),
             slot' = [slot EXCEPT ![h] = tries[h]]
      PROVE  StatusInv'
  <2>1. ASSUME NEW g \in Starts \ {h}, down = NotRunning, Holds(g), mapped[g] = mapped[h]
        PROVE  slot[g] # tries[h]
    <3>1. ~ParentRuns(g)
      BY <1>3 DEF StatusInv, OneParent, ParentRuns
    <3>2. ChildRuns(g) /\ pc[g] = "gone"
      BY <2>1, <3>1 DEF Holds, ParentRuns, ChildRuns, StatusInv, ChildAfterFork
    <3>3. Record(g).pid = Child(g) /\ Child(g) # None /\ Alive(Child(g))
      BY <2>1, <3>2, AliveRuns
         DEF StatusInv, RecordsKept, RecordKept, OneAtATime, Child
    <3> QED BY <1>6, <2>1, <3>3 DEF Unused, Record
  <2>2. slot'[h] = tries[h]
    BY <1>6 DEF StatusInv, StatusTypes
  <2>3. \A g \in Starts \ {h} : Holds(g)' => Holds(g)
    BY <1>1 DEF Holds, ChildRuns
  <2>4. SlotsKept'
    BY <1>1, <2>1, <2>2, <2>3 DEF SlotsKept, StatusInv
  <2>5. RecordKept(h)' /\ ~Serving(h)'
    BY <1>3 DEF RecordKept, ChildRuns, Opened, Serving
  <2> QED BY <1>1, <1>2, <2>4, <2>5, StepKeepsInv
<1> QED BY <1>4, <1>5, <1>6 DEF Scan, At

\* The other steps of a parent that write no record: only the fork adds a process.
LEMMA ParentMovesKeepInv ==
  ASSUME StatusAssumption, OneAtATime, StatusInv, NEW h \in Starts,
         Link(h) \/ Unlock(h) \/ Fork(h) \/ Kill(h)
  PROVE  StatusInv'
<1>1. /\ StatusTypes' /\ ChildAfterFork'
      /\ UNCHANGED <<file, table, socket, mapped, slot, down>>
      /\ pc' = pc \/ (\E x : pc' = [pc EXCEPT ![h] = x])
      /\ cpc' = cpc \/ (\E x : cpc' = [cpc EXCEPT ![h] = x])
      /\ ParentRuns(h) /\ cpc[h] = "none" /\ cpc'[h] \in {"none", "open"}
      /\ pc[h] # "record" /\ pc'[h] \in {"link", "scan", "reserve", "record", "gone"}
  <2>1. CASE Link(h)
    BY <2>1 DEF Link, At, StatusInv, StatusTypes, ChildAfterFork, ParentRuns
  <2>2. CASE Unlock(h)
    BY <2>2 DEF Unlock, At, StatusInv, StatusTypes, ChildAfterFork, ParentRuns
  <2>3. CASE Fork(h)
    BY <2>3 DEF Fork, At, StatusInv, StatusTypes, ChildAfterFork, ParentRuns
  <2>4. CASE Kill(h)
    BY <2>4 DEF Kill, At, StatusInv, StatusTypes, ChildAfterFork, ParentRuns,
                OneAtATime, StatusAssumption
  <2> QED BY <2>1, <2>2, <2>3, <2>4
<1>2. Holds(h)' => Holds(h)
  BY <1>1 DEF Link, Unlock, Fork, Kill, At, Holds, ChildRuns, StatusInv, StatusTypes
<1>3. ASSUME down = NotRunning, Holds(h)'
      PROVE  RecordKept(h)' /\ ~Serving(h)'
  <2>1. pc'[h] = "record" => Record(h).pid = Parent(h)
    <3>1. pc'[h] = "record" => pc[h] = "fork"
      BY DEF Link, Unlock, Fork, Kill, At, StatusInv, StatusTypes
    <3> QED BY <1>2, <1>3, <3>1 DEF StatusInv, RecordsKept, RecordKept
  <2>2. pc'[h] # "gone"
    BY <1>1, <1>3 DEF Holds, ChildRuns, Kill, Link, Unlock, Fork, At, StatusInv, StatusTypes
  <2>3. Record(h)' = Record(h)
    BY <1>1 DEF Record
  <2> QED BY <1>1, <2>1, <2>2, <2>3 DEF RecordKept, Opened, Serving
<1> QED BY <1>1, <1>2, <1>3, MoveKeepsInv

\* The two writes of the parent go to a record that is its own, or to none.
LEMMA ParentWritesKeepInv ==
  ASSUME StatusAssumption, OneAtATime, StatusInv, NEW h \in Starts,
         Reserve(h) \/ RecordChild(h)
  PROVE  StatusInv'
<1>1. /\ UNCHANGED <<file, socket, cpc, mapped, slot, down>>
      /\ pc[h] \in {"reserve", "record"} /\ ParentRuns(h)
      /\ pc' \in {[pc EXCEPT ![h] = "fork"], [pc EXCEPT ![h] = "gone"]}
      /\ pc[h] = "reserve" => cpc[h] = "none"
      /\ mapped[h] \in 1 .. MaxFiles
  BY DEF Reserve, RecordChild, At, ParentRuns, StatusInv, StatusTypes, ChildAfterFork
<1>2. /\ \A g \in Starts \ {h} : /\ pc'[g] = pc[g] /\ cpc'[g] = cpc[g]
                                /\ mapped'[g] = mapped[g] /\ slot'[g] = slot[g]
      /\ OneParent' /\ ChildAfterFork'
  BY <1>1 DEF Reserve, RecordChild, At, ParentRuns, StatusInv, StatusTypes,
              ChildAfterFork, OneParent
<1>3. Holds(h)' => Holds(h)
  BY <1>1, <1>2 DEF Holds, ChildRuns
<1>4. SlotsKept'
  BY <1>1, <1>2, <1>3, SlotsStay
<1>5. slot[h] # NoSlot =>
        \E r \in StatusRecords :
          /\ WriteRecord(h, r)
          /\ pc[h] = "reserve" => r.pid = Parent(h) /\ pc'[h] = "fork"
          /\ pc[h] = "record" => r.pid = Child(h) /\ r.reader = Record(h).reader
                                 /\ pc'[h] = "gone"
  <2>1. CASE Reserve(h)
    <3>1. [pid |-> Parent(h), reader |-> None] \in StatusRecords
      BY DEF Parent, StatusRecords
    <3>2. pc[h] = "reserve" /\ (slot[h] # NoSlot => pc'[h] = "fork")
      BY <2>1 DEF Reserve, At, StatusInv, StatusTypes
    <3> QED BY <2>1, <3>1, <3>2 DEF Reserve
  <2>2. CASE RecordChild(h)
    <3>1. slot[h] # NoSlot =>
            Record(h) \in StatusRecords
      BY <1>1 DEF Record, StatusInv, StatusTypes
    <3>2. slot[h] # NoSlot =>
            /\ [Record(h) EXCEPT !.pid = Child(h)] \in StatusRecords
            /\ [Record(h) EXCEPT !.pid = Child(h)].pid = Child(h)
            /\ [Record(h) EXCEPT !.pid = Child(h)].reader = Record(h).reader
      BY <3>1 DEF Child, StatusRecords
    <3>3. pc[h] = "record" /\ pc'[h] = "gone"
      BY <2>2 DEF RecordChild, At, StatusInv, StatusTypes
    <3> QED BY <2>2, <3>2, <3>3 DEF RecordChild
  <2> QED BY <2>1, <2>2
<1>6. slot[h] = NoSlot => table' = table
  BY DEF Reserve, RecordChild, WriteRecord
<1>7. StatusTypes'
  <2>1. CASE slot[h] = NoSlot
    BY <1>1, <1>6, <2>1 DEF StatusInv, StatusTypes
  <2>2. CASE slot[h] # NoSlot
    <3>1. table' \in [1 .. MaxFiles -> [Slots -> StatusRecords]]
      BY <1>1, <1>5, <2>2, WriteTypes DEF StatusInv
    <3> QED BY <1>1, <3>1 DEF StatusInv, StatusTypes
  <2> QED BY <2>1, <2>2
<1>8. CASE down = NotRunning /\ slot[h] # NoSlot
  <2>1. Holds(h)
    BY <1>1, <1>8 DEF Holds
  <2>2. PICK r \in StatusRecords :
          /\ WriteRecord(h, r)
          /\ pc[h] = "reserve" => r.pid = Parent(h) /\ pc'[h] = "fork"
          /\ pc[h] = "record" => r.pid = Child(h) /\ r.reader = Record(h).reader
                                 /\ pc'[h] = "gone"
    BY <1>5, <1>8
  <2>3. /\ Record(h)' = r
        /\ \A g \in Starts : g # h /\ Holds(g) =>
             table'[mapped[g]][slot[g]] = table[mapped[g]][slot[g]]
    BY <1>1, <1>8, <2>1, <2>2, WriteKeepsOthers DEF Record
  <2>4. RecordKept(h)'
    <3>1. CASE pc[h] = "reserve"
      BY <1>1, <2>2, <2>3, <3>1 DEF RecordKept, Opened
    <3>2. CASE pc[h] = "record"
      BY <1>1, <1>8, <2>1, <2>2, <2>3, <3>2 DEF RecordKept, StatusInv, RecordsKept
    <3> QED BY <1>1, <3>1, <3>2
  <2>5. MaxFiles = 1 /\ Serving(h)' => socket'[slot'[h]] = h
    BY <1>1, <1>8, <2>1 DEF StatusInv, SocketsKept, Serving
  <2> QED BY <1>1, <1>2, <1>4, <1>7, <2>3, <2>4, <2>5, StepKeepsInv
<1>9. CASE down # NotRunning \/ slot[h] = NoSlot
  <2>1. ~(down = NotRunning /\ Holds(h)')
    BY <1>1, <1>9 DEF Holds
  <2>2. \A g \in Starts \ {h} : down = NotRunning /\ Holds(g) =>
          /\ table'[mapped[g]][slot[g]] = table[mapped[g]][slot[g]]
          /\ MaxFiles = 1 => socket'[slot[g]] = socket[slot[g]]
    BY <1>1, <1>6, <1>9
  <2> QED BY <1>1, <1>2, <1>4, <1>7, <2>1, <2>2, StepKeepsInv
<1> QED BY <1>8, <1>9

-------------------------------------------------------------------------------
(* The child *)

\* What a child does to itself alone, up to its end.
LEMMA ChildMovesKeepInv ==
  ASSUME StatusAssumption, StatusInv, NEW h \in Starts,
         Handle(h) \/ Enter(h) \/ Test(h) \/ CallPoll(h) \/ WakeUp(h) \/ Unplug(h) \/ Die(h)
  PROVE  StatusInv'
<1>1. /\ UNCHANGED <<file, table, socket, mapped, slot, down, pc>>
      /\ \E x \in {"enter", "test", "clear", "call", "blocked", "gone"} :
           cpc' = [cpc EXCEPT ![h] = x]
      /\ ChildRuns(h)
      /\ cpc'[h] \in {"enter", "test", "clear", "call", "blocked"} =>
           cpc[h] \in {"handle", "enter", "test", "call", "blocked"}
  <2>1. h \in DOMAIN cpc
    BY DEF StatusInv, StatusTypes
  <2>2. CASE Die(h)
    BY <2>1, <2>2, AliveRuns DEF Die, At
  <2>3. CASE Handle(h) \/ Enter(h) \/ Test(h) \/ CallPoll(h) \/ WakeUp(h) \/ Unplug(h)
    BY <2>1, <2>3 DEF Handle, Enter, Test, CallPoll, WakeUp, Unplug, At, ChildRuns
  <2> QED BY <2>2, <2>3
<1>2. StatusTypes' /\ ChildAfterFork'
  BY <1>1 DEF StatusInv, StatusTypes, ChildAfterFork, ChildRuns
<1>3. Holds(h)' => Holds(h)
  BY <1>1 DEF Holds, ChildRuns
<1>4. ASSUME down = NotRunning, Holds(h)'
      PROVE  RecordKept(h)' /\ (Serving(h)' => Serving(h))
  <2>1. RecordKept(h) /\ Record(h)' = Record(h)
    BY <1>1, <1>3, <1>4 DEF StatusInv, RecordsKept, Record
  <2>2. cpc'[h] \in {"enter", "test", "clear", "call", "blocked", "gone"}
    BY <1>1 DEF StatusInv, StatusTypes
  <2> QED BY <1>1, <2>1, <2>2 DEF RecordKept, Opened, Serving, ChildRuns
<1> QED BY <1>1, <1>2, <1>3, <1>4, MoveKeepsInv

\* A child names its reader in its record, or ends.
LEMMA OpenKeepsInv ==
  ASSUME StatusAssumption, StatusInv, NEW h \in Starts, Open(h)
  PROVE  StatusInv'
<1>1. /\ UNCHANGED <<file, socket, pc, mapped, slot, down>> /\ cpc[h] = "open"
      /\ mapped[h] \in 1 .. MaxFiles /\ pc[h] \in {"record", "gone"} /\ ChildRuns(h)
      /\ DOMAIN cpc = Starts
  BY DEF Open, StatusInv, StatusTypes, ChildAfterFork, ChildRuns
<1>2. CASE cpc' = [cpc EXCEPT ![h] = "gone"] /\ table' = table
  <2>1. StatusTypes' /\ ChildAfterFork'
    BY <1>1, <1>2 DEF StatusInv, StatusTypes, ChildAfterFork
  <2>2. Holds(h)' => Holds(h)
    BY <1>1, <1>2 DEF Holds, ChildRuns
  <2>3. ASSUME down = NotRunning, Holds(h)'
        PROVE  RecordKept(h)' /\ (Serving(h)' => Serving(h))
    <3>1. cpc'[h] = "gone" /\ pc'[h] = "record"
      BY <1>1, <1>2, <2>3 DEF Holds, ChildRuns
    <3> QED BY <3>1 DEF RecordKept, Opened, Serving, ChildRuns
  <2> QED BY <1>1, <1>2, <2>1, <2>2, <2>3, MoveKeepsInv
<1>3. CASE /\ cpc' = [cpc EXCEPT ![h] = "bind"]
           /\ slot[h] # NoSlot => WriteRecord(h, [Record(h) EXCEPT !.reader = h])
           /\ slot[h] = NoSlot => table' = table
  <2>1. slot[h] # NoSlot => Record(h) \in StatusRecords
    BY <1>1 DEF Record, StatusInv, StatusTypes
  <2>2. PICK r : r = [Record(h) EXCEPT !.reader = h]
    OBVIOUS
  <2>3. slot[h] # NoSlot => /\ r \in StatusRecords /\ r.reader = h /\ r.pid = Record(h).pid
                            /\ WriteRecord(h, r)
    BY <1>3, <2>1, <2>2 DEF StatusRecords
  <2>4. StatusTypes' /\ ChildAfterFork'
    <3>1. table' \in [1 .. MaxFiles -> [Slots -> StatusRecords]]
      BY <1>1, <1>3, <2>3, WriteTypes DEF StatusInv, StatusTypes
    <3> QED BY <1>1, <1>3, <3>1 DEF StatusInv, StatusTypes, ChildAfterFork
  <2>5. \A g \in Starts \ {h} : /\ pc'[g] = pc[g] /\ cpc'[g] = cpc[g]
                               /\ mapped'[g] = mapped[g] /\ slot'[g] = slot[g]
    BY <1>1, <1>3
  <2>6. OneParent' /\ cpc'[h] = "bind"
    BY <1>1, <1>3 DEF StatusInv, OneParent, ParentRuns
  <2>7. SlotsKept'
    BY <1>1, <2>5, SlotsStay DEF Holds
  <2>8. CASE down = NotRunning /\ slot[h] # NoSlot
    <3>1. Holds(h)
      BY <1>1, <2>8 DEF Holds
    <3>2. /\ Record(h)' = r
          /\ \A g \in Starts : g # h /\ Holds(g) =>
               table'[mapped[g]][slot[g]] = table[mapped[g]][slot[g]]
      BY <1>1, <2>3, <2>8, <3>1, WriteKeepsOthers DEF Record
    <3>3. RecordKept(h)
      BY <2>8, <3>1 DEF StatusInv, RecordsKept
    <3>4. RecordKept(h)' /\ ~Serving(h)'
      BY <1>1, <2>3, <2>6, <2>8, <3>2, <3>3 DEF RecordKept, ChildRuns, Serving
    <3> QED BY <1>1, <2>4, <2>5, <2>6, <2>7, <3>2, <3>4, StepKeepsInv
  <2>9. CASE down # NotRunning \/ slot[h] = NoSlot
    <3>1. ~(down = NotRunning /\ Holds(h)')
      BY <1>1, <2>9 DEF Holds
    <3>2. \A g \in Starts \ {h} : down = NotRunning /\ Holds(g) =>
            /\ table'[mapped[g]][slot[g]] = table[mapped[g]][slot[g]]
            /\ MaxFiles = 1 => socket'[slot[g]] = socket[slot[g]]
      BY <1>1, <1>3, <2>9
    <3> QED BY <1>1, <2>4, <2>5, <2>6, <2>7, <3>1, <3>2, StepKeepsInv
  <2> QED BY <2>8, <2>9
<1> QED BY <1>2, <1>3 DEF Open, At

\* A child takes the socket path of its slot, which is nobody else's, or ends.
LEMMA BindKeepsInv ==
  ASSUME StatusAssumption, StatusInv, NEW h \in Starts, Bind(h)
  PROVE  StatusInv'
<1>1. /\ UNCHANGED <<file, table, pc, mapped, slot, down>> /\ cpc[h] = "bind"
      /\ pc[h] \in {"record", "gone"} /\ ChildRuns(h) /\ DOMAIN cpc = Starts
  BY DEF Bind, StatusInv, StatusTypes, ChildAfterFork, ChildRuns
<1>2. CASE cpc' = [cpc EXCEPT ![h] = "gone"] /\ socket' = socket
  <2>1. StatusTypes' /\ ChildAfterFork'
    BY <1>1, <1>2 DEF StatusInv, StatusTypes, ChildAfterFork
  <2>2. Holds(h)' => Holds(h)
    BY <1>1, <1>2 DEF Holds, ChildRuns
  <2>3. ASSUME down = NotRunning, Holds(h)'
        PROVE  RecordKept(h)' /\ (Serving(h)' => Serving(h))
    <3>1. cpc'[h] = "gone" /\ pc'[h] = "record"
      BY <1>1, <1>2, <2>3 DEF Holds, ChildRuns
    <3> QED BY <3>1 DEF RecordKept, Opened, Serving, ChildRuns
  <2> QED BY <1>1, <1>2, <2>1, <2>2, <2>3, MoveKeepsInv
<1>3. CASE cpc' = [cpc EXCEPT ![h] = "handle"] /\ socket' = [socket EXCEPT ![slot[h]] = h]
  <2>1. StatusTypes' /\ ChildAfterFork' /\ cpc'[h] = "handle" /\ socket'[slot[h]] = h
    BY <1>1, <1>3 DEF StatusInv, StatusTypes, ChildAfterFork
  <2>2. \A g \in Starts \ {h} : /\ pc'[g] = pc[g] /\ cpc'[g] = cpc[g]
                               /\ mapped'[g] = mapped[g] /\ slot'[g] = slot[g]
    BY <1>1, <1>3
  <2>3. OneParent'
    BY <1>1 DEF StatusInv, OneParent, ParentRuns
  <2>4. SlotsKept'
    BY <1>1, <2>2, SlotsStay DEF Holds
  <2>5. ASSUME NEW g \in Starts \ {h}, MaxFiles = 1, down = NotRunning, Holds(g)
        PROVE  socket'[slot[g]] = socket[slot[g]]
    <3>1. mapped[g] = 1
      BY <2>5, HeldRecord DEF StatusInv
    <3>2. slot[h] # NoSlot => mapped[h] = 1 /\ Holds(h)
      BY <1>1, <2>5, HeldRecord DEF StatusInv, Holds
    <3>3. slot[g] # slot[h]
      BY <2>5, <3>1, <3>2 DEF StatusInv, SlotsKept, Holds
    <3>4. slot[g] \in DOMAIN socket
      BY DEF StatusInv, StatusTypes
    <3> QED BY <1>3, <3>3, <3>4
  <2>6. ASSUME down = NotRunning, Holds(h)'
        PROVE  RecordKept(h)'
    <3>1. RecordKept(h) /\ Record(h)' = Record(h)
      BY <1>1, <2>6 DEF StatusInv, RecordsKept, Holds, Record
    <3> QED BY <1>1, <2>1, <3>1 DEF RecordKept, Opened, ChildRuns
  <2> QED BY <1>1, <2>1, <2>2, <2>3, <2>4, <2>5, <2>6, StepKeepsInv
<1> QED BY <1>2, <1>3 DEF Bind, At

\* A child that leaves clears its record, and nobody else's.
LEMMA ClearKeepsInv ==
  ASSUME StatusAssumption, StatusInv, NEW h \in Starts, Clear(h)
  PROVE  StatusInv'
<1>1. /\ UNCHANGED <<file, socket, pc, mapped, slot, down>> /\ cpc[h] = "clear"
      /\ mapped[h] \in 1 .. MaxFiles /\ pc[h] \in {"record", "gone"} /\ ChildRuns(h)
      /\ cpc' = [cpc EXCEPT ![h] = "gone"] /\ cpc'[h] = "gone"
      /\ WriteRecord(h, Free) /\ Free \in StatusRecords
  BY DEF Clear, At, StatusInv, StatusTypes, ChildAfterFork, ChildRuns, Free, StatusRecords
<1>2. StatusTypes' /\ ChildAfterFork'
  <2>1. slot[h] = NoSlot => table' = table
    BY <1>1 DEF WriteRecord
  <2>2. table' \in [1 .. MaxFiles -> [Slots -> StatusRecords]]
    BY <1>1, <2>1, WriteTypes DEF StatusInv, StatusTypes
  <2> QED BY <1>1, <2>2 DEF StatusInv, StatusTypes, ChildAfterFork
<1>3. \A g \in Starts \ {h} : /\ pc'[g] = pc[g] /\ cpc'[g] = cpc[g]
                             /\ mapped'[g] = mapped[g] /\ slot'[g] = slot[g]
  BY <1>1
<1>4. OneParent' /\ (Holds(h)' => Holds(h))
  BY <1>1 DEF StatusInv, OneParent, ParentRuns, Holds
<1>5. SlotsKept'
  BY <1>1, <1>3, <1>4, SlotsStay
<1>6. ASSUME NEW g \in Starts \ {h}, down = NotRunning, Holds(g)
      PROVE  table'[mapped[g]][slot[g]] = table[mapped[g]][slot[g]]
  <2>1. CASE slot[h] = NoSlot
    BY <1>1, <2>1 DEF WriteRecord
  <2>2. CASE slot[h] # NoSlot
    BY <1>1, <1>6, <2>2, WriteKeepsOthers DEF Holds
  <2> QED BY <2>1, <2>2
<1>7. Holds(h)' => RecordKept(h)' /\ ~Serving(h)'
  <2>1. Holds(h)' => pc'[h] = "record"
    BY <1>1 DEF Holds, ChildRuns
  <2> QED BY <1>1, <2>1 DEF RecordKept, ChildRuns, Opened, Serving
<1> QED BY <1>1, <1>2, <1>3, <1>4, <1>5, <1>6, <1>7, StepKeepsInv

-------------------------------------------------------------------------------
(* openct-control *)

\* A new status file is empty, and nobody has it mapped.
LEMMA InitStatusKeepsInv ==
  ASSUME StatusAssumption, StatusInv, InitStatus
  PROVE  StatusInv'
<1>1. StatusTypes'
  BY DEF InitStatus, StatusInv, StatusTypes, StatusAssumption
<1>2. OneParent' /\ ChildAfterFork'
  BY DEF InitStatus, StatusInv, OneParent, ChildAfterFork, ParentRuns
<1>3. SlotsKept' /\ RecordsKept' /\ SocketsKept'
  BY DEF InitStatus, StatusInv, SlotsKept, RecordsKept, SocketsKept, Holds, ChildRuns,
         RecordKept, Record, Serving
<1> QED BY <1>1, <1>2, <1>3 DEF StatusInv

\* Once a shutdown has begun nothing is said of slots; it only ends processes.
LEMMA ShutdownKeepsInv ==
  ASSUME StatusAssumption, OneAtATime, StatusInv, Shutdown \/ ShutdownStep
  PROVE  StatusInv'
<1>1. /\ down' # NotRunning /\ down' \in 0 .. NotRunning /\ file' \in 0 .. MaxFiles
      /\ UNCHANGED <<table, socket, mapped, slot>>
  BY DEF Shutdown, ShutdownStep, StatusInv, StatusTypes, StatusAssumption, NotRunning,
         NoFile
<1>2. /\ pc' = pc \/ \E q : pc[q] \notin {"new", "gone"} /\ pc' = [pc EXCEPT ![q] = "gone"]
      /\ cpc' = cpc \/ \E q : \E x \in {"test", "gone"} :
                         cpc[q] \notin {"none", "gone"} /\ cpc' = [cpc EXCEPT ![q] = x]
  <2>1. CASE pc' = pc /\ cpc' = cpc
    BY <2>1
  <2>2. ASSUME NEW pid, Alive(pid), Terminate(pid)
        PROVE  /\ pc' = pc \/ \E q : /\ pc[q] \notin {"new", "gone"}
                                    /\ pc' = [pc EXCEPT ![q] = "gone"]
               /\ cpc' = cpc \/ \E q : \E x \in {"test", "gone"} :
                                  /\ cpc[q] \notin {"none", "gone"}
                                  /\ cpc' = [cpc EXCEPT ![q] = x]
    <3>1. CASE pid[2] = "parent"
      BY <2>2, <3>1, Zenon DEF Alive, Terminate, At
    <3>2. CASE pid[2] # "parent"
      BY <2>2, <3>2, Zenon DEF Alive, Terminate, At
    <3> QED BY <3>1, <3>2
  <2> QED BY <2>1, <2>2, Zenon DEF Shutdown, ShutdownStep, Unused
<1>3. /\ pc' \in [Starts -> {"new", "link", "scan", "unlock", "reserve", "fork", "record", "gone"}]
      /\ \A h \in Starts : pc'[h] = pc[h] \/ (pc'[h] = "gone" /\ ParentRuns(h))
  <2>1. pc \in [Starts -> {"new", "link", "scan", "unlock", "reserve", "fork", "record", "gone"}]
    BY DEF StatusInv, StatusTypes
  <2>2. CASE pc' = pc
    BY <2>1, <2>2 DEF ParentRuns
  <2>3. ASSUME NEW q, pc[q] \notin {"new", "gone"}, pc' = [pc EXCEPT ![q] = "gone"]
        PROVE  /\ pc' \in [Starts -> {"new", "link", "scan", "unlock", "reserve", "fork",
                                     "record", "gone"}]
               /\ \A h \in Starts : pc'[h] = pc[h] \/ (pc'[h] = "gone" /\ ParentRuns(h))
    BY <2>1, <2>3 DEF ParentRuns
  <2> QED BY <1>2, <2>2, <2>3, Zenon
<1>4. /\ cpc' \in [Starts -> {"none", "open", "bind", "handle", "enter", "test", "call",
                           "blocked", "clear", "gone"}]
      /\ \A h \in Starts : cpc'[h] = cpc[h] \/ ChildRuns(h)
  BY <1>2, ZenonT(60) DEF StatusInv, StatusTypes, ChildRuns
<1>5. StatusTypes'
  BY <1>1, <1>3, <1>4 DEF StatusInv, StatusTypes, ParentRuns
<1>6. OneParent' /\ ChildAfterFork'
  BY <1>3, <1>4 DEF StatusInv, OneParent, ChildAfterFork, ParentRuns, ChildRuns
<1>7. SlotsKept' /\ RecordsKept' /\ SocketsKept'
  BY <1>1 DEF SlotsKept, RecordsKept, SocketsKept, NotRunning
<1> QED BY <1>5, <1>6, <1>7 DEF StatusInv

-------------------------------------------------------------------------------
\* The first status file is not made yet.
LEMMA StatusInvInit ==
  ASSUME StatusAssumption, OneAtATime, Init
  PROVE  StatusInv
<1>1. StatusTypes
  BY DEF Init, StatusTypes, StatusRecords, StatusAssumption, NoFile, NoSlot, Free, NotRunning
<1>2. \A h \in Starts : pc[h] = "new" /\ cpc[h] = "none" /\ slot[h] = NoSlot
  BY DEF Init
<1>3. OneParent /\ ChildAfterFork
  BY <1>2 DEF OneParent, ChildAfterFork, ParentRuns
<1>4. SlotsKept /\ RecordsKept /\ SocketsKept
  BY <1>2 DEF SlotsKept, RecordsKept, SocketsKept, Holds
<1> QED BY <1>1, <1>3, <1>4 DEF StatusInv

\* Every step of every process keeps the invariant.
LEMMA StatusInvNext ==
  ASSUME StatusAssumption, OneAtATime, StatusInv, [Next]_vars
  PROVE  StatusInv'
<1>1. CASE UNCHANGED vars
  BY <1>1 DEF vars, StatusInv, StatusTypes, OneParent, ChildAfterFork, SlotsKept, RecordsKept,
              SocketsKept, RecordKept, Record, Holds, ParentRuns, ChildRuns, Serving
<1>2. CASE \E h \in Starts : \/ Start(h) \/ ParentStep(h) \/ ChildStep(h)
                             \/ WakeUp(h) \/ Unplug(h) \/ Die(h) \/ Kill(h)
  BY <1>2, StartKeepsInv, ScanKeepsInv, ParentMovesKeepInv, ParentWritesKeepInv,
     ChildMovesKeepInv, OpenKeepsInv, BindKeepsInv, ClearKeepsInv
     DEF ParentStep, ChildStep
<1>3. CASE InitStatus \/ Shutdown \/ ShutdownStep
  BY <1>3, InitStatusKeepsInv, ShutdownKeepsInv
<1> QED BY <1>1, <1>2, <1>3 DEF Next

\* Serving handlers keep their slots.
LEMMA ServingHold ==
  ASSUME NEW h \in Starts, Serving(h), slot[h] # NoSlot
  PROVE  Holds(h)
  BY DEF Serving, Holds, ChildRuns

\* If parents run one after the other and none dies between fork and last write, two
\* handlers that serve have different slots, whoever else comes, crashes or leaves.
THEOREM StatusSlotsUnique == OneAtATime => (Spec => []SlotsUnique)
<1> SUFFICES ASSUME OneAtATime PROVE Spec => []SlotsUnique
  OBVIOUS
<1>1. Init => StatusInv
  BY StatusAssumption, StatusInvInit
<1>2. StatusInv /\ [Next]_vars => StatusInv'
  BY StatusAssumption, StatusInvNext
<1>3. StatusInv => SlotsUnique
  <2> SUFFICES ASSUME StatusInv, NEW g \in Starts, NEW h \in Starts, down = NotRunning, g # h,
                      Serving(g), Serving(h), mapped[g] = mapped[h], slot[h] # NoSlot
               PROVE  slot[g] # slot[h]
    BY DEF SlotsUnique
  <2>1. CASE slot[g] = NoSlot
    BY <2>1
  <2>2. CASE slot[g] # NoSlot
    BY <2>2, ServingHold DEF StatusInv, SlotsKept
  <2> QED BY <2>1, <2>2
<1> QED BY <1>1, <1>2, <1>3, PTL DEF Spec

\* Under the same premises, and with one status file, what the file says of a slot is
\* true of the handler that serves it, and the slot's socket leads to that handler.
THEOREM StatusNamesItsServer ==
  OneAtATime /\ MaxFiles = 1 => (Spec => []StatusNamesServer)
<1> SUFFICES ASSUME OneAtATime, MaxFiles = 1 PROVE Spec => []StatusNamesServer
  OBVIOUS
<1>1. Init => StatusInv
  BY StatusAssumption, StatusInvInit
<1>2. StatusInv /\ [Next]_vars => StatusInv'
  BY StatusAssumption, StatusInvNext
<1>3. StatusInv => StatusNamesServer
  <2> SUFFICES ASSUME StatusInv, NEW h \in Starts, down = NotRunning, Serving(h),
                      slot[h] # NoSlot
               PROVE  /\ Record(h).reader = h
                      /\ \/ Record(h).pid = Child(h)
                         \/ pc[h] = "record" /\ Record(h).pid = Parent(h)
                      /\ mapped[h] = file => socket[slot[h]] = h
    BY DEF StatusNamesServer
  <2>1. Holds(h) /\ ChildRuns(h) /\ cpc[h] \in Opened /\ pc[h] \in {"record", "gone"}
    BY ServingHold DEF Serving, Opened, ChildRuns, StatusInv, ChildAfterFork
  <2>2. RecordKept(h) /\ socket[slot[h]] = h
    BY <2>1 DEF StatusInv, RecordsKept, SocketsKept
  <2> QED BY <2>1, <2>2 DEF RecordKept
<1> QED BY <1>1, <1>2, <1>3, PTL DEF Spec
===============================================================================
