--------------------------- MODULE CardStatusProofs ---------------------------
(***************************************************************************)
(* Proofs about how a card becomes known, for a reader with one slot and   *)
(* any number of cards, clients and failures.                              *)
(***************************************************************************)
EXTENDS CardStatus, FiniteSetTheorems, TLAPS

Types ==
  /\ card \in [Slots -> Nat] /\ inserted \in Nat
  /\ DOMAIN notice = Slots /\ \A s \in Slots : notice[s].card \in Nat
  /\ icc \in [Slots -> Nat \cup {Unknown}]
  /\ stat.card \in Nat \cup {Failed} /\ stat.changed \in BOOLEAN /\ target \in Slots
  /\ caller \in {"poll", "command"}
  /\ phase \in {"idle", "capture", "cancel", "probe", "done"}
  /\ ctCard \in [Slots -> Nat] /\ published \in [Slots -> Nat]
  /\ taken \in [Slots -> BOOLEAN]
  /\ told \in [Clients -> [Slots -> Nat]] /\ learnt \in [Clients -> [Slots -> Nat]]

\* Numbers are given in turn.
Numbers ==
  /\ seq \in Nat \ {0}
  /\ \A s \in Slots : ctCard[s] < seq /\ \A c \in Clients : told[c][s] < seq

\* A notification tells of a change, and who reads it remembers.
Notified ==
  /\ urb = "completed" => \A s \in Slots : notice[s].changed
  /\ phase \in {"capture", "cancel"} /\ any =>
       stat.changed /\ stat.card # Failed /\ (caller = "command" => taken[target])

\* Only a slot of which nothing is known is asked for.
Asked == interrupt => /\ \A s \in Slots : icc[s] = Unknown => ctCard[s] = 0
                      /\ phase = "probe" => icc[target] = Unknown

\* The answer of card_status is what the driver knows.
Answered == phase = "done" /\ stat.card # Failed => stat.card = icc[target]

\* What the driver knows has been published, or is about to be as a change.
Told(s) ==
  interrupt /\ ~taken[s] /\ ctCard[s] # 0 =>
    icc[s] = published[s] \/ (phase = "done" /\ caller = "poll" /\ stat.changed /\ stat.card # Failed)

CardInv == Types /\ Numbers /\ Notified /\ Asked /\ Answered /\ (\A s \in Slots : Told(s)) /\ SwapSeen

OneSlot == NSlots = 1

-------------------------------------------------------------------------------
\* A number below the limit is itself.
LEMMA Below ==
  ASSUME NEW n \in Nat, NEW m \in Nat, n < m
  PROVE  n % m = n
OBVIOUS

LEMMA Within ==
  ASSUME NEW n \in Nat, NEW m \in Nat \ {0}
  PROVE  n % m \in Nat /\ n % m < m
OBVIOUS

LEMMA TheSlot ==
  ASSUME OneSlot
  PROVE  Slots = {0}
BY DEF OneSlot, Slots

\* What the status file says after an update: the slot has a new number, the one it had, or
\* none.  As long as the numbers have not started again a new one is larger than all before.
LEMMA UpdateGives ==
  ASSUME CardAssumption, OneSlot, Types, Numbers, seq' >= seq,
         NEW status, status[0].card \in Nat, status[0].changed \in BOOLEAN,
         SlotStatusUpdate({0}, status)
  PROVE  /\ DOMAIN ctCard' = Slots /\ DOMAIN published' = Slots /\ DOMAIN taken' = Slots
         /\ published'[0] = status[0].card /\ seq' \in Nat
         /\ \/ status[0].card = 0 /\ ctCard'[0] = 0 /\ ~taken'[0]
            \/ /\ status[0].card # 0 /\ (ctCard[0] = 0 \/ status[0].changed)
               /\ ctCard'[0] = seq /\ seq' = seq + 1 /\ ~taken'[0]
            \/ /\ status[0].card # 0 /\ ctCard[0] # 0 /\ ~status[0].changed
               /\ ctCard'[0] = ctCard[0] /\ (taken'[0] <=> taken[0])
<1>1. Slots = {0} /\ SeqLimit \in Nat \ {0}
  BY TheSlot DEF CardAssumption
<1> DEFINE Fresh == {s \in {0} : status[s].card # 0 /\ (ctCard[s] = 0 \/ status[s].changed)}
<1>2. /\ ctCard' = [s \in Slots |-> IF s \in {0} /\ status[s].card = 0 THEN 0
                                    ELSE IF s \in Fresh
                                         THEN (seq + Cardinality({u \in Fresh : u < s})) % SeqLimit
                                         ELSE ctCard[s]]
      /\ seq' = (seq + Cardinality(Fresh)) % SeqLimit
      /\ published' = [s \in Slots |-> IF s \in {0} THEN status[s].card ELSE published[s]]
      /\ taken' = [s \in Slots |-> /\ taken[s]
                                   /\ s \in {0} => status[s].card # 0 /\ s \notin Fresh]
  BY DEF SlotStatusUpdate
<1>3. {u \in Fresh : u < 0} = {}
  OBVIOUS
<1>4. Cardinality({}) = 0 /\ Cardinality({0}) = 1
  BY FS_EmptySet, FS_Singleton
<1>5. Fresh = {} \/ Fresh = {0}
  OBVIOUS
<1>11. PICK k \in {0, 1} : k = Cardinality(Fresh) /\ (Fresh = {} => k = 0) /\ (Fresh = {0} => k = 1)
  BY <1>4, <1>5
<1>12. seq \in Nat /\ seq # 0 /\ seq + k \in Nat /\ seq' = (seq + k) % SeqLimit
  BY <1>2, <1>11 DEF Numbers
<1>6. seq < SeqLimit
  <2>1. (seq + k) % SeqLimit \in Nat /\ (seq + k) % SeqLimit < SeqLimit
    BY <1>1, <1>12, Within
  <2> QED BY <1>1, <1>12, <2>1
<1>7. 0 \in Fresh => ctCard'[0] = seq /\ seq' = seq + 1
  <2> SUFFICES ASSUME 0 \in Fresh PROVE ctCard'[0] = seq /\ seq' = seq + 1
    OBVIOUS
  <2>1. Fresh = {0} /\ status[0].card # 0
    BY <1>5
  <2>2. seq' = (seq + 1) % SeqLimit
    BY <1>11, <1>12, <2>1
  <2>3. seq + 1 < SeqLimit
    BY <1>1, <1>6, <2>2 DEF Numbers
  <2>4. seq' = seq + 1
    BY <1>1, <2>2, <2>3, Below DEF Numbers
  <2>5. ctCard'[0] = (seq + Cardinality({u \in Fresh : u < 0})) % SeqLimit
    BY <1>1, <1>2, <2>1
  <2>6. ctCard'[0] = seq % SeqLimit
    <3>1. Cardinality({u \in Fresh : u < 0}) = 0
      BY <1>3, <1>4
    <3> QED BY <1>12, <2>5, <3>1
  <2> QED BY <1>1, <1>6, <2>4, <2>6, Below DEF Numbers
<1>8. 0 \notin Fresh => seq' = seq
  <2>1. 0 \notin Fresh => seq' = seq % SeqLimit
    <3> SUFFICES ASSUME 0 \notin Fresh PROVE seq' = seq % SeqLimit
      OBVIOUS
    <3>1. k = 0
      BY <1>5, <1>11
    <3> QED BY <1>12, <3>1
  <2> QED BY <1>1, <1>6, <2>1, Below DEF Numbers
<1>9. 0 \in Fresh <=> status[0].card # 0 /\ (ctCard[0] = 0 \/ status[0].changed)
  OBVIOUS
<1>10. /\ DOMAIN ctCard' = Slots /\ DOMAIN published' = Slots /\ DOMAIN taken' = Slots
       /\ published'[0] = status[0].card
       /\ status[0].card = 0 => ctCard'[0] = 0
       /\ status[0].card # 0 /\ 0 \notin Fresh => ctCard'[0] = ctCard[0]
       /\ taken'[0] <=> (taken[0] /\ status[0].card # 0 /\ 0 \notin Fresh)
  <2> HIDE DEF Fresh
  <2>1. DOMAIN ctCard' = Slots /\ DOMAIN published' = Slots /\ DOMAIN taken' = Slots
    BY <1>2
  <2>2. published'[0] = status[0].card
    BY <1>1, <1>2
  <2>3. /\ status[0].card = 0 => ctCard'[0] = 0
        /\ status[0].card # 0 /\ 0 \notin Fresh => ctCard'[0] = ctCard[0]
    BY <1>1, <1>2
  <2>4. taken'[0] <=> (taken[0] /\ status[0].card # 0 /\ 0 \notin Fresh)
    BY <1>1, <1>2
  <2> QED BY <2>1, <2>2, <2>3, <2>4
<1> HIDE DEF Fresh
<1>13. seq' \in Nat
  BY <1>7, <1>8, <1>12
<1> QED BY <1>7, <1>9, <1>10, <1>13

-------------------------------------------------------------------------------
\* What a client has been told of stands for the card it was told of, after an update too.
LEMMA UpdateSwapSeen ==
  ASSUME CardAssumption, OneSlot, Types, Numbers, seq' >= seq, SwapSeen, Told(0),
         NEW status, status[0].card \in Nat, status[0].changed \in BOOLEAN,
         SlotStatusUpdate({0}, status), UNCHANGED <<told, learnt, interrupt>>,
         interrupt /\ ~status[0].changed /\ ctCard[0] # 0 /\ ~taken[0] =>
           published[0] = status[0].card
  PROVE  /\ SwapSeen' /\ Numbers'
         /\ ctCard' \in [Slots -> Nat] /\ published' \in [Slots -> Nat] /\ taken' \in [Slots -> BOOLEAN]
         /\ published'[0] = status[0].card
         /\ ctCard'[0] # 0 => status[0].card # 0
<1>1. /\ DOMAIN ctCard' = Slots /\ DOMAIN published' = Slots /\ DOMAIN taken' = Slots
      /\ published'[0] = status[0].card /\ seq' \in Nat
      /\ \/ status[0].card = 0 /\ ctCard'[0] = 0 /\ ~taken'[0]
         \/ /\ status[0].card # 0 /\ (ctCard[0] = 0 \/ status[0].changed)
            /\ ctCard'[0] = seq /\ seq' = seq + 1 /\ ~taken'[0]
         \/ /\ status[0].card # 0 /\ ctCard[0] # 0 /\ ~status[0].changed
            /\ ctCard'[0] = ctCard[0] /\ (taken'[0] <=> taken[0])
  BY UpdateGives
<1>2. Slots = {0} /\ seq \in Nat \ {0} /\ ctCard[0] \in Nat /\ ctCard[0] < seq
  BY TheSlot DEF Numbers, Types
<1>3. Numbers'
  <2>1. ctCard'[0] < seq'
    BY <1>1, <1>2
  <2>2. ASSUME NEW c \in Clients
        PROVE  told'[c][0] < seq'
    <3>1. told[c][0] < seq /\ told[c][0] \in Nat
      BY <1>2 DEF Numbers, Types
    <3> QED BY <1>1, <1>2, <3>1
  <2> QED BY <1>1, <1>2, <2>1, <2>2 DEF Numbers
<1>4. ASSUME NEW c \in Clients, interrupt, ~taken'[0], ctCard'[0] # 0, told[c][0] = ctCard'[0]
      PROVE  learnt[c][0] = published'[0]
  <2>1. told[c][0] < seq
    BY <1>2 DEF Numbers
  <2>2. /\ status[0].card # 0 /\ ctCard[0] # 0 /\ ~status[0].changed
        /\ ctCard'[0] = ctCard[0] /\ ~taken[0]
    BY <1>1, <1>2, <1>4, <2>1
  <2>3. learnt[c][0] = published[0]
    BY <1>2, <1>4, <2>2 DEF SwapSeen
  <2> QED BY <1>1, <1>4, <2>2, <2>3
<1>5. SwapSeen'
  BY <1>2, <1>4 DEF SwapSeen
<1>6. ctCard' \in [Slots -> Nat]
  <2>1. ctCard'[0] \in Nat /\ ctCard' = [s \in Slots |-> ctCard'[s]]
    BY <1>1, <1>2 DEF SlotStatusUpdate
  <2> QED BY <1>2, <2>1
<1>7. published' \in [Slots -> Nat]
  <2>1. published' = [s \in Slots |-> published'[s]]
    BY <1>1 DEF SlotStatusUpdate
  <2> QED BY <1>1, <1>2, <2>1
<1>8. taken' \in [Slots -> BOOLEAN]
  BY DEF SlotStatusUpdate
<1> QED BY <1>1, <1>3, <1>5, <1>6, <1>7, <1>8

\* The card and the user, the time, and what only the pipe and the loop remember.
LEMMA OutsideKeepsCards ==
  ASSUME CardAssumption, OneSlot, CardInv, NEW s \in Slots,
         Insert(s) \/ Remove(s) \/ Notify \/ Skip \/ TimeOut \/ OtherCommand \/ BadCommand
  PROVE  CardInv'
<1>1. Slots = {0} /\ 0 \in Slots /\ target = 0
  BY TheSlot DEF CardInv, Types
<1>2. /\ UNCHANGED <<icc, caller, target, any, stat, ctCard, seq, published, told, learnt, taken,
                     interrupt>>
      /\ phase' = phase \/ (phase = "capture" /\ phase' = "cancel")
  BY DEF Insert, Remove, Notify, Skip, TimeOut, OtherCommand, BadCommand, driverVars, publicVars,
         clientVars, deviceVars, pipeVars, loopVars
<1>3. /\ card' \in [Slots -> Nat] /\ inserted' \in Nat
      /\ DOMAIN notice' = Slots /\ \A q \in Slots : notice'[q].card \in Nat
      /\ urb' = "completed" => \A q \in Slots : notice'[q].changed
  <2>1. CASE Insert(s) \/ Remove(s)
    BY <2>1 DEF Insert, Remove, CardInv, Types, Notified, pipeVars
  <2>2. CASE Notify
    <3>1. notice' = [q \in Slots |-> [card |-> card[q], changed |-> dirty[q]]] /\ dirty[0]
      BY <1>1, <2>2 DEF Notify
    <3>2. notice'[0].card = card[0] /\ notice'[0].changed /\ DOMAIN notice' = Slots
      BY <1>1, <3>1
    <3> QED BY <1>1, <2>2, <3>2 DEF Notify, CardInv, Types
  <2>3. CASE Skip \/ TimeOut \/ OtherCommand \/ BadCommand
    BY <2>3 DEF Skip, TimeOut, OtherCommand, BadCommand, deviceVars, pipeVars, CardInv, Types,
                Notified, AfterCommand
  <2> QED BY <2>1, <2>2, <2>3
<1>4. Types'
  BY <1>2, <1>3 DEF CardInv, Types
<1>5. Numbers' /\ Notified'
  BY <1>2, <1>3 DEF CardInv, Numbers, Notified
<1>6. Asked' /\ Answered'
  BY <1>2 DEF CardInv, Asked, Answered
<1>7. Told(0)' /\ SwapSeen'
  BY <1>1, <1>2 DEF CardInv, Told, SwapSeen
<1> QED BY <1>1, <1>4, <1>5, <1>6, <1>7 DEF CardInv

\* A client looks at the status file.
LEMMA CardStatusKeepsCards ==
  ASSUME CardAssumption, OneSlot, CardInv, NEW c \in Clients, NEW s \in Slots, CardStatus(c, s)
  PROVE  CardInv'
<1>1. Slots = {0} /\ s = 0
  BY TheSlot
<1>2. /\ told' = [told EXCEPT ![c][s] = ctCard[s]] /\ learnt' = [learnt EXCEPT ![c][s] = published[s]]
      /\ UNCHANGED <<card, inserted, interrupt, icc, phase, caller, target, any, stat, urb, notice,
                     ctCard, seq, published, taken>>
  BY DEF CardStatus, deviceVars, driverVars, pipeVars, publicVars
<1>3. /\ told' \in [Clients -> [Slots -> Nat]] /\ learnt' \in [Clients -> [Slots -> Nat]]
      /\ told'[c][0] = ctCard[0] /\ learnt'[c][0] = published[0]
      /\ \A d \in Clients \ {c} : told'[d] = told[d] /\ learnt'[d] = learnt[d]
  BY <1>1, <1>2 DEF CardInv, Types
<1>4. Types' /\ Notified' /\ Asked' /\ Answered' /\ Told(0)'
  <2>1. Types'
    BY <1>2, <1>3 DEF CardInv, Types
  <2> QED BY <1>1, <1>2, <2>1 DEF CardInv, Notified, Asked, Answered, Told
<1>5. Numbers'
  <2>1. \A d \in Clients : told'[d][0] < seq
    BY <1>1, <1>3 DEF CardInv, Numbers
  <2> QED BY <1>1, <1>2, <2>1 DEF CardInv, Numbers
<1>6. SwapSeen'
  <2>1. \A d \in Clients : (told'[d][0] = told[d][0] /\ learnt'[d][0] = learnt[d][0]) \/ d = c
    BY <1>3
  <2> QED BY <1>1, <1>2, <1>3, <2>1 DEF CardInv, SwapSeen
<1> QED BY <1>1, <1>4, <1>5, <1>6 DEF CardInv

\* The steps of card_status: what is published does not change.
LEMMA CallKeepsCards ==
  ASSUME CardAssumption, OneSlot, CardInv, NEW s \in Slots,
         Poll(s) \/ Command(s) \/ Read \/ EndCapture \/ Probe \/ ProbeFails \/ ReturnToCommand
  PROVE  CardInv'
<1>1. Slots = {0} /\ 0 \in Slots /\ target = 0 /\ s = 0
  BY TheSlot DEF CardInv, Types
<1>2. /\ UNCHANGED <<card, inserted, interrupt, notice, ctCard, seq, published, told, learnt>>
      /\ taken' = taken \/ \E b \in BOOLEAN : taken' = [taken EXCEPT ![target] = @ \/ b]
  BY DEF Poll, Command, Begin, Read, EndCapture, Probe, ProbeFails, ReturnToCommand, deviceVars,
         pipeVars, publicVars, clientVars
<1>3. taken' \in [Slots -> BOOLEAN] /\ (taken[0] => taken'[0])
  BY <1>1, <1>2 DEF CardInv, Types
<1>4. /\ icc' \in [Slots -> Nat \cup {Unknown}] /\ stat'.card \in Nat \cup {Failed}
      /\ target' \in Slots /\ phase' \in {"idle", "capture", "cancel", "probe", "done"}
      /\ icc[0] # Unknown => icc'[0] # Unknown
      /\ stat'.changed \in BOOLEAN /\ caller' \in {"poll", "command"}
  <2>1. CASE Poll(s) \/ Command(s)
    <3>1. /\ UNCHANGED icc /\ target' = s /\ caller' \in {"poll", "command"}
          /\ stat' = Nothing \/ stat' = [Nothing EXCEPT !.card = Failed]
          /\ phase' \in {"capture", "probe", "done"}
      BY <2>1 DEF Poll, Command, Begin
    <3>2. \/ stat' = [card |-> 0, changed |-> FALSE]
          \/ stat' = [card |-> Failed, changed |-> FALSE]
      BY <3>1 DEF Nothing
    <3>3. stat'.card \in Nat \cup {Failed} /\ stat'.changed \in BOOLEAN
      <4>1. CASE stat' = [card |-> 0, changed |-> FALSE]
        BY <4>1
      <4>2. CASE stat' = [card |-> Failed, changed |-> FALSE]
        BY <4>2
      <4> QED BY <3>2, <4>1, <4>2
    <3> QED BY <1>1, <3>1, <3>3 DEF CardInv, Types
  <2>2. CASE Read
    <3>1. UNCHANGED <<icc, target, phase, caller>>
          /\ stat' = [card |-> notice[target].card, changed |-> stat.changed \/ notice[target].changed]
      BY <2>2 DEF Read
    <3>2. stat'.card \in Nat /\ stat'.changed \in BOOLEAN
      BY <1>1, <3>1 DEF CardInv, Types
    <3> QED BY <1>1, <3>1, <3>2 DEF CardInv, Types
  <2>3. CASE EndCapture
    <3>1. any => stat.card \in Nat
      BY <2>3 DEF EndCapture, CardInv, Types, Notified
    <3>2. icc[0] \in Nat \cup {Unknown} /\ stat.card \in Nat \cup {Failed}
      BY <1>1 DEF CardInv, Types
    <3>3. stat'.card \in Nat \cup {Failed} /\ stat'.changed \in BOOLEAN
      BY <1>1, <2>3, <3>2 DEF EndCapture, CardInv, Types
    <3>4. icc' \in [Slots -> Nat \cup {Unknown}] /\ (icc[0] # Unknown => icc'[0] # Unknown)
      BY <1>1, <2>3, <3>1 DEF EndCapture, CardInv, Types, Unknown
    <3> QED BY <1>1, <2>3, <3>3, <3>4 DEF EndCapture, CardInv, Types
  <2>4. CASE Probe
    <3>1. card[0] \in Nat
      BY <1>1 DEF CardInv, Types
    <3> QED BY <1>1, <2>4, <3>1 DEF Probe, CardInv, Types, Unknown
  <2>5. CASE ProbeFails \/ ReturnToCommand
    BY <1>1, <2>5 DEF ProbeFails, ReturnToCommand, CardInv, Types, Nothing
  <2> QED BY <2>1, <2>2, <2>3, <2>4, <2>5
<1>5. Types' /\ Numbers'
  BY <1>2, <1>3, <1>4 DEF CardInv, Types, Numbers
<1>6. SwapSeen'
  BY <1>1, <1>2, <1>3 DEF CardInv, SwapSeen
<1>7. Notified' /\ Asked' /\ Answered' /\ Told(0)'
  <2>1. CASE Poll(s) \/ Command(s)
    <3>1. /\ UNCHANGED <<icc, taken>> /\ phase = "idle" /\ any' = FALSE /\ urb' # "completed"
          /\ \/ phase' = IF interrupt THEN "capture" ELSE "probe"
             \/ phase' = "done" /\ stat'.card = Failed
      BY <2>1 DEF Poll, Command, Begin, Nothing
    <3>2. CASE phase' = IF interrupt THEN "capture" ELSE "probe"
      BY <1>1, <1>2, <3>1, <3>2 DEF CardInv, Notified, Asked, Answered, Told
    <3>3. CASE phase' = "done" /\ stat'.card = Failed
      BY <1>1, <1>2, <3>1, <3>3 DEF CardInv, Notified, Asked, Answered, Told
    <3> QED BY <3>1, <3>2, <3>3
  <2>2. CASE Read
    <3>1. /\ UNCHANGED <<icc, phase, caller, target>> /\ phase = "capture" /\ urb' = "submitted"
          /\ urb = "completed" /\ any' = TRUE
          /\ stat' = [card |-> notice[target].card, changed |-> stat.changed \/ notice[target].changed]
          /\ taken' = [taken EXCEPT ![target] = @ \/ (caller = "command" /\ notice[target].changed)]
      BY <2>2 DEF Read, Arrived
    <3>2. (notice[0].changed <=> TRUE) /\ notice[0].card \in Nat
      BY <1>1, <3>1 DEF CardInv, Notified, Types
    <3>3. stat'.changed /\ stat'.card # Failed /\ (caller = "command" => taken'[0])
      <4>1. stat'.card = notice[0].card /\ (stat'.changed <=> (stat.changed \/ notice[0].changed))
        BY <1>1, <3>1
      <4>2. caller = "command" => taken'[0]
        BY <1>1, <3>1, <3>2 DEF CardInv, Types
      <4> QED BY <3>2, <4>1, <4>2 DEF Failed
    <3>4. Notified'
      BY <1>1, <3>1, <3>3 DEF Notified
    <3> QED BY <1>1, <1>2, <1>3, <3>1, <3>4 DEF CardInv, Asked, Answered, Told
  <2>3. CASE EndCapture
    <3>1. /\ UNCHANGED <<caller, target, any, taken>> /\ phase = "cancel" /\ urb' = "none"
          /\ phase' = IF ~any /\ icc[target] = Unknown THEN "probe" ELSE "done"
          /\ icc' = IF any THEN [icc EXCEPT ![target] = stat.card] ELSE icc
          /\ stat' = IF any \/ icc[target] = Unknown THEN stat
                     ELSE [card |-> icc[target], changed |-> FALSE]
      BY <2>3 DEF EndCapture, EndOwnCapture
    <3>2. CASE any
      <4>1. /\ icc'[0] = stat.card /\ stat' = stat /\ phase' = "done" /\ stat.changed
            /\ stat.card # Failed /\ (caller = "command" => taken[0])
        BY <1>1, <3>1, <3>2 DEF CardInv, Types, Notified
      <4>2. stat.card # Unknown
        BY <4>1 DEF CardInv, Types, Unknown, Failed
      <4>3. caller = "command" \/ caller = "poll"
        BY <1>1 DEF CardInv, Types
      <4> QED BY <1>1, <1>2, <3>1, <4>1, <4>2, <4>3 DEF CardInv, Notified, Asked, Answered, Told
    <3>3. CASE ~any /\ icc[0] = Unknown
      BY <1>1, <1>2, <3>1, <3>3 DEF CardInv, Notified, Asked, Answered, Told
    <3>4. CASE ~any /\ icc[0] # Unknown
      <4>1. icc' = icc /\ phase' = "done" /\ stat'.card = icc[0] /\ icc[0] # Failed
        BY <1>1, <3>1, <3>4 DEF CardInv, Types, Failed, Unknown
      <4> QED BY <1>1, <1>2, <3>1, <3>4, <4>1 DEF CardInv, Notified, Asked, Answered, Told
    <3> QED BY <3>2, <3>3, <3>4
  <2>4. CASE Probe
    <3>1. /\ UNCHANGED <<caller, target, any, urb>> /\ phase = "probe" /\ phase' = "done"
          /\ icc' = [icc EXCEPT ![target] = card[0]] /\ stat'.card = card[0]
      BY <2>4 DEF Probe, pipeVars
    <3>2. card[0] \in Nat /\ icc'[0] = card[0]
      BY <1>1, <3>1 DEF CardInv, Types
    <3>3. interrupt => ctCard[0] = 0
      BY <1>1, <3>1 DEF CardInv, Asked
    <3> QED BY <1>1, <1>2, <3>1, <3>2, <3>3 DEF CardInv, Notified, Asked, Answered, Told, Unknown,
                                              Failed
  <2>5. CASE ProbeFails
    <3>1. /\ UNCHANGED <<caller, target, any, urb, icc, taken>> /\ phase = "probe" /\ phase' = "done"
          /\ stat'.card = Failed
      BY <2>5 DEF ProbeFails, pipeVars, Nothing
    <3>2. interrupt => ctCard[0] = 0 /\ icc[0] = Unknown
      BY <1>1, <3>1 DEF CardInv, Asked
    <3> QED BY <1>1, <1>2, <3>1, <3>2 DEF CardInv, Notified, Asked, Answered, Told
  <2>6. CASE ReturnToCommand
    <3>1. /\ UNCHANGED <<icc, caller, taken, target, any, stat>> /\ phase' = "idle"
          /\ caller = "command" /\ (urb' = "completed" => urb = "completed")
      BY <2>6 DEF ReturnToCommand, AfterCommand
    <3> QED BY <1>1, <1>2, <3>1 DEF CardInv, Notified, Asked, Answered, Told
  <2> QED BY <2>1, <2>2, <2>3, <2>4, <2>5, <2>6
<1> QED BY <1>1, <1>5, <1>6, <1>7 DEF CardInv

\* The loop publishes what its call has said, or what has been notified.
LEMMA LoopKeepsCards ==
  ASSUME CardAssumption, OneSlot, CardInv, seq' >= seq, ReturnToPoll \/ Event
  PROVE  CardInv'
<1>1. Slots = {0} /\ 0 \in Slots /\ target = 0
  BY TheSlot DEF CardInv, Types
<1>2. UNCHANGED <<card, inserted, interrupt, notice, told, learnt, target, caller, any, stat>>
  BY DEF ReturnToPoll, Event, deviceVars, clientVars
<1>3. CASE ReturnToPoll
  <2>1. /\ phase = "done" /\ caller = "poll" /\ phase' = "idle" /\ icc' = icc
        /\ urb' = "completed" => urb = "completed"
    BY <1>3 DEF ReturnToPoll, AfterCommand
  <2>2. CASE stat.card = Failed
    <3>1. UNCHANGED <<ctCard, seq, published, taken>>
      BY <1>3, <2>2 DEF ReturnToPoll, publicVars
    <3>2. Types' /\ Numbers' /\ Notified' /\ SwapSeen'
      BY <1>2, <2>1, <3>1 DEF CardInv, Types, Numbers, Notified, SwapSeen
    <3> QED BY <1>1, <1>2, <2>1, <2>2, <3>1, <3>2 DEF CardInv, Asked, Answered, Told
  <2>3. CASE stat.card # Failed
    <3>1. PICK status : status = [s \in {target} |-> stat]
      OBVIOUS
    <3>2. SlotStatusUpdate({0}, status) /\ status[0] = stat
      BY <1>1, <1>3, <2>3, <3>1 DEF ReturnToPoll
    <3>3. stat.card \in Nat /\ stat.card = icc[0] /\ stat.changed \in BOOLEAN
      BY <1>1, <2>1, <2>3 DEF CardInv, Types, Answered
    <3>4. interrupt /\ ~stat.changed /\ ctCard[0] # 0 /\ ~taken[0] => published[0] = stat.card
      BY <1>1, <3>3 DEF CardInv, Told
    <3>5. /\ SwapSeen' /\ Numbers'
          /\ ctCard' \in [Slots -> Nat] /\ published' \in [Slots -> Nat]
          /\ taken' \in [Slots -> BOOLEAN] /\ published'[0] = stat.card
      BY <1>1, <1>2, <3>2, <3>3, <3>4, UpdateSwapSeen DEF CardInv
    <3>6. Types' /\ Notified'
      BY <1>2, <2>1, <3>5 DEF CardInv, Types, Notified
    <3> QED BY <1>1, <1>2, <2>1, <3>3, <3>5, <3>6 DEF CardInv, Asked, Answered, Told, Unknown
  <2> QED BY <2>2, <2>3
<1>4. CASE Event
  <2>1. /\ phase = "idle" /\ phase' = phase /\ urb = "completed" /\ urb' = "submitted"
        /\ icc' = [s \in Slots |-> notice[s].card]
    BY <1>4 DEF Event, Arrived
  <2>2. PICK garbage \in [Slots -> BOOLEAN] :
          SlotStatusUpdate(Slots, [s \in Slots |->
            [card |-> notice[s].card, changed |-> notice[s].changed \/ garbage[s]]])
    BY <1>4 DEF Event
  <2>3. PICK status : status = [s \in Slots |->
            [card |-> notice[s].card, changed |-> notice[s].changed \/ garbage[s]]]
    OBVIOUS
  <2>4. SlotStatusUpdate({0}, status) /\ status[0].card = notice[0].card /\ status[0].changed
        /\ status[0].changed \in BOOLEAN
    <3>1. notice[0].changed
      BY <1>1, <2>1 DEF CardInv, Notified
    <3>2. status[0] = [card |-> notice[0].card, changed |-> notice[0].changed \/ garbage[0]]
      BY <1>1, <2>3
    <3> QED BY <1>1, <2>2, <2>3, <3>1, <3>2
  <2>5. notice[0].card \in Nat /\ icc'[0] = notice[0].card
    BY <1>1, <2>1 DEF CardInv, Types
  <2>6. /\ SwapSeen' /\ Numbers'
        /\ ctCard' \in [Slots -> Nat] /\ published' \in [Slots -> Nat]
        /\ taken' \in [Slots -> BOOLEAN] /\ published'[0] = notice[0].card
    BY <1>1, <1>2, <2>4, <2>5, UpdateSwapSeen DEF CardInv
  <2>7. Types' /\ Notified'
    BY <1>1, <1>2, <2>1, <2>5, <2>6 DEF CardInv, Types, Notified
  <2> QED BY <1>1, <1>2, <2>1, <2>5, <2>6, <2>7 DEF CardInv, Asked, Answered, Told, Unknown
<1> QED BY <1>3, <1>4

LEMMA InitCards == CardAssumption /\ OneSlot /\ Init => CardInv
<1> SUFFICES ASSUME CardAssumption, OneSlot, Init PROVE CardInv
  OBVIOUS
<1>1. Slots = {0}
  BY TheSlot
<1>2. Types
  BY <1>1 DEF Init, Types, NoCards, Nowhere, Nothing, Unknown
<1>3. Numbers
  BY DEF Init, Numbers, NoCards
<1>4. Notified /\ Asked /\ Answered
  BY DEF Init, Notified, Asked, Answered, NoCards
<1>5. Told(0) /\ SwapSeen
  BY <1>1 DEF Init, Told, SwapSeen, NoCards
<1> QED BY <1>1, <1>2, <1>3, <1>4, <1>5 DEF CardInv

LEMMA NextCards ==
  ASSUME CardAssumption, OneSlot, CardInv, [Next]_vars, [seq' >= seq]_vars
  PROVE  CardInv'
<1>1. CASE UNCHANGED vars
  <2>1. Types' /\ Numbers' /\ Notified' /\ Asked' /\ Answered'
    BY <1>1 DEF CardInv, Types, Numbers, Notified, Asked, Answered, vars, deviceVars, driverVars,
                pipeVars, loopVars, publicVars, clientVars
  <2>2. (\A s \in Slots : Told(s)') /\ SwapSeen'
    BY <1>1 DEF CardInv, Told, SwapSeen, vars, deviceVars, driverVars, pipeVars, loopVars,
                publicVars, clientVars
  <2> QED BY <2>1, <2>2 DEF CardInv
<1>2. CASE ReturnToPoll \/ Event
  <2>1. seq' >= seq
    <3>1. CASE UNCHANGED vars
      BY <3>1 DEF vars, publicVars, CardInv, Numbers
    <3> QED BY <3>1
  <2> QED BY <1>2, <2>1, LoopKeepsCards
<1>3. 0 \in Slots
  BY TheSlot
<1>4. ASSUME NEW s \in Slots, Insert(s) \/ Remove(s) \/ Poll(s) \/ Command(s)
      PROVE  CardInv'
  BY <1>4, OutsideKeepsCards, CallKeepsCards
<1>5. CASE Notify \/ Skip \/ TimeOut \/ OtherCommand \/ BadCommand
  BY <1>3, <1>5, OutsideKeepsCards
<1>6. CASE Read \/ EndCapture \/ Probe \/ ProbeFails \/ ReturnToCommand
  BY <1>3, <1>6, CallKeepsCards
<1>7. ASSUME NEW c \in Clients, NEW s \in Slots, CardStatus(c, s)
      PROVE  CardInv'
  BY <1>7, CardStatusKeepsCards
<1> QED BY <1>1, <1>2, <1>4, <1>5, <1>6, <1>7 DEF Next, Returns

\* A reader with one slot: a client that would be told "present, not changed" was told of
\* this very card, for any number of cards, clients and failures, until card_seq, of 32 bits,
\* starts again (ifd_slot_status_update and ifd_poll with ccid_card_status and ccid_event).
THEOREM OneSlotSwapSeen ==
  ASSUME OneSlot
  PROVE  Spec /\ [][seq' >= seq]_vars => []SwapSeen
<1>1. CardInv => SwapSeen
  BY DEF CardInv
<1> QED BY <1>1, InitCards, NextCards, CardAssumption, PTL DEF Spec
=============================================================================
