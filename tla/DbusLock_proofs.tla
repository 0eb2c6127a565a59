--------------------------- MODULE DbusLock_proofs ---------------------------
(***************************************************************************)
(* Between commands the name on the bus is a mutual exclusion object, for  *)
(* any number of commands and whatever a server's threads do beside them.  *)
(***************************************************************************)
EXTENDS DbusLock, TLAPS

(* The bus: what is left of the queue when a process is taken out of it.   *)
QueuedOnce == \A i, j \in DOMAIN queue : queue[i] = queue[j] => i = j

LEMMA PlaceOfQueued ==
  ASSUME NEW p, Queued(p)
  PROVE  Place(p) \in DOMAIN queue /\ queue[Place(p)] = p
  BY DEF Queued, Place

LEMMA OthersType ==
  ASSUME queue \in Seq(Processes), NEW p
  PROVE  Others(p) \in Seq(Processes)
<1>1. CASE Queued(p)
  <2>1. Len(queue) \in Nat \ {0}
    BY <1>1 DEF Queued
  <2>2. Place(p) \in 1..Len(queue)
    BY <1>1, PlaceOfQueued
  <2>3. \A i \in 1..(Len(queue) - 1) :
          queue[IF i < Place(p) THEN i ELSE i + 1] \in Processes
    BY <2>1, <2>2
  <2> DEFINE rest == [i \in 1..(Len(queue) - 1) |->
                        queue[IF i < Place(p) THEN i ELSE i + 1]]
  <2>4. rest \in [1..(Len(queue) - 1) -> Processes]
    BY <2>3
  <2>5. rest \in Seq(Processes)
    BY <2>1, <2>4
  <2> QED
    BY <1>1, <2>5 DEF Others
<1>2. CASE ~Queued(p)
  BY <1>2 DEF Others
<1> QED
  BY <1>1, <1>2

(* The others stay, in a queue where each is once.                         *)
LEMMA OthersStay ==
  ASSUME queue \in Seq(Processes), QueuedOnce, NEW p
  PROVE  /\ \A i, j \in DOMAIN Others(p) : Others(p)[i] = Others(p)[j] => i = j
         /\ \A q : (\E i \in DOMAIN Others(p) : Others(p)[i] = q) <=> Queued(q) /\ q # p
<1>1. CASE Queued(p)
  <2>1. Len(queue) \in Nat \ {0} /\ DOMAIN queue = 1..Len(queue)
    BY <1>1 DEF Queued
  <2>2. Place(p) \in 1..Len(queue) /\ queue[Place(p)] = p
    BY <1>1, PlaceOfQueued
  <2>3. DOMAIN Others(p) = 1..(Len(queue) - 1)
    BY <1>1 DEF Others
  <2>4. \A i \in 1..(Len(queue) - 1) :
          Others(p)[i] = queue[IF i < Place(p) THEN i ELSE i + 1]
    BY <1>1 DEF Others
  <2> DEFINE Old(i) == IF i < Place(p) THEN i ELSE i + 1
  <2>old. \A i \in 1..(Len(queue) - 1) :
            /\ Old(i) \in 1..Len(queue) /\ Old(i) # Place(p)
            /\ Others(p)[i] = queue[Old(i)]
    BY <2>1, <2>2, <2>4
  <2>inj. \A i, j \in 1..(Len(queue) - 1) : Old(i) = Old(j) => i = j
    BY <2>1, <2>2
  <2> HIDE DEF Old
  <2>5. \A i, j \in DOMAIN Others(p) : Others(p)[i] = Others(p)[j] => i = j
    BY <2>1, <2>3, <2>old, <2>inj DEF QueuedOnce
  <2>6. \A i \in DOMAIN Others(p) : Queued(Others(p)[i]) /\ Others(p)[i] # p
    BY <2>1, <2>2, <2>3, <2>old DEF Queued, QueuedOnce
  <2>7. ASSUME NEW q, Queued(q), q # p
        PROVE  \E i \in DOMAIN Others(p) : Others(p)[i] = q
    <3>1. PICK k \in DOMAIN queue : queue[k] = q
      BY <2>7 DEF Queued
    <3>2. CASE k < Place(p)
      BY <2>1, <2>2, <2>3, <2>4, <3>1, <3>2
    <3>3. CASE k > Place(p)
      <4>1. k - 1 \in DOMAIN Others(p) /\ Others(p)[k - 1] = q
        BY <2>1, <2>2, <2>3, <2>4, <3>1, <3>3
      <4> QED
        BY <4>1
    <3> QED
      BY <2>1, <2>2, <2>7, <3>1, <3>2, <3>3
  <2> QED
    BY <2>5, <2>6, <2>7
<1>2. CASE ~Queued(p)
  BY <1>2 DEF Others, Queued, QueuedOnce
<1> QED
  BY <1>1, <1>2

(* A name that is let go goes to the first in the queue, with a signal; or *)
(* there is none, or the name was not p's, and p only leaves the queue.    *)
LEMMA LetGoOutcomes ==
  ASSUME TypeOK, QueuedOnce, NEW p \in Processes, LetGo(p)
  PROVE  /\ queue' \in Seq(Processes)
         /\ QueuedOnce'
         /\ \/ /\ owner' = IF owner = p THEN NoProcess ELSE owner
               /\ signals' = signals
               /\ \A q : Queued(q)' <=> Queued(q) /\ q # p
            \/ \E h \in Processes :
                 /\ owner = p /\ Queued(h)
                 /\ owner' = h
                 /\ signals' = [signals EXCEPT ![h] = @ + 1]
                 /\ \A q : Queued(q)' <=> Queued(q) /\ q # h
<1>1. CASE owner # p \/ queue = <<>>
  <2>1. queue' = Others(p) /\ signals' = signals
        /\ owner' = IF owner = p THEN NoProcess ELSE owner
    BY <1>1 DEF LetGo
  <2>2. queue' \in Seq(Processes)
    BY <2>1, OthersType DEF TypeOK
  <2>3. QueuedOnce' /\ \A q : Queued(q)' <=> Queued(q) /\ q # p
    <3>1. /\ \A i, j \in DOMAIN queue' : queue'[i] = queue'[j] => i = j
          /\ \A q : (\E i \in DOMAIN queue' : queue'[i] = q) <=> Queued(q) /\ q # p
      BY <2>1, OthersStay DEF TypeOK
    <3> QED
      BY <3>1 DEF QueuedOnce, Queued
  <2> QED
    BY <2>1, <2>2, <2>3
<1>2. CASE owner = p /\ queue # <<>>
  <2> DEFINE h == Head(queue)
  <2>1. Len(queue) \in Nat \ {0} /\ DOMAIN queue = 1..Len(queue) /\ h = queue[1]
    BY <1>2 DEF TypeOK
  <2>2. h \in Processes /\ Queued(h)
    <3>1. queue[1] \in Processes
      BY <2>1 DEF TypeOK
    <3>2. Queued(queue[1])
      BY <2>1 DEF Queued
    <3> QED
      BY <2>1, <3>1, <3>2
  <2>3. owner' = h /\ queue' = Tail(queue) /\ signals' = [signals EXCEPT ![h] = @ + 1]
    BY <1>2 DEF LetGo
  <2>4. /\ queue' \in Seq(Processes) /\ DOMAIN queue' = 1..(Len(queue) - 1)
        /\ \A i \in 1..(Len(queue) - 1) : queue'[i] = queue[i + 1]
    BY <1>2, <2>1, <2>3 DEF TypeOK
  <2>5. QueuedOnce'
    BY <2>1, <2>4 DEF QueuedOnce
  <2>6. ASSUME NEW q PROVE Queued(q)' <=> Queued(q) /\ q # h
    <3>1. ASSUME NEW i \in DOMAIN queue', queue'[i] = q PROVE Queued(q) /\ q # h
      BY <2>1, <2>4, <3>1 DEF Queued, QueuedOnce
    <3>2. ASSUME NEW i \in DOMAIN queue, queue[i] = q, q # h PROVE Queued(q)'
      <4>1. i - 1 \in DOMAIN queue' /\ queue'[i - 1] = q
        BY <2>1, <2>4, <3>2
      <4> QED
        BY <4>1 DEF Queued
    <3> QED
      BY <3>1, <3>2 DEF Queued
  <2> QED
    BY <1>2, <2>2, <2>3, <2>4, <2>5, <2>6
<1> QED
  BY <1>1, <1>2

-----------------------------------------------------------------------------
(* Why the name excludes: a command in a section owns it, whether the bus  *)
(* gave it at once or after a wait.  So a signal that was sent to a        *)
(* command, or heard by it, must mean that it owns the name until it acts  *)
(* on it, which holds since only processes that wait are in the queue, and *)
(* the owner is not.                                                       *)
SectionOwns ==
    \A c \in Commands : pc[c] = "section" => owner = ProcessOf[c] /\ locked[ProcessOf[c]]

FlagInside ==
    \A c \in Commands : locked[ProcessOf[c]] => pc[c] \in {"section", "released"}

HeardOwns ==
    \A c \in Commands :
        c \in heard => /\ owner = ProcessOf[c]
                       /\ pc[c] = "listening"
                       /\ signals[ProcessOf[c]] = 0

SignalledOwns ==
    \A c \in Commands :
        signals[ProcessOf[c]] # 0 /\ pc[c] # "exited" =>
            /\ owner = ProcessOf[c]
            /\ pc[c] \in {"queued", "listening"}
            /\ signals[ProcessOf[c]] = 1

QueuedWaits ==
    \A c \in Commands :
        Queued(ProcessOf[c]) => pc[c] \in {"queued", "listening"} /\ owner # ProcessOf[c]

BusInv == SectionOwns /\ FlagInside /\ HeardOwns /\ SignalledOwns /\ QueuedWaits
              /\ WaitersQueued

LockInv == TypeOK /\ QueuedOnce /\ BusInv

LEMMA LockInvInit == Init => LockInv
  BY DbusLockAssumption
  DEF Init, LockInv, BusInv, TypeOK, QueuedOnce, Commands, SectionOwns, FlagInside,
      HeardOwns, SignalledOwns, QueuedWaits, Queued, WaitersQueued

(* No action takes a variable out of its type, whatever the conditions.    *)
LEMMA TypeStep == TypeOK /\ QueuedOnce /\ [Next]_vars => TypeOK' /\ QueuedOnce'
<1> SUFFICES ASSUME TypeOK, QueuedOnce, [Next]_vars PROVE TypeOK' /\ QueuedOnce'
  OBVIOUS
<1> USE DbusLockAssumption DEF GoTo
<1>1. ASSUME NEW t \in Threads, CheckLocked(t) PROVE TypeOK' /\ QueuedOnce'
  BY <1>1 DEF CheckLocked, TypeOK, bus, QueuedOnce
<1>2. ASSUME NEW t \in Threads, BecomeOwner(t) PROVE TypeOK' /\ QueuedOnce'
  BY <1>2 DEF BecomeOwner, TypeOK, Listeners, QueuedOnce
<1>3. ASSUME NEW t \in Threads, Enqueue(t) PROVE TypeOK' /\ QueuedOnce'
  <2>1. queue' \in Seq(Processes)
    BY <1>3 DEF Enqueue, TypeOK
  <2>2. ASSUME Queued(ProcessOf[t]) PROVE QueuedOnce'
    BY <1>3, <2>2 DEF Enqueue, QueuedOnce
  <2>3. ASSUME ~Queued(ProcessOf[t]) PROVE QueuedOnce'
    <3>1. queue' = Append(queue, ProcessOf[t]) /\ queue \in Seq(Processes)
      BY <1>3, <2>3 DEF Enqueue, TypeOK
    <3>2. /\ DOMAIN queue' = 1..(Len(queue) + 1) /\ Len(queue) \in Nat
          /\ DOMAIN queue = 1..Len(queue)
          /\ \A i \in 1..Len(queue) : queue'[i] = queue[i]
          /\ queue'[Len(queue) + 1] = ProcessOf[t]
      BY <3>1
    <3> QED
      BY <2>3, <3>2 DEF QueuedOnce, Queued
  <2>4. QueuedOnce'
    BY <2>2, <2>3
  <2> QED
    BY <1>3, <2>1, <2>4 DEF Enqueue, TypeOK
<1>4. ASSUME NEW t \in Threads, Refused(t) \/ Listen(t) PROVE TypeOK' /\ QueuedOnce'
  BY <1>4 DEF Refused, Listen, TypeOK, bus, QueuedOnce
<1>5. ASSUME NEW t \in Threads, Acquire(t) PROVE TypeOK' /\ QueuedOnce'
  BY <1>5 DEF Acquire, TypeOK, bus, QueuedOnce
<1>6. ASSUME NEW t \in Threads, UnlockSkips(t) \/ ClearLocked(t) PROVE TypeOK' /\ QueuedOnce'
  BY <1>6 DEF UnlockSkips, ClearLocked, TypeOK, bus, QueuedOnce
<1>7. ASSUME NEW p \in Processes, LetGo(p)
      PROVE  /\ owner' \in Processes \cup {NoProcess} /\ queue' \in Seq(Processes)
             /\ signals' \in [Processes -> Nat] /\ QueuedOnce'
  BY <1>7, LetGoOutcomes DEF TypeOK
<1>8. ASSUME NEW t \in Threads, ReleaseName(t) PROVE TypeOK' /\ QueuedOnce'
  <2>1. LetGo(ProcessOf[t]) /\ ProcessOf[t] \in Processes
    BY <1>8 DEF ReleaseName
  <2> QED
    BY <1>7, <1>8, <2>1 DEF ReleaseName, TypeOK
<1>9. ASSUME NEW p \in Processes, Exit(p) PROVE TypeOK' /\ QueuedOnce'
  <2>1. LetGo(p)
    BY <1>9 DEF Exit
  <2> QED
    BY <1>7, <1>9, <2>1 DEF Exit, TypeOK
<1>10. ASSUME NEW p \in Processes, Deliver(p) PROVE TypeOK' /\ QueuedOnce'
  BY <1>10 DEF Deliver, TypeOK, Listeners, QueuedOnce
<1>11. CASE UNCHANGED vars
  BY <1>11 DEF vars, TypeOK, QueuedOnce
<1> QED
  BY <1>1, <1>2, <1>3, <1>4, <1>5, <1>6, <1>8, <1>9, <1>10, <1>11
  DEF Next, LockOrWait, Unlock

(* The state of the D-Bus lock has its type for any processes, threads and *)
(* number of sections.                                                     *)
THEOREM TypeCorrect == Spec => []TypeOK
<1>1. Init => TypeOK /\ QueuedOnce
  BY LockInvInit DEF LockInv
<1> QED
  BY <1>1, TypeStep, PTL DEF Spec

-----------------------------------------------------------------------------
(* A process lets the name go when it unlocks or ends: the first command   *)
(* that waits becomes the owner, and every other one keeps what it had.    *)
LEMMA LetGoBus ==
  ASSUME LockInv, NEW p \in Processes, LetGo(p),
         \A c \in Commands : ProcessOf[c] # p =>
            /\ pc'[c] = pc[c] /\ (c \in heard' => c \in heard)
            /\ locked'[ProcessOf[c]] = locked[ProcessOf[c]],
         \A c \in Commands : ProcessOf[c] = p =>
            /\ pc'[c] = "exited" \/ (pc[c] = "section" /\ pc'[c] = "released")
            /\ c \notin heard'
            /\ locked'[p] => pc'[c] = "released"
  PROVE  BusInv'
<1> USE DbusLockAssumption DEF LockInv
<1>1. \A c \in Commands : c \in Threads /\ ProcessOf[c] \in Processes
                           /\ ProcessOf[c] # NoProcess
  BY DEF Commands
<1>2. signals \in [Processes -> Nat] /\ owner \in Processes \cup {NoProcess}
  BY DEF TypeOK
<1>3. CASE /\ owner' = IF owner = p THEN NoProcess ELSE owner
           /\ signals' = signals
           /\ \A q : Queued(q)' <=> Queued(q) /\ q # p
  <2>1. SectionOwns' /\ FlagInside' /\ HeardOwns'
    BY <1>1, <1>3 DEF BusInv, SectionOwns, FlagInside, HeardOwns, Commands
  <2>2. SignalledOwns'
    BY <1>1, <1>3 DEF BusInv, SignalledOwns, Commands
  <2>3. QueuedWaits' /\ WaitersQueued'
    BY <1>1, <1>3 DEF BusInv, QueuedWaits, WaitersQueued, Commands
  <2> QED
    BY <2>1, <2>2, <2>3 DEF BusInv
<1>4. ASSUME NEW h \in Processes, owner = p, Queued(h), owner' = h,
             signals' = [signals EXCEPT ![h] = @ + 1],
             \A q : Queued(q)' <=> Queued(q) /\ q # h
      PROVE  BusInv'
  <2>1. \A c \in Commands : ProcessOf[c] = h =>
          /\ h # p /\ pc[c] \in {"queued", "listening"} /\ pc'[c] = pc[c]
          /\ signals[h] = 0 /\ signals'[h] = 1 /\ c \notin heard'
    BY <1>2, <1>4 DEF BusInv, QueuedWaits, HeardOwns, SignalledOwns
  <2>2. \A c \in Commands : ProcessOf[c] # h => signals'[ProcessOf[c]] = signals[ProcessOf[c]]
    BY <1>1, <1>2, <1>4
  <2>3. SectionOwns' /\ FlagInside'
    BY <1>1, <1>4, <2>1 DEF BusInv, SectionOwns, FlagInside, Commands
  <2>4. HeardOwns'
    BY <1>1, <1>4, <2>1, <2>2 DEF BusInv, HeardOwns, Commands
  <2>5. SignalledOwns'
    BY <1>1, <1>4, <2>1, <2>2 DEF BusInv, SignalledOwns, Commands
  <2>6. QueuedWaits' /\ WaitersQueued'
    BY <1>1, <1>4, <2>1 DEF BusInv, QueuedWaits, WaitersQueued, Commands
  <2> QED
    BY <2>3, <2>4, <2>5, <2>6 DEF BusInv
<1> QED
  BY <1>3, <1>4, LetGoOutcomes

LEMMA BusStep == LockInv /\ [Next]_vars => BusInv'
<1> SUFFICES ASSUME LockInv, [Next]_vars PROVE BusInv'
  OBVIOUS
<1> USE DbusLockAssumption DEF LockInv, GoTo
<1>1. \A c \in Commands : c \in Threads /\ ProcessOf[c] \in Processes
                           /\ ProcessOf[c] # NoProcess
  BY DEF Commands
<1>2. \A c \in Commands : \A t \in Threads : ProcessOf[t] = ProcessOf[c] => t = c
  BY DEF Commands
<1>3. /\ pc \in [Threads -> {"idle", "asking", "queued", "listening", "section",
                              "released", "exited"}]
      /\ locked \in [Processes -> BOOLEAN] /\ signals \in [Processes -> Nat]
  BY DEF TypeOK
<1> USE <1>1, <1>2, <1>3
    DEF BusInv, SectionOwns, FlagInside, HeardOwns, SignalledOwns, QueuedWaits, WaitersQueued
<1>4. ASSUME NEW t \in Threads, CheckLocked(t) PROVE BusInv'
  BY <1>4 DEF CheckLocked, bus, Queued
<1>5. ASSUME NEW t \in Threads, BecomeOwner(t) PROVE BusInv'
  BY <1>5 DEF BecomeOwner, Queued, Listeners
<1>6. ASSUME NEW t \in Threads, Enqueue(t) PROVE BusInv'
  <2>1. \A q : Queued(q)' <=> Queued(q) \/ q = ProcessOf[t]
    <3>1. CASE Queued(ProcessOf[t])
      BY <1>6, <3>1 DEF Enqueue, Queued
    <3>2. CASE ~Queued(ProcessOf[t])
      <4>1. queue' = Append(queue, ProcessOf[t]) /\ queue \in Seq(Processes)
        BY <1>6, <3>2 DEF Enqueue, TypeOK
      <4>2. /\ DOMAIN queue' = 1..(Len(queue) + 1) /\ Len(queue) \in Nat
            /\ DOMAIN queue = 1..Len(queue)
            /\ \A i \in 1..Len(queue) : queue'[i] = queue[i]
            /\ queue'[Len(queue) + 1] = ProcessOf[t]
        BY <4>1
      <4> QED
        BY <4>2 DEF Queued
    <3> QED
      BY <3>1, <3>2
  <2> QED
    BY <1>6, <2>1 DEF Enqueue
<1>7. ASSUME NEW t \in Threads, Refused(t) \/ Listen(t) PROVE BusInv'
  BY <1>7 DEF Refused, Listen, bus, Queued
<1>8. ASSUME NEW t \in Threads, Acquire(t) PROVE BusInv'
  BY <1>8 DEF Acquire, bus, Queued
<1>9. ASSUME NEW t \in Threads, UnlockSkips(t) \/ ClearLocked(t) PROVE BusInv'
  BY <1>9 DEF UnlockSkips, ClearLocked, bus, Queued
<1>10. ASSUME NEW t \in Threads, ReleaseName(t) PROVE BusInv'
  BY <1>10, LetGoBus DEF ReleaseName
<1>11. ASSUME NEW p \in Processes, Exit(p) PROVE BusInv'
  BY <1>11, LetGoBus DEF Exit
<1>12. ASSUME NEW p \in Processes, Deliver(p) PROVE BusInv'
  BY <1>12 DEF Deliver, Queued, Listeners
<1>13. CASE UNCHANGED vars
  BY <1>13 DEF vars, Queued
<1> QED
  BY <1>4, <1>5, <1>6, <1>7, <1>8, <1>9, <1>10, <1>11, <1>12, <1>13
  DEF Next, LockOrWait, Unlock

LEMMA LockInvInvariant == Spec => []LockInv
<1>1. LockInv /\ [Next]_vars => LockInv'
  BY TypeStep, BusStep DEF LockInv
<1> QED
  BY <1>1, LockInvInit, PTL DEF Spec

(* LockOrWait and Unlock keep the sections of two commands apart.          *)
THEOREM Exclusion == Spec => []OneCommandAtATime
<1>1. LockInv => OneCommandAtATime
  BY DEF LockInv, BusInv, SectionOwns, OneCommandAtATime, Commands
<1> QED
  BY <1>1, LockInvInvariant, PTL

(* The bus never forgets a command that waits: it is in the queue until it *)
(* is given the name.                                                      *)
THEOREM WaitersStay == Spec => []WaitersQueued
<1>1. LockInv => WaitersQueued
  BY DEF LockInv, BusInv
<1> QED
  BY <1>1, LockInvInvariant, PTL

-----------------------------------------------------------------------------
(* Refinement: a command's step moves only that command, so the holder of  *)
(* the abstract lock changes when a command enters its section, which none *)
(* other is in since the name was free or came to its process, or leaves.  *)

LEMMA EnterRefines ==
  ASSUME LockInv, LockInv', NEW c \in Commands, pc' = [pc EXCEPT ![c] = "section"]
  PROVE  [M!Next]_Holder
<1>1. InSection' = {c}
  <2>1. c \in InSection'
    BY DEF InSection, LockInv, TypeOK, Commands
  <2> QED
    BY <2>1 DEF InSection, LockInv, BusInv, SectionOwns, Commands
<1>2. InSection \subseteq {c}
  BY <1>1 DEF InSection, LockInv, TypeOK, Commands
<1>3. CASE InSection = {}
  BY <1>1, <1>3 DEF M!Next, M!Acquire, Holder
<1>4. CASE InSection = {c}
  BY <1>1, <1>4 DEF Holder
<1> QED
  BY <1>2, <1>3, <1>4

LEMMA OthersRefine ==
  ASSUME LockInv, NEW S \in SUBSET Threads,
         \A t \in S, u \in S \cap Commands : t = u,
         \A t \in Threads \ S : pc'[t] = pc[t],
         \A t \in S \cap Commands : pc'[t] # "section"
  PROVE  [M!Next]_Holder
<1>1. InSection' = InSection \ S
  BY DEF InSection, Commands
<1>2. CASE InSection \cap S = {}
  <2>1. InSection' = InSection
    BY <1>1, <1>2
  <2> QED
    BY <2>1 DEF Holder
<1>3. CASE InSection \cap S # {}
  <2>1. PICK c \in InSection : c \in S
    BY <1>3
  <2>2. InSection = {c} /\ c \in Commands
    BY DEF InSection, LockInv, BusInv, SectionOwns, Commands
  <2>3. InSection' = {}
    BY <1>1, <2>1, <2>2
  <2> QED
    BY <2>2, <2>3 DEF M!Next, M!Release, Holder
<1> QED
  BY <1>2, <1>3

LEMMA StepRefines == LockInv /\ LockInv' /\ [Next]_vars => [M!Next]_Holder
<1> SUFFICES ASSUME LockInv, LockInv', [Next]_vars PROVE [M!Next]_Holder
  OBVIOUS
<1> USE DbusLockAssumption DEF GoTo
<1>1. ASSUME NEW t \in Threads, NEW l, pc' = [pc EXCEPT ![t] = l],
             t \in Commands => l # "section"
      PROVE  [M!Next]_Holder
  <2> DEFINE S == {t}
  <2>1. S \in SUBSET Threads /\ \A u \in S, v \in S \cap Commands : u = v
    OBVIOUS
  <2>2. /\ \A u \in Threads \ S : pc'[u] = pc[u]
        /\ \A u \in S \cap Commands : pc'[u] # "section"
    BY <1>1 DEF LockInv, TypeOK
  <2> HIDE DEF S
  <2> QED
    BY <2>1, <2>2, OthersRefine
<1>2. ASSUME NEW t \in Threads, LockOrWait(t) \/ Unlock(t) PROVE [M!Next]_Holder
  <2>1. PICK l : pc' = [pc EXCEPT ![t] = l]
    BY <1>2 DEF LockOrWait, Unlock, CheckLocked, BecomeOwner, Enqueue, Refused, Listen,
                Acquire, UnlockSkips, ReleaseName, ClearLocked
  <2> QED
    BY <1>1, <2>1, EnterRefines
<1>3. ASSUME NEW p \in Processes, Exit(p) PROVE [M!Next]_Holder
  <2> DEFINE S == {t \in Threads : ProcessOf[t] = p}
  <2>1. \A t \in S, u \in S \cap Commands : t = u
    BY DEF Commands
  <2>2. /\ \A t \in Threads \ S : pc'[t] = pc[t]
        /\ \A t \in S \cap Commands : pc'[t] # "section"
    BY <1>3 DEF Exit
  <2> QED
    BY <2>1, <2>2, OthersRefine
<1>4. CASE UNCHANGED <<pc>>
  BY <1>4 DEF Holder, InSection
<1>5. ASSUME NEW p \in Processes, Deliver(p) PROVE UNCHANGED <<pc>>
  BY <1>5 DEF Deliver
<1> QED
  BY <1>2, <1>3, <1>4, <1>5 DEF Next, vars

(* DbusLock implements Mutex: every step of a command or of the bus takes  *)
(* the abstract lock, releases it or leaves it alone.                      *)
THEOREM Refinement == Spec => MutexSpec
<1>1. Init => M!Init
  <2>1. Init => InSection = {}
    BY DEF Init, InSection, Commands
  <2> QED
    BY <2>1 DEF M!Init, Holder
<1> QED
  BY <1>1, LockInvInvariant, StepRefines, PTL DEF Spec, MutexSpec, M!Spec
=============================================================================
