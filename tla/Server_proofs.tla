---------------------------- MODULE Server_proofs ----------------------------
(***************************************************************************)
(* A server that only runs the update timer and the command exclude each   *)
(* other, for any source and whatever fails.                               *)
(***************************************************************************)
EXTENDS Server, TLAPS

Alone == on = {"sync", "command"}

(* As much of the types as the proof needs.                                *)
Shape ==
    /\ DOMAIN run = Threads /\ \A t \in Threads : "at" \in DOMAIN run[t]
    /\ locked \in [Processes -> BOOLEAN]
    /\ closed \in BOOLEAN /\ interrupted \in BOOLEAN

(* The goroutines that are not on never do anything.                       *)
OthersOff == \A t \in {"plan", "hook", "socket"} : At(t, "off")

(* Between two servers no goroutine is left: a new one starts with a clean *)
(* lock, whatever the one before it was doing.                             *)
OffWhenDown == status # "up" => At("sync", "off")

(* The flag is set by the one thread of a process inside its section only, *)
(* so that its next LockOrWait asks the kernel.                            *)
FlagInside ==
    /\ locked["server"] => At("sync", "section")
    /\ locked["command"] => At("command", "section")

(* Only an interrupted server loses its lock file.                         *)
ClosedLate == closed => interrupted /\ status = "up" /\ ~locked["server"]

(* Who is in a section owns the kernel's lock, unless an interrupted wait  *)
(* let it in.                                                              *)
SectionOwns ==
    /\ At("command", "section") => owner = "command"
    /\ At("sync", "section") /\ ~interrupted => owner = "server"

AloneInv ==
    Alone => OthersOff /\ OffWhenDown /\ FlagInside /\ ClosedLate /\ SectionOwns

ExclusionInv == Shape /\ AloneInv

-----------------------------------------------------------------------------
(* Whoever fails is not in a section any more.                             *)
LEMMA FallenOutside ==
  ASSUME NEW t
  PROVE  "at" \in DOMAIN Fallen(t) /\ Fallen(t).at # "section"
<1>1. CASE t = "socket"
  BY <1>1 DEF Fallen, Resting
<1>2. CASE t = "command"
  BY <1>2 DEF Fallen, Resting
<1>3. CASE t \notin {"socket", "command"}
  BY <1>3 DEF Fallen, Resting
<1> QED
  BY <1>1, <1>2, <1>3

(* A plan or an execution that ends leaves its section and, with the flag, *)
(* the lock.                                                               *)
LEMMA LeavesSection ==
  ASSUME ExclusionInv, NEW t \in Threads, At(t, "section"), NEW r,
         "at" \in DOMAIN r, r.at # "section", run' = [run EXCEPT ![t] = r],
         Unlock(t), UNCHANGED mode
  PROVE  ExclusionInv'
<1> USE ServerAssumption
    DEF ExclusionInv, Shape, AloneInv, Alone, OthersOff, OffWhenDown, FlagInside, ClosedLate,
        SectionOwns, At, Threads, Timers, Handlers, Processes, ProcessOf, lock, mode
<1>1. Shape'
  <2>1. DOMAIN run' = Threads /\ \A u \in Threads : "at" \in DOMAIN run'[u]
    OBVIOUS
  <2>2. closed' = closed
    BY DEF Unlock
  <2>3. locked' = locked \/ locked' = [locked EXCEPT ![ProcessOf(t)] = FALSE]
    BY Zenon DEF Unlock
  <2>4. locked' \in [Processes -> BOOLEAN]
    <3> HIDE DEF Processes, ProcessOf
    <3> QED
      BY <2>3 DEF Shape
  <2> QED
    BY <2>1, <2>2, <2>4
<1>2. ASSUME Alone' PROVE t \in {"sync", "command"}
  BY <1>2
<1>3. ASSUME Alone', t = "sync" PROVE AloneInv'
  BY <1>3 DEF Unlock, Closed
<1>4. ASSUME Alone', t = "command" PROVE AloneInv'
  BY <1>4 DEF Unlock, Closed
<1> QED
  BY <1>1, <1>2, <1>3, <1>4

(* What changes but the place of a goroutine does not matter.              *)
LEMMA StaysThere ==
  ASSUME ExclusionInv, NEW t \in Threads, NEW r,
         "at" \in DOMAIN r, r.at = run[t].at, run' = [run EXCEPT ![t] = r],
         UNCHANGED <<lock, mode>>
  PROVE  ExclusionInv'
  BY DEF ExclusionInv, Shape, AloneInv, Alone, OthersOff, OffWhenDown, FlagInside, ClosedLate,
         SectionOwns, At, Threads, Timers, Handlers, Processes, lock, mode

LEMMA ExclusionInit == Init => ExclusionInv
<1> SUFFICES ASSUME Init PROVE ExclusionInv
  OBVIOUS
<1>1. \A t \in Threads : run[t] = Resting("off")
  BY DEF Init
<1>2. Shape
  BY DEF Init, Shape, Resting, Processes
<1>3. AloneInv
  BY <1>1 DEF Init, Resting, AloneInv, OthersOff, OffWhenDown, FlagInside, ClosedLate,
              SectionOwns, At, Threads, Timers, Handlers, Processes
<1> QED
  BY <1>2, <1>3 DEF ExclusionInv

LEMMA ExclusionStep == ExclusionInv /\ [Next]_vars => ExclusionInv'
<1> SUFFICES ASSUME ExclusionInv, [Next]_vars PROVE ExclusionInv'
  OBVIOUS
<1> USE ServerAssumption
    DEF ExclusionInv, Shape, AloneInv, Alone, OthersOff, OffWhenDown, FlagInside, ClosedLate,
        SectionOwns, At, In, GoTo, Rest, Resting, Threads, Timers, Handlers, Processes,
        ProcessOf, lock, mode
<1>1. CASE Start
  <2>1. Shape'
    BY <1>1 DEF Start
  <2>2. ASSUME Alone' PROVE ~At("sync", "section") /\ ~locked["server"] /\ ~closed
    BY <1>1, <2>2 DEF Start
  <2>3. ASSUME Alone' PROVE run'["sync"] = Resting("idle") /\ \A t \in Threads \ {"sync"} : run'[t] = run[t]
    BY <1>1, <2>3 DEF Start
  <2>4. AloneInv'
    BY <1>1, <2>2, <2>3 DEF Start
  <2> QED
    BY <2>1, <2>4
<1>2. CASE StartUnannounced
  BY <1>2 DEF StartUnannounced
<1>3. CASE Command
  BY <1>3 DEF Command
<1>4. CASE Push
  BY <1>4 DEF Push
<1>5. CASE Interrupt
  BY <1>5 DEF Interrupt
<1>6. CASE TickSync
  BY <1>6 DEF TickSync
<1>7. CASE TickPlan
  BY <1>7 DEF TickPlan
<1>8. CASE Hook
  BY <1>8 DEF Hook, Request
<1>9. CASE SocketSync \/ SocketPlan
  BY <1>9 DEF SocketSync, SocketPlan, Request
<1>10. CASE ListenEnds
  BY <1>10 DEF ListenEnds
<1>11. CASE RunServerReturns
  BY <1>11 DEF RunServerReturns, ServerEnds
<1>12. CASE CommandExits
  BY <1>12 DEF CommandExits
<1>13. ASSUME NEW t \in Threads, EnterFlagged(t) PROVE ExclusionInv'
  BY <1>13 DEF EnterFlagged
<1>14. ASSUME NEW t \in Threads, EnterFree(t) PROVE ExclusionInv'
  BY <1>14 DEF EnterFree, FlockFree, Closed
<1>15. ASSUME NEW t \in Threads, WouldBlock(t) PROVE ExclusionInv'
  BY <1>15 DEF WouldBlock
<1>16. ASSUME NEW t \in Threads, LockFails(t) PROVE ExclusionInv'
  BY <1>16, FallenOutside DEF LockFails
<1>17. ASSUME NEW t \in Threads, Granted(t) PROVE ExclusionInv'
  BY <1>17 DEF Granted, FlockFree, Closed
<1>18. ASSUME NEW t \in Threads, Cancelled(t) PROVE ExclusionInv'
  <2>1. Shape'
    BY <1>18, FallenOutside DEF Cancelled
  <2>2. ASSUME Alone' PROVE t = "sync" /\ ~locked["server"] /\ status = "up"
    BY <1>18, <2>2 DEF Cancelled
  <2>3. AloneInv'
    BY <1>18, <2>2, FallenOutside DEF Cancelled
  <2> QED
    BY <2>1, <2>3
<1>19. ASSUME NEW t \in Threads, ReadHost(t) \/ ReadSource(t) PROVE ExclusionInv'
  <2>1. CASE ReadHost(t)
    <3> DEFINE r == [run[t] EXCEPT !.seen = host]
    <3>1. "at" \in DOMAIN r /\ r.at = run[t].at
      OBVIOUS
    <3>2. run' = [run EXCEPT ![t] = r] /\ UNCHANGED <<lock, mode>>
      BY <2>1 DEF ReadHost
    <3> HIDE DEF r
    <3> QED
      BY <3>1, <3>2, StaysThere
  <2>2. CASE ReadSource(t)
    <3>1. PICK c \in Assigned(t) \ DOMAIN run[t].read :
             run' = [run EXCEPT ![t].read = [d \in DOMAIN @ \cup {c} |->
                        IF d = c THEN ContentIn[cache][c] ELSE @[d]]]
      BY <2>2 DEF ReadSource
    <3> DEFINE r == [run[t] EXCEPT !.read = [d \in DOMAIN @ \cup {c} |->
                        IF d = c THEN ContentIn[cache][c] ELSE @[d]]]
    <3>2. "at" \in DOMAIN r /\ r.at = run[t].at
      OBVIOUS
    <3>3. run' = [run EXCEPT ![t] = r]
      BY <3>1
    <3>4. UNCHANGED <<lock, mode>>
      BY <2>2 DEF ReadSource
    <3> HIDE DEF r
    <3> QED
      BY <3>2, <3>3, <3>4, StaysThere
  <2> QED
    BY <1>19, <2>1, <2>2
<1>20. ASSUME NEW t \in Threads, Step(t) PROVE ExclusionInv'
  <2>1. PICK s \in run[t].steps : run' = [run EXCEPT ![t].steps = @ \ {s}]
    BY <1>20 DEF Step
  <2> DEFINE r == [run[t] EXCEPT !.steps = @ \ {s}]
  <2>2. "at" \in DOMAIN r /\ r.at = run[t].at
    OBVIOUS
  <2>3. run' = [run EXCEPT ![t] = r]
    BY <2>1
  <2>4. UNCHANGED <<lock, mode>>
    BY <1>20 DEF Step
  <2> HIDE DEF r
  <2> QED
    BY <2>2, <2>3, <2>4, StaysThere
<1>21. ASSUME NEW t \in Threads, Planned(t) PROVE ExclusionInv'
  <2> DEFINE next == [Resting("lock") EXCEPT
                         !.for = "execute", !.steps = StepsOf(run[t].seen, run[t].read)]
  <2>1. CASE run[t].executes
    <3>1. "at" \in DOMAIN next /\ next.at # "section"
      OBVIOUS
    <3>2. run' = [run EXCEPT ![t] = next]
      BY <1>21, <2>1 DEF Planned
    <3> HIDE DEF next
    <3> QED
      BY <1>21, <3>1, <3>2, LeavesSection DEF Planned
  <2> DEFINE rest == Resting("idle")
  <2>2. CASE ~run[t].executes
    <3>1. "at" \in DOMAIN rest /\ rest.at # "section"
      OBVIOUS
    <3>2. run' = [run EXCEPT ![t] = rest]
      BY <1>21, <2>2 DEF Planned
    <3> HIDE DEF rest
    <3> QED
      BY <1>21, <3>1, <3>2, LeavesSection DEF Planned
  <2> QED
    BY <2>1, <2>2
<1>22. ASSUME NEW t \in Threads, StaleStep(t) PROVE ExclusionInv'
  BY <1>22, FallenOutside, LeavesSection DEF StaleStep
<1>23. ASSUME NEW t \in Threads, SectionFails(t) PROVE ExclusionInv'
  BY <1>23, FallenOutside, LeavesSection DEF SectionFails, Fails
<1>24. ASSUME NEW t \in Threads, Executed(t) PROVE ExclusionInv'
  <2> DEFINE rest == Resting(IF t = "command" THEN "exit" ELSE "idle")
  <2>1. "at" \in DOMAIN rest /\ rest.at # "section"
    OBVIOUS
  <2>2. run' = [run EXCEPT ![t] = rest]
    BY <1>24 DEF Executed
  <2> HIDE DEF rest
  <2> QED
    BY <1>24, <2>1, <2>2, LeavesSection DEF Executed
<1>25. ASSUME NEW t \in Threads, SyncFails(t) PROVE ExclusionInv'
  <2>1. run' = [run EXCEPT ![t] = Fallen(t)]
    BY <1>25 DEF SyncFails, Fails
  <2>2. ~At(t, "section") /\ ~At(t, "off") /\ UNCHANGED <<lock, mode>>
    BY <1>25 DEF SyncFails
  <2> QED
    BY <2>1, <2>2, FallenOutside
<1>26. ASSUME NEW t \in Threads, Reported(t) PROVE ExclusionInv'
  BY <1>26 DEF Reported
<1>27. ASSUME NEW t \in Threads, FatalReport(t) PROVE ExclusionInv'
  BY <1>27 DEF FatalReport, ServerEnds
<1>28. ASSUME NEW t \in Threads, TimerEnds(t) PROVE ExclusionInv'
  BY <1>28 DEF TimerEnds
<1>29. CASE UNCHANGED vars
  BY <1>29 DEF vars
<1> QED
  BY <1>1, <1>2, <1>3, <1>4, <1>5, <1>6, <1>7, <1>8, <1>9, <1>10, <1>11, <1>12, <1>13,
     <1>14, <1>15, <1>16, <1>17, <1>18, <1>19, <1>20, <1>21, <1>22, <1>23, <1>24, <1>25,
     <1>26, <1>27, <1>28, <1>29
  DEF Next, LockOrWait, Work

(* The update timer and the command are never both in a section before the *)
(* server is interrupted (pkg/lock/file.go:49): each asks the kernel.      *)
THEOREM TimerExclusion == Spec => []TimerExcludesCommand
<1>1. ExclusionInv => TimerExcludesCommand
  BY DEF ExclusionInv, AloneInv, Alone, SectionOwns, TimerExcludesCommand
<1> QED
  BY <1>1, ExclusionInit, ExclusionStep, PTL DEF Spec
=============================================================================
