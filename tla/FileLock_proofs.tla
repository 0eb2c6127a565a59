--------------------------- MODULE FileLock_proofs ---------------------------
(***************************************************************************)
(* Between commands the file lock is a mutual exclusion object, for any    *)
(* number of commands and whatever other threads do beside them.           *)
(***************************************************************************)
EXTENDS FileLock, TLAPS

(* No action takes a variable out of its type, whatever the conditions.    *)
THEOREM TypeCorrect == Spec => []TypeOK
<1>1. Init => TypeOK
  BY FileLockAssumption DEF Init, TypeOK
<1>2. TypeOK /\ [Next]_vars => TypeOK'
  <2> SUFFICES ASSUME TypeOK, [Next]_vars PROVE TypeOK'
    OBVIOUS
  <2> USE FileLockAssumption DEF TypeOK, GoTo
  <2>1. ASSUME NEW t \in Threads, CheckLocked(t) PROVE TypeOK'
    BY <2>1 DEF CheckLocked
  <2>2. ASSUME NEW t \in Threads, TryFlock(t) PROVE TypeOK'
    BY <2>2 DEF TryFlock, FlockFree
  <2>3. ASSUME NEW t \in Threads, WouldBlock(t) \/ FlockFails(t) PROVE TypeOK'
    BY <2>3 DEF WouldBlock, FlockFree, FlockFails
  <2>4. ASSUME NEW t \in Threads, Granted(t) PROVE TypeOK'
    BY <2>4 DEF Granted, FlockFree
  <2>5. ASSUME NEW t \in Threads, Cancel(t) PROVE TypeOK'
    BY <2>5 DEF Cancel
  <2>6. ASSUME NEW t \in Threads, Unlock(t) PROVE TypeOK'
    BY <2>6 DEF Unlock, UnlockSkips, FlockUnlock, ClearLocked
  <2>7. ASSUME NEW p \in Processes, Exit(p) PROVE TypeOK'
    BY <2>7 DEF Exit
  <2>8. CASE UNCHANGED vars
    BY <2>8 DEF vars
  <2> QED
    BY <2>1, <2>2, <2>3, <2>4, <2>5, <2>6, <2>7, <2>8 DEF Next, LockOrWait
<1> QED
  BY <1>1, <1>2, PTL DEF Spec

-----------------------------------------------------------------------------
(* Why the lock excludes: a command in a section owns the kernel's lock,   *)
(* through either way LockOrWait has of returning.  That needs its file to *)
(* stay open, and its `locked` flag, which lets a caller in without asking *)
(* the kernel, to be down whenever its only thread is outside.             *)
OpenUntilExit ==
    \A t \in Commands : closed[ProcessOf[t]] => pc[t] = "exited"

SectionOwns ==
    \A t \in Commands : pc[t] = "section" => owner = ProcessOf[t]

FlagInside ==
    \A t \in Commands :
        locked[ProcessOf[t]] => pc[t] \in {"section", "unlocked", "exited"}

LockInv == TypeOK /\ OpenUntilExit /\ SectionOwns /\ FlagInside

LEMMA LockInvInit == Init => LockInv
  BY FileLockAssumption
  DEF Init, LockInv, TypeOK, Commands, OpenUntilExit, SectionOwns, FlagInside

LEMMA LockInvStep == LockInv /\ [Next]_vars => LockInv'
<1> SUFFICES ASSUME LockInv, [Next]_vars PROVE LockInv'
  OBVIOUS
<1> USE FileLockAssumption
    DEF LockInv, TypeOK, OpenUntilExit, SectionOwns, FlagInside,
        Commands, GoTo
<1>1. ASSUME NEW t \in Threads, CheckLocked(t) PROVE LockInv'
  BY <1>1 DEF CheckLocked
<1>2. ASSUME NEW t \in Threads, TryFlock(t) PROVE LockInv'
  BY <1>2 DEF TryFlock, FlockFree
<1>3. ASSUME NEW t \in Threads, WouldBlock(t) \/ FlockFails(t) PROVE LockInv'
  BY <1>3 DEF WouldBlock, FlockFree, FlockFails
<1>4. ASSUME NEW t \in Threads, Granted(t) PROVE LockInv'
  BY <1>4 DEF Granted, FlockFree
<1>5. ASSUME NEW t \in Threads, Cancel(t) PROVE LockInv'
  BY <1>5 DEF Cancel
<1>6. ASSUME NEW t \in Threads, UnlockSkips(t) PROVE LockInv'
  BY <1>6 DEF UnlockSkips
<1>7. ASSUME NEW t \in Threads, FlockUnlock(t) PROVE LockInv'
  BY <1>7 DEF FlockUnlock
<1>8. ASSUME NEW t \in Threads, ClearLocked(t) PROVE LockInv'
  BY <1>8 DEF ClearLocked
<1>9. ASSUME NEW p \in Processes, Exit(p) PROVE LockInv'
  BY <1>9 DEF Exit
<1>10. CASE UNCHANGED vars
  BY <1>10 DEF vars
<1> QED
  BY <1>1, <1>2, <1>3, <1>4, <1>5, <1>6, <1>7, <1>8, <1>9, <1>10
  DEF Next, LockOrWait, Unlock

LEMMA LockInvInvariant == Spec => []LockInv
  BY LockInvInit, LockInvStep, PTL DEF Spec

(* LockOrWait and Unlock keep the sections of two commands apart.          *)
THEOREM Exclusion == Spec => []OneCommandAtATime
<1>1. LockInv => OneCommandAtATime
  BY DEF LockInv, SectionOwns, OneCommandAtATime, Commands
<1> QED
  BY <1>1, LockInvInvariant, PTL

-----------------------------------------------------------------------------
(* Refinement: at most one command is in a section, and it is the holder.   *)

LEMMA OneInSection ==
  ASSUME LockInv, NEW t \in Commands, pc[t] = "section"
  PROVE  InSection = {t}
  BY DEF InSection, Commands, LockInv, SectionOwns

(* Entering a section acquires the abstract lock.                          *)
LEMMA EnterAcquires ==
  ASSUME InSection = {}, NEW t \in Commands, InSection' = {t}
  PROVE  M!Acquire(t)
  BY DEF M!Acquire, Holder

(* Leaving it, by Unlock or with the end of the process, releases it.      *)
LEMMA LeaveReleases ==
  ASSUME NEW t \in Commands, InSection = {t}, InSection' = {}
  PROVE  M!Release(t)
  BY DEF M!Release, Holder

LEMMA StepRefines ==
  LockInv /\ LockInv' /\ [Next]_vars => [M!Next]_Holder
<1> SUFFICES ASSUME LockInv, LockInv', [Next]_vars PROVE [M!Next]_Holder
  OBVIOUS
<1> USE FileLockAssumption DEF LockInv, TypeOK, GoTo
<1>1. ASSUME InSection' = InSection PROVE [M!Next]_Holder
  BY <1>1 DEF Holder
<1>2. ASSUME NEW t \in Commands, pc[t] # "section", pc' = [pc EXCEPT ![t] = "section"],
             owner' = ProcessOf[t], owner \in {NoProcess, ProcessOf[t]}
      PROVE  M!Next
  <2>1. InSection = {}
    BY <1>2 DEF InSection, SectionOwns, Commands
  <2>2. InSection' = {t}
    BY <1>2, <2>1 DEF InSection
  <2> QED
    BY <2>1, <2>2, EnterAcquires DEF M!Next
<1>3. ASSUME NEW t \in Commands, pc[t] = "section", \A u \in Commands : u # t => pc'[u] # "section",
             pc'[t] # "section"
      PROVE  M!Next
  <2>1. InSection = {t}
    BY <1>3, OneInSection
  <2>2. InSection' = {}
    BY <1>3 DEF InSection
  <2> QED
    BY <2>1, <2>2, LeaveReleases DEF M!Next
<1>4. ASSUME NEW t \in Threads \ Commands, NEW l, pc' = [pc EXCEPT ![t] = l]
      PROVE  [M!Next]_Holder
  BY <1>1, <1>4 DEF InSection, Commands
<1>5. ASSUME NEW t \in Commands, CheckLocked(t) PROVE [M!Next]_Holder
  <2>1. pc' = [pc EXCEPT ![t] = "try"] /\ pc[t] = "idle"
    BY <1>5 DEF CheckLocked, FlagInside
  <2> QED
    BY <1>1, <2>1 DEF InSection, Commands
<1>6. ASSUME NEW t \in Commands, TryFlock(t) PROVE [M!Next]_Holder
  BY <1>2, <1>6 DEF TryFlock, FlockFree
<1>7. ASSUME NEW t \in Commands, WouldBlock(t) \/ FlockFails(t) \/ ClearLocked(t)
      PROVE  [M!Next]_Holder
  BY <1>1, <1>7 DEF InSection, WouldBlock, FlockFails, ClearLocked, Commands
<1>8. ASSUME NEW t \in Commands, Granted(t) PROVE [M!Next]_Holder
  BY <1>2, <1>8 DEF Granted, FlockFree, OpenUntilExit
<1>9. ASSUME NEW t \in Commands, UnlockSkips(t) \/ FlockUnlock(t) PROVE [M!Next]_Holder
  <2>1. pc[t] = "section" /\ pc' \in {[pc EXCEPT ![t] = "idle"], [pc EXCEPT ![t] = "unlocked"]}
    BY <1>9 DEF UnlockSkips, FlockUnlock
  <2>2. \A u \in Commands : u # t => pc[u] # "section"
    BY <2>1, OneInSection DEF InSection
  <2> QED
    BY <1>3, <2>1, <2>2 DEF Commands
<1>10. ASSUME NEW t \in Threads, LockOrWait(t) \/ Unlock(t) PROVE [M!Next]_Holder
  <2>1. CASE t \in Commands
    <3>1. ~Cancel(t)
      BY <2>1 DEF Cancel, Commands
    <3> QED
      BY <1>5, <1>6, <1>7, <1>8, <1>9, <1>10, <2>1, <3>1 DEF LockOrWait, Unlock
  <2>2. CASE t \notin Commands
    <3>1. \E l : pc' = [pc EXCEPT ![t] = l]
      BY <1>10 DEF LockOrWait, Unlock, CheckLocked, TryFlock, WouldBlock, FlockFails, Granted,
                   Cancel, UnlockSkips, FlockUnlock, ClearLocked
    <3> QED
      BY <1>4, <2>2, <3>1
  <2> QED
    BY <2>1, <2>2
<1>11. ASSUME NEW p \in Processes, Exit(p) PROVE [M!Next]_Holder
  <2>1. CASE \E t \in Commands : ProcessOf[t] = p /\ pc[t] = "section"
    <3>1. PICK t \in Commands : ProcessOf[t] = p /\ pc[t] = "section"
      BY <2>1
    <3>2. \A u \in Commands : u # t => pc[u] # "section"
      BY <3>1, OneInSection DEF InSection
    <3> QED
      BY <1>3, <1>11, <3>1, <3>2 DEF Exit, Commands
  <2>2. CASE ~ \E t \in Commands : ProcessOf[t] = p /\ pc[t] = "section"
    BY <1>1, <1>11, <2>2 DEF InSection, Exit, Commands
  <2> QED
    BY <2>1, <2>2
<1>12. CASE UNCHANGED vars
  BY <1>1, <1>12 DEF vars, InSection
<1> QED
  BY <1>10, <1>11, <1>12 DEF Next

(* FileLock implements Mutex: every step of the lock acquires it, releases *)
(* it or leaves it alone.                                                  *)
THEOREM Refinement == Spec => MutexSpec
<1>1. Init => M!Init
  <2>1. Init => InSection = {}
    BY DEF Init, InSection, Commands
  <2> QED
    BY <2>1 DEF M!Init, Holder
<1> QED
  BY <1>1, LockInvInvariant, StepRefines, PTL DEF Spec, MutexSpec, M!Spec
=============================================================================
