------------------------------ MODULE FileLock ------------------------------
(***************************************************************************)
(* The file lock (lock = "file") as its callers use it.  A Materia process *)
(* opens the lock file once and its threads (in server mode the background *)
(* update, the background plan, varlink and webhook handlers) share the    *)
(* FileLock, so its file descriptor and its `locked` flag are per process. *)
(* Each of Materia.Plan and Materia.Execute is one section: LockOrWait,    *)
(* the work, Unlock.                                                       *)
(***************************************************************************)
EXTENDS Naturals

CONSTANTS
    Threads, Processes,
    ProcessOf,    \* [Threads -> Processes]
    NoProcess,    \* the kernel lock is free
    Cancellable,  \* threads whose context can be cancelled while they wait
    MaxSections   \* bound: sections each thread runs

ASSUME FileLockAssumption ==
    /\ ProcessOf \in [Threads -> Processes]
    /\ NoProcess \notin Processes \cup Threads
    /\ Cancellable \subseteq Threads
    /\ MaxSections \in Nat

VARIABLES
    pc,        \* where each thread is
    sections,  \* how many sections each thread has begun
    locked,    \* FileLock.locked of each process
    closed,    \* FileLock.f was closed
    owner      \* the process whose open file holds the kernel's flock

vars == <<pc, sections, locked, closed, owner>>

Init ==
    /\ pc = [t \in Threads |-> "idle"]
    /\ sections = [t \in Threads |-> 0]
    /\ locked = [p \in Processes |-> FALSE]
    /\ closed = [p \in Processes |-> FALSE]
    /\ owner = NoProcess

(* The kernel's lock can be taken through the open file of p.              *)
FlockFree(p) == owner \in {NoProcess, p}

GoTo(t, l) == pc' = [pc EXCEPT ![t] = l]

-----------------------------------------------------------------------------
(* LockOrWait *)

(* `if f.locked { return nil }`: whoever holds the lock, the same process   *)
(* is let in again.                                                        *)
CheckLocked(t) ==
    /\ pc[t] = "idle"
    /\ sections[t] < MaxSections
    /\ sections' = [sections EXCEPT ![t] = @ + 1]
    /\ GoTo(t, IF locked[ProcessOf[t]] THEN "section" ELSE "try")
    /\ UNCHANGED <<locked, closed, owner>>

(* flock(LOCK_EX|LOCK_NB): also succeeds when this open file has the lock. *)
TryFlock(t) ==
    LET p == ProcessOf[t] IN
    /\ pc[t] = "try"
    /\ ~closed[p]
    /\ FlockFree(p)
    /\ owner' = p
    /\ locked' = [locked EXCEPT ![p] = TRUE]
    /\ GoTo(t, "section")
    /\ UNCHANGED <<sections, closed>>

WouldBlock(t) ==
    LET p == ProcessOf[t] IN
    /\ pc[t] = "try"
    /\ ~closed[p]
    /\ ~FlockFree(p)
    /\ GoTo(t, "waiting")
    /\ UNCHANGED <<sections, locked, closed, owner>>

(* EBADF once a cancelled wait has closed the file: Plan or Execute fails. *)
FlockFails(t) ==
    /\ pc[t] = "try"
    /\ closed[ProcessOf[t]]
    /\ GoTo(t, "idle")
    /\ UNCHANGED <<sections, locked, closed, owner>>

(* Mutant: it does not wait.                                               *)
GrantedAtOnce(t) ==
    /\ pc[t] = "waiting"
    /\ GoTo(t, "section")
    /\ UNCHANGED <<sections, locked, closed, owner>>

(* The blocking flock returns and so does LockOrWait, which leaves         *)
(* f.locked as it was.  If the file was closed meanwhile, the kernel drops *)
(* the lock with the last reference to it.                                 *)
Granted(t) ==
    LET p == ProcessOf[t] IN
    /\ pc[t] = "waiting"
    /\ FlockFree(p)
    /\ owner' = IF closed[p] THEN owner ELSE p
    /\ GoTo(t, "section")
    /\ UNCHANGED <<sections, locked, closed>>

(* ctx.Done(): the file is closed and the result of Close, nil, returned.  *)
Cancel(t) ==
    LET p == ProcessOf[t] IN
    /\ pc[t] = "waiting"
    /\ t \in Cancellable
    /\ IF closed[p]
       THEN GoTo(t, "idle") /\ UNCHANGED closed  \* "file already closed"
       ELSE GoTo(t, "section") /\ closed' = [closed EXCEPT ![p] = TRUE]
    /\ owner' = IF owner = p THEN NoProcess ELSE owner
    /\ UNCHANGED <<sections, locked>>

-----------------------------------------------------------------------------
(* Unlock *)

UnlockSkips(t) ==
    /\ pc[t] = "section"
    /\ ~locked[ProcessOf[t]]
    /\ GoTo(t, "idle")
    /\ UNCHANGED <<sections, locked, closed, owner>>

FlockUnlock(t) ==
    LET p == ProcessOf[t] IN
    /\ pc[t] = "section"
    /\ locked[p]
    /\ IF closed[p]
       THEN GoTo(t, "idle") /\ UNCHANGED owner   \* EBADF: logged by unlock()
       ELSE /\ owner' = IF owner = p THEN NoProcess ELSE owner
            /\ GoTo(t, "unlocked")
    /\ UNCHANGED <<sections, locked, closed>>

ClearLocked(t) ==
    /\ pc[t] = "unlocked"
    /\ locked' = [locked EXCEPT ![ProcessOf[t]] = FALSE]
    /\ GoTo(t, "idle")
    /\ UNCHANGED <<sections, closed, owner>>

-----------------------------------------------------------------------------
(* A process ends, by Close or by a crash: the kernel releases its lock.   *)
(* Mutant: it does not.                                                    *)
ExitKeepsLock(p) ==
    /\ \E t \in Threads : ProcessOf[t] = p /\ pc[t] # "exited"
    /\ pc' = [t \in Threads |-> IF ProcessOf[t] = p THEN "exited" ELSE pc[t]]
    /\ closed' = [closed EXCEPT ![p] = TRUE]
    /\ UNCHANGED <<sections, locked, owner>>

Exit(p) ==
    /\ \E t \in Threads : ProcessOf[t] = p /\ pc[t] # "exited"
    /\ pc' = [t \in Threads |-> IF ProcessOf[t] = p THEN "exited" ELSE pc[t]]
    /\ owner' = IF owner = p THEN NoProcess ELSE owner
    /\ closed' = [closed EXCEPT ![p] = TRUE]
    /\ UNCHANGED <<sections, locked>>

LockOrWait(t) == CheckLocked(t) \/ TryFlock(t) \/ WouldBlock(t) \/ FlockFails(t)
                    \/ Granted(t) \/ Cancel(t)

Unlock(t) == UnlockSkips(t) \/ FlockUnlock(t) \/ ClearLocked(t)

Next ==
    \/ \E t \in Threads : LockOrWait(t) \/ Unlock(t)
    \/ \E p \in Processes : Exit(p)

Spec == Init /\ [][Next]_vars

(* A thread that can go on does, once it has begun a section; the kernel   *)
(* grants a free lock to a waiter.  Beginning another section, cancelling  *)
(* and exiting are up to the environment: a server sits idle for its whole *)
(* interval.                                                               *)
ServerSpec ==
    /\ Spec
    /\ \A t \in Threads :
        /\ WF_vars(TryFlock(t) \/ WouldBlock(t) \/ FlockFails(t))
        /\ WF_vars(Granted(t))
        /\ WF_vars(Unlock(t))

(* Where the lock works: a process with one thread (the command line)      *)
(* whose wait is not cancelled.                                            *)
Commands ==
    {t \in Threads \ Cancellable : \A u \in Threads : ProcessOf[u] = ProcessOf[t] => u = t}

(* A command such as `materia update` runs its sections and then ends.     *)
Finish(t) ==
    /\ pc[t] = "idle" /\ sections[t] = MaxSections
    /\ Exit(ProcessOf[t])

FairSpec ==
    /\ ServerSpec
    /\ \A t \in Commands : WF_vars(CheckLocked(t)) /\ WF_vars(Finish(t))

-----------------------------------------------------------------------------
(* Properties *)

TypeOK ==
    /\ pc \in [Threads -> {"idle", "try", "waiting", "section", "unlocked", "exited"}]
    /\ sections \in [Threads -> 0..MaxSections]
    /\ locked \in [Processes -> BOOLEAN]
    /\ closed \in [Processes -> BOOLEAN]
    /\ owner \in Processes \cup {NoProcess}

(* LockOrWait and Unlock keep the plans and executions of two commands     *)
(* apart, whatever the interleaving, whoever crashes and whatever threads  *)
(* that share a lock or cancel a wait do beside them.                      *)
OneCommandAtATime ==
    \A t, u \in Commands : pc[t] = "section" /\ pc[u] = "section" => t = u

(* Between commands the lock is a mutual exclusion object.                 *)
InSection == {t \in Commands : pc[t] = "section"}

Holder == IF InSection = {} THEN NoProcess ELSE CHOOSE t \in InSection : TRUE

M == INSTANCE Mutex WITH Callers <- Commands, Nobody <- NoProcess, holder <- Holder

MutexSpec == M!Spec

(* A command that waits for the lock gets it, unless it is ended or one    *)
(* that is no command keeps the lock for ever.                             *)
CommandEnters ==
    \A t \in Commands :
        \/ <>[](\A u \in Commands : owner \notin {NoProcess, ProcessOf[u]})
        \/ pc[t] = "waiting" ~> pc[t] \in {"section", "exited"}
=============================================================================
