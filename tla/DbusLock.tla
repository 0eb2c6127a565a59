------------------------------ MODULE DbusLock ------------------------------
(***************************************************************************)
(* The D-Bus lock (lock = "dbus"): who owns a well-known bus name holds    *)
(* the lock.  A process has one connection, which its threads share with   *)
(* the `locked` flag; each Plan and each Execute is one section, as in     *)
(* module FileLock.  The bus and the client library (godbus) are external. *)
(***************************************************************************)
EXTENDS Naturals, Sequences

CONSTANTS
    Threads, Processes,
    ProcessOf,    \* [Threads -> Processes]
    NoProcess,    \* nobody owns the name
    MaxSections   \* bound: sections each thread runs

ASSUME DbusLockAssumption ==
    /\ ProcessOf \in [Threads -> Processes]
    /\ NoProcess \notin Processes \cup Threads
    /\ MaxSections \in Nat

VARIABLES
    pc,        \* where each thread is
    sections,  \* how many sections each thread has begun
    locked,    \* DbusLock.locked of each process
    owner,     \* the process whose connection owns the name
    queue,     \* the processes the bus has queued for it
    signals,   \* how many NameAcquired signals are on their way to each process
    heard      \* threads with a NameAcquired signal in their channel

vars == <<pc, sections, locked, owner, queue, signals, heard>>

bus == <<owner, queue, signals>>

Init ==
    /\ pc = [t \in Threads |-> "idle"]
    /\ sections = [t \in Threads |-> 0]
    /\ locked = [p \in Processes |-> FALSE]
    /\ owner = NoProcess /\ queue = <<>> /\ heard = {}
    /\ signals = [p \in Processes |-> 0]

GoTo(t, l) == pc' = [pc EXCEPT ![t] = l]

Queued(p) == \E i \in DOMAIN queue : queue[i] = p

Listeners(p) == {t \in Threads : ProcessOf[t] = p /\ pc[t] = "listening"}

-----------------------------------------------------------------------------
(* The bus gives a name that p lets go to the first in the queue.  A       *)
(* process is in the queue once, and not while it owns the name.           *)
Place(p) == CHOOSE i \in DOMAIN queue : queue[i] = p

Others(p) ==
    IF Queued(p)
    THEN [i \in 1..(Len(queue) - 1) |-> queue[IF i < Place(p) THEN i ELSE i + 1]]
    ELSE queue

LetGo(p) ==
    IF owner # p \/ queue = <<>>
    THEN /\ owner' = IF owner = p THEN NoProcess ELSE owner
         /\ queue' = Others(p)
         /\ signals' = signals
    ELSE /\ owner' = Head(queue)
         /\ queue' = Tail(queue)
         /\ signals' = [signals EXCEPT ![Head(queue)] = @ + 1]

(* A signal goes to the channels registered when it comes; without one it  *)
(* is dropped.                                                             *)
Deliver(p) ==
    /\ signals[p] > 0
    /\ signals' = [signals EXCEPT ![p] = @ - 1]
    /\ heard' = heard \cup Listeners(p)
    /\ UNCHANGED <<pc, sections, locked, owner, queue>>

-----------------------------------------------------------------------------
(* LockOrWait *)

CheckLocked(t) ==
    /\ pc[t] = "idle"
    /\ sections[t] < MaxSections
    /\ sections' = [sections EXCEPT ![t] = @ + 1]
    /\ GoTo(t, IF locked[ProcessOf[t]] THEN "section" ELSE "asking")
    /\ UNCHANGED <<locked, bus, heard>>

(* RequestName with reply PrimaryOwner; the signal comes before the reply. *)
BecomeOwner(t) ==
    LET p == ProcessOf[t] IN
    /\ pc[t] = "asking"
    /\ owner = NoProcess
    /\ owner' = p
    /\ heard' = heard \cup Listeners(p)
    /\ locked' = [locked EXCEPT ![p] = TRUE]
    /\ GoTo(t, "section")
    /\ UNCHANGED <<sections, queue, signals>>

(* Mutant: NameFlagDoNotQueue is passed.                                   *)
WaitUnqueued(t) ==
    /\ pc[t] = "asking" /\ owner \notin {NoProcess, ProcessOf[t]}
    /\ GoTo(t, "queued")
    /\ UNCHANGED <<sections, locked, bus, heard>>

(* Reply InQueue *)
Enqueue(t) ==
    LET p == ProcessOf[t] IN
    /\ pc[t] = "asking"
    /\ owner \notin {NoProcess, p}
    /\ queue' = IF Queued(p) THEN queue ELSE Append(queue, p)
    /\ GoTo(t, "queued")
    /\ UNCHANGED <<sections, locked, owner, signals, heard>>

(* Reply AlreadyOwner: an error. *)
Refused(t) ==
    /\ pc[t] = "asking"
    /\ owner = ProcessOf[t]
    /\ GoTo(t, "idle")
    /\ UNCHANGED <<sections, locked, bus, heard>>

(* conn.Signal(signals) *)
Listen(t) ==
    /\ pc[t] = "queued"
    /\ GoTo(t, "listening")
    /\ UNCHANGED <<sections, locked, bus, heard>>

(* Mutant: a signal of any name is taken for NameAcquired.                 *)
AcquireOnAnySignal(t) ==
    /\ pc[t] = "listening"
    /\ locked' = [locked EXCEPT ![ProcessOf[t]] = TRUE]
    /\ GoTo(t, "section")
    /\ UNCHANGED <<sections, bus, heard>>

(* The context is not looked at while no signal comes.                     *)
Acquire(t) ==
    /\ pc[t] = "listening"
    /\ t \in heard
    /\ heard' = heard \ {t}
    /\ locked' = [locked EXCEPT ![ProcessOf[t]] = TRUE]
    /\ GoTo(t, "section")
    /\ UNCHANGED <<sections, bus>>

-----------------------------------------------------------------------------
(* Unlock *)

UnlockSkips(t) ==
    /\ pc[t] = "section"
    /\ ~locked[ProcessOf[t]]
    /\ GoTo(t, "idle")
    /\ UNCHANGED <<sections, locked, bus, heard>>

(* Mutant: the name is kept.                                               *)
KeepName(t) ==
    /\ pc[t] = "section" /\ locked[ProcessOf[t]]
    /\ GoTo(t, "released")
    /\ UNCHANGED <<sections, locked, bus, heard>>

ReleaseName(t) ==
    /\ pc[t] = "section"
    /\ locked[ProcessOf[t]]
    /\ LetGo(ProcessOf[t])
    /\ GoTo(t, "released")
    /\ UNCHANGED <<sections, locked, heard>>

ClearLocked(t) ==
    /\ pc[t] = "released"
    /\ locked' = [locked EXCEPT ![ProcessOf[t]] = FALSE]
    /\ GoTo(t, "idle")
    /\ UNCHANGED <<sections, bus, heard>>

(* A process ends, by Close or by a crash: its connection is closed.       *)
Exit(p) ==
    /\ \E t \in Threads : ProcessOf[t] = p /\ pc[t] # "exited"
    /\ pc' = [t \in Threads |-> IF ProcessOf[t] = p THEN "exited" ELSE pc[t]]
    /\ LetGo(p)
    /\ locked' = [locked EXCEPT ![p] = FALSE]
    /\ heard' = {t \in heard : ProcessOf[t] # p}
    /\ UNCHANGED sections

LockOrWait(t) == CheckLocked(t) \/ BecomeOwner(t) \/ Enqueue(t) \/ Refused(t)
                    \/ Listen(t) \/ Acquire(t)

Unlock(t) == UnlockSkips(t) \/ ReleaseName(t) \/ ClearLocked(t)

Next ==
    \/ \E t \in Threads : LockOrWait(t) \/ Unlock(t)
    \/ \E p \in Processes : Deliver(p) \/ Exit(p)

Spec == Init /\ [][Next]_vars

(* A thread that began a section goes on, the bus delivers; beginning a    *)
(* section and ending a process are up to the environment.                 *)
FairSpec ==
    /\ Spec
    /\ \A t \in Threads :
        /\ WF_vars(BecomeOwner(t) \/ Enqueue(t) \/ Refused(t))
        /\ WF_vars(Listen(t)) /\ WF_vars(Acquire(t)) /\ WF_vars(Unlock(t))
    /\ \A p \in Processes : WF_vars(Deliver(p))

-----------------------------------------------------------------------------
(* Properties *)

TypeOK ==
    /\ pc \in [Threads -> {"idle", "asking", "queued", "listening", "section",
                           "released", "exited"}]
    /\ sections \in [Threads -> 0..MaxSections]
    /\ locked \in [Processes -> BOOLEAN]
    /\ owner \in Processes \cup {NoProcess}
    /\ queue \in Seq(Processes) /\ signals \in [Processes -> Nat]
    /\ heard \subseteq Threads

(* The command line: a process with one thread.                            *)
Commands == {t \in Threads : \A u \in Threads : ProcessOf[u] = ProcessOf[t] => u = t}

(* The plans and executions of two commands do not overlap, whatever the   *)
(* interleaving with the bus, its signals, and threads that share a lock.  *)
OneCommandAtATime ==
    \A t, u \in Commands : pc[t] = "section" /\ pc[u] = "section" => t = u

InSection == {t \in Commands : pc[t] = "section"}

Holder == IF InSection = {} THEN NoProcess ELSE CHOOSE t \in InSection : TRUE

M == INSTANCE Mutex WITH Callers <- Commands, Nobody <- NoProcess, holder <- Holder

(* Between commands the name is a mutual exclusion object.                 *)
MutexSpec == M!Spec

(* A command that waits is one the bus will hand the name to, or has.      *)
WaitersQueued ==
    \A t \in Commands : pc[t] \in {"queued", "listening"} =>
        Queued(ProcessOf[t]) \/ owner = ProcessOf[t]

(* A command that listens for its turn gets it, unless it is ended or one  *)
(* that is no command keeps the name for ever.                             *)
Waits(t) ==
    \/ <>[](\A u \in Commands : owner \notin {NoProcess, ProcessOf[u]})
    \/ pc[t] = "listening" ~> pc[t] \in {"section", "exited"}

CommandEnters == \A t \in Commands : Waits(t)

(* So it does if the bus never hands over the name between the reply that  *)
(* queues a command and the call that registers its channel.               *)
HandedInTime ==
    [](\A t \in Commands : pc[t] = "queued" => owner # ProcessOf[t])

EntersIfInTime == HandedInTime => CommandEnters
=============================================================================
