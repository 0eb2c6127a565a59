-------------------------------- MODULE Server --------------------------------
(***************************************************************************)
(* `materia server` beside a `materia update` started from the shell.  The *)
(* server's goroutines (the update timer, the plan timer, the webhook and  *)
(* the varlink socket) share one Materia: its source directory, the        *)
(* MATERIA.toml it loaded when it started, and one FileLock.  FileLock.tla *)
(* takes the lock's own steps apart; here they are those that a round of a *)
(* goroutine can tell apart.  A component is its content, and the steps of *)
(* its plan are one step, which applies to the host as HostRepository says.*)
(***************************************************************************)
EXTENDS Naturals

CONSTANTS
    Comps,
    LastRevision,    \* bound: the revisions of the remote are 1..LastRevision
    AssignedIn,      \* [revision -> the components its MATERIA.toml assigns]
    ContentIn,       \* [revision -> [Comps -> contents]]
    Configurations,  \* the sets of threads that are on
    Triggers,        \* the events [notify] names a destination for
    NoProcess,       \* the flock is free
    MaxFaults,       \* bound: failures of a sync, a plan, a step, a notification
    MaxRequests,     \* bound: requests to the webhook and the socket
    MaxStarts        \* bound: starts of the server

Revisions == 1..LastRevision
Absent    == 0
Timers    == {"sync", "plan"}
Handlers  == {"hook", "socket"}
Threads   == Timers \cup Handlers \cup {"command"}
Processes == {"server", "command"}

ASSUME ServerAssumption ==
    /\ LastRevision \in Nat \ {0}
    /\ AssignedIn \in [Revisions -> SUBSET Comps]
    /\ ContentIn \in [Revisions -> [Comps -> Nat \ {Absent}]]
    /\ Configurations \subseteq SUBSET Threads
    /\ Triggers \subseteq {"default", "update", "rollback"}
    /\ NoProcess \notin Processes
    /\ MaxFaults \in Nat /\ MaxRequests \in Nat /\ MaxStarts \in Nat

ProcessOf(t) == IF t = "command" THEN "command" ELSE "server"

VARIABLES
    remote,       \* the newest revision of the remote
    cache,        \* the revision in the source directory, which all share
    manifest,     \* [Processes -> the revision whose MATERIA.toml is loaded]
    host,         \* [Comps -> the installed content]
    owner,        \* the process whose open file holds the flock
    locked,       \* [Processes -> FileLock.locked]
    closed,       \* a cancelled wait closed the server's lock file
    on,           \* the goroutines of this server, and the command if it is run
    status,       \* of the server: "off", "up", "ended"
    listening,    \* the socket is open
    interrupted,  \* SIGINT came: the context is cancelled
    run,          \* [Threads -> what the goroutine is doing]
    faults, requests, starts

lock == <<owner, locked, closed>>
mode == <<on, status, listening, interrupted>>
vars == <<remote, cache, manifest, host, lock, mode, run, faults, requests, starts>>

(* for is the section the goroutine is in or wants, executes whether it    *)
(* executes its plan, seen and read are the host and the source components *)
(* as the plan loaded them, steps is what is left of the plan.             *)
Resting(at) ==
    [at |-> at, for |-> "plan", executes |-> TRUE, seen |-> <<>>, read |-> <<>>, steps |-> {}]

Init ==
    /\ remote = 1 /\ cache = 1
    /\ manifest = [p \in Processes |-> 0]
    /\ host = [c \in Comps |-> Absent]
    /\ owner = NoProcess
    /\ locked = [p \in Processes |-> FALSE]
    /\ closed = FALSE
    /\ on \in Configurations
    /\ status = "off" /\ listening = FALSE /\ interrupted = FALSE
    /\ run = [t \in Threads |-> Resting("off")]
    /\ faults = 0 /\ requests = 0 /\ starts = 0

At(t, at) == run[t].at = at

In(t, section) == At(t, "section") /\ run[t].for = section

GoTo(t, at) == run' = [run EXCEPT ![t].at = at]

Rest(t, at) == run' = [run EXCEPT ![t] = Resting(at)]

-----------------------------------------------------------------------------
(* serverMateria and RunServer: sync the source, load MATERIA.toml, say    *)
(* that the server started, and start the goroutines.                      *)
Start ==
    /\ status # "up"
    /\ starts < MaxStarts
    /\ starts' = starts + 1
    /\ cache' = remote
    /\ manifest' = [manifest EXCEPT !["server"] = remote]
    /\ status' = "up" /\ listening' = TRUE /\ interrupted' = FALSE
    /\ run' = [t \in Threads |-> IF t \in on \ {"command"} THEN Resting("idle") ELSE run[t]]
    /\ UNCHANGED <<remote, host, lock, on, faults, requests>>

(* The process is gone, by log.Fatal or because RunServer returned: so are *)
(* its goroutines, wherever they were, and its flock.                      *)
ServerEnds ==
    /\ status' = "ended" /\ listening' = FALSE
    /\ owner' = IF owner = "server" THEN NoProcess ELSE owner
    /\ run' = [t \in Threads |-> IF t = "command" THEN run[t] ELSE Resting("off")]
    /\ locked' = [locked EXCEPT !["server"] = FALSE] /\ closed' = FALSE
    /\ UNCHANGED <<remote, cache, manifest, host, on, interrupted, requests, starts>>

(* Notifier.Notify: which destination an event has, if any.                *)
Destination(event) ==
    IF event \in Triggers THEN event
    ELSE IF "default" \in Triggers THEN "default" ELSE "none"

(* A notification can fail: the destination may not answer, and a request  *)
(* with a cancelled context is never made.                                 *)
NotifyFails(event) ==
    /\ Destination(event) # "none"
    /\ \/ faults < MaxFaults /\ faults' = faults + 1
       \/ interrupted /\ UNCHANGED faults

StartUnannounced ==
    /\ status # "up"
    /\ starts < MaxStarts
    /\ starts' = starts + 1
    /\ NotifyFails("default")
    /\ cache' = remote
    /\ status' = "ended"
    /\ UNCHANGED <<remote, manifest, host, lock, on, listening, interrupted, run, requests>>

-----------------------------------------------------------------------------
(* How a round begins *)

(* The timer's sync: Source.Sync pulls the branch.                         *)
TickSync ==
    /\ At("sync", "idle")
    /\ cache' = remote
    /\ GoTo("sync", "lock")
    /\ UNCHANGED <<remote, manifest, host, lock, mode, faults, requests, starts>>

TickPlan ==
    /\ At("plan", "idle")
    /\ run' = [run EXCEPT !["plan"].at = "lock", !["plan"].executes = FALSE]
    /\ UNCHANGED <<remote, cache, manifest, host, lock, mode, faults, requests, starts>>

Request(t) ==
    /\ At(t, "idle")
    /\ requests < MaxRequests
    /\ requests' = requests + 1

(* updateHookHandler: Sync pulls the branch or checks out the revision the *)
(* payload names, one the source has fetched.                              *)
Hook ==
    /\ Request("hook")
    /\ cache' \in {remote} \cup 1..cache
    /\ GoTo("hook", "lock")
    /\ UNCHANGED <<remote, manifest, host, lock, mode, faults, starts>>

(* VarlinkServer: Sync, and Plan or Update of what is checked out.         *)
SocketSync ==
    /\ Request("socket") /\ listening
    /\ cache' \in {remote} \cup 1..cache
    /\ UNCHANGED <<remote, manifest, host, lock, mode, run, faults, starts>>

SocketPlan ==
    /\ Request("socket") /\ listening
    /\ \E update \in BOOLEAN :
          run' = [run EXCEPT !["socket"].at = "lock", !["socket"].executes = update]
    /\ UNCHANGED <<remote, cache, manifest, host, lock, mode, faults, starts>>

(* `materia update`: setup syncs the source, outside the lock, and loads   *)
(* MATERIA.toml.                                                           *)
Command ==
    /\ "command" \in on
    /\ At("command", "off")
    /\ manifest["command"] = 0
    /\ cache' = remote
    /\ manifest' = [manifest EXCEPT !["command"] = remote]
    /\ GoTo("command", "lock")
    /\ UNCHANGED <<remote, host, lock, mode, faults, requests, starts>>

(* Whoever fails says so: the server's goroutines notify, the socket       *)
(* replies, the command ends.                                              *)
Fallen(t) ==
    CASE t = "socket"  -> Resting("idle")
      [] t = "command" -> Resting("exit")
      [] OTHER         -> Resting("report")

Fails(t) ==
    /\ \/ faults < MaxFaults /\ faults' = faults + 1
       \/ interrupted /\ t # "hook" /\ ProcessOf(t) = "server" /\ UNCHANGED faults
    /\ run' = [run EXCEPT ![t] = Fallen(t)]

SyncFails(t) ==
    /\ t \in {"sync", "hook"} /\ At(t, "idle")
    /\ \/ t = "sync" /\ UNCHANGED requests
       \/ t = "hook" /\ requests < MaxRequests /\ requests' = requests + 1
    /\ Fails(t)
    /\ UNCHANGED <<remote, cache, manifest, host, lock, mode, starts>>

-----------------------------------------------------------------------------
(* LockOrWait and Unlock, around Materia.Plan and Materia.Execute *)

FlockFree(p) == owner \in {NoProcess, p}

Closed(t) == ProcessOf(t) = "server" /\ closed

EnterFlagged(t) ==  \* `if f.locked`
    /\ At(t, "lock")
    /\ locked[ProcessOf(t)]
    /\ GoTo(t, "section")
    /\ UNCHANGED <<remote, cache, manifest, host, lock, mode, faults, requests, starts>>

(* Mutant: the flag is forgotten here too.                                 *)
EnterUnflagged(t) ==
    /\ At(t, "lock")
    /\ ~locked[ProcessOf(t)] /\ ~Closed(t) /\ FlockFree(ProcessOf(t))
    /\ owner' = ProcessOf(t)
    /\ GoTo(t, "section")
    /\ UNCHANGED <<remote, cache, manifest, host, locked, closed, mode, faults, requests, starts>>

EnterFree(t) ==
    /\ At(t, "lock")
    /\ ~locked[ProcessOf(t)] /\ ~Closed(t) /\ FlockFree(ProcessOf(t))
    /\ owner' = ProcessOf(t)
    /\ locked' = [locked EXCEPT ![ProcessOf(t)] = TRUE]
    /\ GoTo(t, "section")
    /\ UNCHANGED <<remote, cache, manifest, host, closed, mode, faults, requests, starts>>

WouldBlock(t) ==
    /\ At(t, "lock")
    /\ ~locked[ProcessOf(t)] /\ ~Closed(t) /\ ~FlockFree(ProcessOf(t))
    /\ GoTo(t, "wait")
    /\ UNCHANGED <<remote, cache, manifest, host, lock, mode, faults, requests, starts>>

LockFails(t) ==  \* EBADF: Plan or Execute fails
    /\ At(t, "lock")
    /\ ~locked[ProcessOf(t)] /\ Closed(t)
    /\ run' = [run EXCEPT ![t] = Fallen(t)]
    /\ UNCHANGED <<remote, cache, manifest, host, lock, mode, faults, requests, starts>>

(* The blocking flock returns; f.locked stays as it was.                   *)
Granted(t) ==
    /\ At(t, "wait")
    /\ FlockFree(ProcessOf(t))
    /\ owner' = IF Closed(t) THEN owner ELSE ProcessOf(t)
    /\ GoTo(t, "section")
    /\ UNCHANGED <<remote, cache, manifest, host, locked, closed, mode, faults, requests, starts>>

(* The context of the webhook and of the command is never cancelled.  The  *)
(* first wait that is closes the file and goes on, without the lock.       *)
Cancelled(t) ==
    /\ At(t, "wait")
    /\ interrupted /\ t \notin {"hook", "command"}
    /\ closed' = TRUE
    /\ owner' = IF owner = "server" THEN NoProcess ELSE owner
    /\ run' = IF closed THEN [run EXCEPT ![t] = Fallen(t)]
              ELSE [run EXCEPT ![t].at = "section"]
    /\ UNCHANGED <<remote, cache, manifest, host, locked, mode, faults, requests, starts>>

(* The deferred unlock, however Plan or Execute ends.                      *)
Unlock(t) ==
    LET p == ProcessOf(t) IN
    IF locked[p] /\ ~Closed(t)
    THEN /\ owner' = IF owner = p THEN NoProcess ELSE owner
         /\ locked' = [locked EXCEPT ![p] = FALSE]
         /\ UNCHANGED closed
    ELSE UNCHANGED lock

-----------------------------------------------------------------------------
(* Materia.Plan: first the host, then one assigned component of the source *)
(* after the other, in the manifest's order.  What a plan that is not      *)
(* executed reads has no effect, so it only holds the lock.                *)
Assigned(t) == AssignedIn[manifest[ProcessOf(t)]]

ReadHost(t) ==
    /\ In(t, "plan") /\ run[t].executes /\ run[t].seen = <<>>
    /\ run' = [run EXCEPT ![t].seen = host]
    /\ UNCHANGED <<remote, cache, manifest, host, lock, mode, faults, requests, starts>>

ReadSource(t) ==
    /\ In(t, "plan") /\ run[t].seen # <<>>
    /\ \E c \in Assigned(t) \ DOMAIN run[t].read :
          /\ \A d \in Assigned(t) \ DOMAIN run[t].read : c <= d
          /\ run' = [run EXCEPT ![t].read = [d \in DOMAIN @ \cup {c} |->
                      IF d = c THEN ContentIn[cache][c] ELSE @[d]]]
    /\ UNCHANGED <<remote, cache, manifest, host, lock, mode, faults, requests, starts>>

(* What a plan does to each component that is not as the source says.      *)
StepsOf(seen, read) ==
    LET wanted(c) == IF c \in DOMAIN read THEN read[c] ELSE Absent IN
    {[comp |-> c, from |-> seen[c], to |-> wanted(c)] : c \in {d \in Comps : seen[d] # wanted(d)}}

HasRead(t) == run[t].seen # <<>> /\ Assigned(t) = DOMAIN run[t].read

(* Mutant: Execute relies on the lock that Plan took.                      *)
PlannedLocked(t) ==
    /\ In(t, "plan") /\ (run[t].executes => HasRead(t))
    /\ run' = IF run[t].executes
              THEN [run EXCEPT ![t] = [Resting("section") EXCEPT
                       !.for = "execute", !.steps = StepsOf(run[t].seen, run[t].read)]]
              ELSE [run EXCEPT ![t] = Resting("idle")]
    /\ Unlock(t)
    /\ UNCHANGED <<remote, cache, manifest, host, mode, faults, requests, starts>>

Planned(t) ==
    /\ In(t, "plan") /\ (run[t].executes => HasRead(t))
    /\ run' = IF run[t].executes
              THEN [run EXCEPT ![t] = [Resting("lock") EXCEPT
                       !.for = "execute", !.steps = StepsOf(run[t].seen, run[t].read)]]
              ELSE [run EXCEPT ![t] = Resting("idle")]
    /\ Unlock(t)
    /\ UNCHANGED <<remote, cache, manifest, host, mode, faults, requests, starts>>

-----------------------------------------------------------------------------
(* Materia.Execute.  An installed component is not installed again, and    *)
(* one that is not there is neither updated nor removed: such a step of a  *)
(* stale plan ends the execution.                                          *)
Applies(s) == (s.from = Absent) = (host[s.comp] = Absent)

Step(t) ==
    /\ In(t, "execute")
    /\ \E s \in run[t].steps :
          /\ Applies(s)
          /\ host' = [host EXCEPT ![s.comp] = s.to]
          /\ run' = [run EXCEPT ![t].steps = @ \ {s}]
    /\ UNCHANGED <<remote, cache, manifest, lock, mode, faults, requests, starts>>

StaleStep(t) ==
    /\ In(t, "execute")
    /\ \E s \in run[t].steps : ~Applies(s)
    /\ run' = [run EXCEPT ![t] = Fallen(t)]
    /\ Unlock(t)
    /\ UNCHANGED <<remote, cache, manifest, host, mode, faults, requests, starts>>

(* Anything a section does may fail.                                       *)
SectionFails(t) ==
    /\ At(t, "section")
    /\ Fails(t)
    /\ Unlock(t)
    /\ UNCHANGED <<remote, cache, manifest, host, mode, requests, starts>>

(* All steps are done, and SavePlan wrote lastrun.toml.                    *)
Executed(t) ==
    /\ In(t, "execute") /\ run[t].steps = {}
    /\ Rest(t, IF t = "command" THEN "exit" ELSE "idle")
    /\ Unlock(t)
    /\ UNCHANGED <<remote, cache, manifest, host, mode, faults, requests, starts>>

-----------------------------------------------------------------------------
(* Mutant: `break` leaves the loop, not the select.                        *)
ReportedLast(t) ==
    /\ At(t, "report")
    /\ Rest(t, IF t = "sync" THEN "off" ELSE "idle")
    /\ UNCHANGED <<remote, cache, manifest, host, lock, mode, faults, requests, starts>>

Reported(t) ==
    /\ At(t, "report")
    /\ Rest(t, "idle")
    /\ UNCHANGED <<remote, cache, manifest, host, lock, mode, faults, requests, starts>>

(* A timer that cannot notify returns an error, and log.Fatal ends the     *)
(* process; the webhook only warns.                                        *)
FatalReport(t) ==
    /\ t \in Timers /\ At(t, "report")
    /\ NotifyFails("default")
    /\ ServerEnds

-----------------------------------------------------------------------------
(* Shutdown: SIGINT cancels the context and closes the socket.             *)
Interrupt ==
    /\ status = "up" /\ ~interrupted
    /\ interrupted' = TRUE
    /\ UNCHANGED <<remote, cache, manifest, host, lock, on, status, listening, run, faults,
                   requests, starts>>

(* Mutant: the plan timer does not look at its context.                    *)
OnlySyncEnds(t) ==
    /\ t = "sync" /\ At(t, "idle") /\ interrupted
    /\ GoTo(t, "off")
    /\ UNCHANGED <<remote, cache, manifest, host, lock, mode, faults, requests, starts>>

TimerEnds(t) ==
    /\ t \in Timers /\ At(t, "idle") /\ interrupted
    /\ GoTo(t, "off")
    /\ UNCHANGED <<remote, cache, manifest, host, lock, mode, faults, requests, starts>>

ListenEnds ==
    /\ listening /\ interrupted
    /\ listening' = FALSE
    /\ UNCHANGED <<remote, cache, manifest, host, lock, on, status, interrupted, run, faults,
                   requests, starts>>

(* wg.Wait returns when every goroutine that was added is done; that of    *)
(* the webhook never is.                                                   *)
RunServerReturns ==
    /\ status = "up" /\ ~listening
    /\ "hook" \notin on
    /\ \A t \in Timers \cap on : At(t, "off")
    /\ ServerEnds
    /\ UNCHANGED faults

CommandExits ==
    /\ At("command", "exit")
    /\ GoTo("command", "off")
    /\ owner' = IF owner = "command" THEN NoProcess ELSE owner
    /\ locked' = [locked EXCEPT !["command"] = FALSE]
    /\ UNCHANGED <<remote, cache, manifest, host, closed, mode, faults, requests, starts>>

Push ==
    /\ remote < LastRevision
    /\ remote' = remote + 1
    /\ UNCHANGED <<cache, manifest, host, lock, mode, run, faults, requests, starts>>

-----------------------------------------------------------------------------
LockOrWait(t) ==
    EnterFlagged(t) \/ EnterFree(t) \/ WouldBlock(t) \/ LockFails(t) \/ Cancelled(t)

Work(t) ==
    ReadHost(t) \/ ReadSource(t) \/ Planned(t) \/ Step(t) \/ StaleStep(t) \/ Executed(t)
        \/ Reported(t)

Next ==
    \/ Start \/ StartUnannounced \/ Command \/ Push \/ Interrupt
    \/ TickSync \/ TickPlan \/ Hook \/ SocketSync \/ SocketPlan
    \/ ListenEnds \/ RunServerReturns \/ CommandExits
    \/ \E t \in Threads :
          \/ LockOrWait(t) \/ Granted(t) \/ Work(t)
          \/ SyncFails(t) \/ SectionFails(t) \/ FatalReport(t) \/ TimerEnds(t)

Spec == Init /\ [][Next]_vars

(* The timers tick, a goroutine that can go on does, the kernel           *)
(* queues those that wait for a flock, and select takes the cancelled      *)
(* context when it finds it ready again and again.  Starts, requests, the  *)
(* interrupt, pushes, faults and the command's start are up to others.     *)
FairSpec ==
    /\ Spec
    /\ WF_vars(TickSync) /\ WF_vars(TickPlan)
    /\ WF_vars(ListenEnds \/ RunServerReturns)
    /\ \A t \in Threads : WF_vars(LockOrWait(t) \/ Work(t))
    /\ WF_vars(CommandExits)
    /\ \A t \in Timers \cup {"command"} : SF_vars(Granted(t))
    /\ \A t \in Timers : SF_vars(TimerEnds(t))

-----------------------------------------------------------------------------
(* Properties *)

(* A server whose only goroutine is the update timer and the command are   *)
(* never both in a section, until the server is interrupted: with more     *)
(* goroutines, Unlock by one gives away the lock another one relies on     *)
(* (pkg/lock/file.go:69), and a cancelled wait goes on without the lock.   *)
TimerExcludesCommand ==
    on = {"sync", "command"} /\ ~interrupted => ~(At("sync", "section") /\ At("command", "section"))

Follows ==
    /\ manifest["server"] # 0
    /\ \A c \in Comps :
          host[c] = IF c \in AssignedIn[manifest["server"]] THEN ContentIn[remote][c] ELSE Absent

(* While the server stays up, the host comes to hold what the newest       *)
(* revision has of the components assigned when the server started         *)
(* (server.go:207): whatever plans were mixed from two revisions, went     *)
(* stale or failed on the way, and whatever the webhook, the socket and a  *)
(* command checked out and executed beside it.                             *)
HostFollows ==
    "sync" \in on /\ <>[](status = "up" /\ ~interrupted) => <>[]Follows

(* A server without the webhook ends when it is interrupted                *)
(* (server.go:150), wherever its goroutines are.                           *)
Ends == interrupted /\ status = "up" /\ "hook" \notin on ~> status = "ended"

(* A command that waits for the lock gets it (file.go:41): a server that   *)
(* itself waited keeps the lock after its section, but its next round      *)
(* releases it, unless the webhook keeps an interrupted server alive.      *)
CommandGetsIn ==
    \/ <>[](status = "up" /\ interrupted)
    \/ At("command", "wait") ~> ~At("command", "wait")
=============================================================================
