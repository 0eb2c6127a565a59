-------------------------------- MODULE Materia --------------------------------
(***************************************************************************)
(* `materia update`, run again and again by a timer: sync the source, plan *)
(* under the lock, execute under the lock, clean up, roll back.  The lock  *)
(* is the mutual exclusion its Locker promises (FileLock says when it      *)
(* keeps the promise); systemd and the source's remote are external.       *)
(***************************************************************************)
EXTENDS Planner

CONSTANTS
    Runs,               \* the Materia processes on this host
    NoRun,              \* the lock is free
    LastRevision,       \* bound: the revisions of the source are 1..LastRevision
    AssignedIn,         \* [revision -> the components its MATERIA.toml assigns]
    FilesIn,            \* [revision -> [Comps -> [Paths -> contents]]]
    BadUnits,           \* contents of units whose service fails to start
    CleanupComponents,  \* executor.cleanup_components
    Rollback,           \* rollback.kind is set
    Doctor,             \* who sees an update fail runs `materia doctor --remove`
    UserDropins,        \* the components the user writes quadlet drop-ins for
    MaxFaults,          \* bound: I/O errors
    MaxCrashes          \* bound: crashes of a process

Revisions == 1..LastRevision

ASSUME MateriaAssumption ==
    /\ Comps \subseteq Nat \ {0} /\ IsFiniteSet(Comps) /\ NoRun \notin Runs /\ LastRevision \in Nat \ {0}
    /\ AssignedIn \in [Revisions -> SUBSET Comps]
    /\ FilesIn \in [Revisions -> [Comps -> [Paths -> Nat]]]
    /\ \A v \in Revisions, c \in Comps, p \in Paths :
          /\ KindOf[p] \in {"Dropin", "DropinDir"} => FilesIn[v][c][p] = Absent
          /\ KindOf[p] = "Directory" => FilesIn[v][c][p] \in {Absent, Blank}
    /\ {CleanupComponents, Rollback, Doctor} \subseteq BOOLEAN
    /\ UserDropins \subseteq Comps
    /\ MaxFaults \in Nat /\ MaxCrashes \in Nat

VARIABLES
    remote,   \* the newest revision of the remote
    cache,    \* the revision checked out in the source directory, 0 for none
    disk,     \* [Comps -> Directories]
    live,     \* [Comps -> the units systemd has loaded and those that run]
    holder,   \* who holds the lock
    run,      \* what each process is doing
    faults, crashes

vars == <<remote, cache, disk, live, holder, run, faults, crashes>>

(* manifest is the revision whose MATERIA.toml the process has loaded,     *)
(* before the revision its first sync replaced, steps its plan, next the   *)
(* step it is at and call the call of that step, invalid the components it *)
(* is about to purge.                                                      *)
Resting(outcome) ==
    [pc |-> "idle", manifest |-> 0, before |-> 0, rolledBack |-> FALSE,
     steps |-> <<>>, next |-> 1, call |-> 1, invalid |-> {}, outcome |-> outcome]

Init ==
    /\ remote = 1 /\ cache = 0
    /\ disk = [c \in Comps |-> NoComponent]
    /\ live = [c \in Comps |-> [loaded  |-> [p \in Paths |-> Absent],
                                running |-> [p \in Paths |-> Absent]]]
    /\ holder = NoRun
    /\ run = [r \in Runs |-> Resting("none")]
    /\ faults = 0 /\ crashes = 0

At(r, pc) == run[r].pc = pc

-----------------------------------------------------------------------------
(* setup: sync the source, then load MATERIA.toml once for the process.    *)
Setup(r) ==
    /\ At(r, "idle")
    /\ cache' = remote
    /\ run' = [run EXCEPT ![r] = [Resting("none") EXCEPT
                   !.pc = "start", !.manifest = remote, !.before = cache]]
    /\ UNCHANGED <<remote, disk, live, holder, faults, crashes>>

(* Materia.Plan *)
Plan(r) ==
    LET plan == PlanHost(disk, FilesIn[cache], live, AssignedIn[run[r].manifest]) IN
    /\ At(r, "start")
    /\ holder = NoRun
    /\ run' = IF plan.ok
              THEN [run EXCEPT ![r].pc = "planned", ![r].steps = plan.steps]
              ELSE [run EXCEPT ![r] = [Resting("planFailed") EXCEPT
                                           !.rolledBack = run[r].rolledBack]]
    /\ UNCHANGED <<remote, cache, disk, live, holder, faults, crashes>>

-----------------------------------------------------------------------------
(* Materia.Execute *)

BeginExecute(r) ==
    /\ At(r, "planned")
    /\ holder = NoRun
    /\ holder' = r
    /\ run' = [run EXCEPT ![r].pc = "executing"]
    /\ UNCHANGED <<remote, cache, disk, live, faults, crashes>>

Planned(r) == run[r].next <= Len(run[r].steps)

Executing(r) == At(r, "executing") /\ Planned(r)

NextStep(r) == run[r].steps[run[r].next]

StepCalls(s) ==
    IF s.list = "service" \/ s.kind = "Host"
    THEN <<Call(s.todo, s.comp, s.path, Absent)>>
    ELSE FileCalls(s)

NextCall(r) == StepCalls(NextStep(r))[run[r].call]

Proceed(r) ==
    run' = IF run[r].call < Len(StepCalls(NextStep(r)))
           THEN [run EXCEPT ![r].call = @ + 1]
           ELSE [run EXCEPT ![r].next = @ + 1, ![r].call = 1]

Stopped(r, outcome) ==
    run' = [run EXCEPT ![r].pc = "leaving", ![r].outcome = outcome,
                       ![r].steps = <<>>, ![r].next = 1, ![r].call = 1]

ServiceCalls == {"Start", "Stop", "Restart", "Reload"}

(* A step on a file. *)
FileStep(r) ==
    LET k == NextCall(r) IN
    /\ Executing(r)
    /\ k.op \notin ServiceCalls
    /\ IF Applies(disk[k.comp], k)
       THEN /\ disk' = [disk EXCEPT ![k.comp] = After(@, k)]
            /\ Proceed(r)
       ELSE /\ disk' = disk
            /\ Stopped(r, "refused")
    /\ UNCHANGED <<remote, cache, live, holder, faults, crashes>>

(* daemon-reload: the quadlet generator makes units of what is on the disk.*)
Containers == {p \in Paths : KindOf[p] = "Container"}

ReloadUnits(r) ==
    /\ Executing(r)
    /\ NextCall(r).op = "Reload"
    /\ live' = [c \in Comps |-> [live[c] EXCEPT
                    !.loaded = [p \in Paths |-> IF p \in Containers THEN disk[c].at[p] ELSE Absent]]]
    /\ Proceed(r)
    /\ UNCHANGED <<remote, cache, disk, holder, faults, crashes>>

(* ApplyService on a container.  A start of what already runs changes      *)
(* nothing; systemd refuses a job for a unit it does not have.             *)
ServiceStep(r) ==
    LET k == NextCall(r)
        unit == live[k.comp].loaded[k.path]
        now == live[k.comp].running[k.path]
        becomes(content) == live' = [live EXCEPT ![k.comp].running[k.path] = content]
    IN
    /\ Executing(r)
    /\ k.op \in ServiceCalls \ {"Reload"}
    /\ \/ k.op = "Stop" /\ (unit # Absent \/ now # Absent) /\ becomes(Absent) /\ Proceed(r)
       \/ k.op = "Start" /\ unit # Absent /\ now # Absent /\ Proceed(r) /\ UNCHANGED live
       \/ /\ unit # Absent
          /\ k.op = "Restart" \/ (k.op = "Start" /\ now = Absent)
          /\ IF unit \in BadUnits
             THEN becomes(Absent) /\ Stopped(r, "unhealthy")
             ELSE becomes(unit) /\ Proceed(r)
       \/ /\ unit = Absent /\ (k.op = "Stop" => now = Absent)
          /\ UNCHANGED live /\ Stopped(r, "refused")
    /\ UNCHANGED <<remote, cache, disk, holder, faults, crashes>>

(* A call fails: nothing has changed, or a write was left half done.       *)
Fault(r) ==
    LET k == NextCall(r) IN
    /\ Executing(r)
    /\ faults < MaxFaults
    /\ faults' = faults + 1
    /\ disk' \in IF k.op \in ServiceCalls THEN {disk}
                 ELSE {disk, [disk EXCEPT ![k.comp] = Torn(@, k)]}
    /\ Stopped(r, "fault")
    /\ UNCHANGED <<remote, cache, live, holder, crashes>>

Completed(r) ==
    /\ At(r, "executing") /\ ~Planned(r)
    /\ Stopped(r, "ok")
    /\ UNCHANGED <<remote, cache, disk, live, holder, faults, crashes>>

(* The deferred unlock runs first, the deferred validatePostExecute after. *)
Returned(r) ==
    IF run[r].outcome = "unhealthy" /\ Rollback /\ ~run[r].rolledBack
    THEN [run[r] EXCEPT !.pc = "rollback"]
    ELSE [Resting(run[r].outcome) EXCEPT !.rolledBack = run[r].rolledBack]

Unlock(r) ==
    /\ At(r, "leaving")
    /\ holder' = NoRun
    /\ run' = [run EXCEPT ![r] = IF CleanupComponents THEN [run[r] EXCEPT !.pc = "validating"]
                                 ELSE Returned(r)]
    /\ UNCHANGED <<remote, cache, disk, live, faults, crashes>>

(* Mutant: a component that failed to be removed is not looked at.         *)
ValidateAssigned(r) ==
    /\ At(r, "validating")
    /\ run' = [run EXCEPT ![r].pc = "purging",
                  ![r].invalid = {c \in AssignedIn[run[r].manifest] : Corrupt(disk[c])}]
    /\ UNCHANGED <<remote, cache, disk, live, holder, faults, crashes>>

ValidateComponents(r) ==
    /\ At(r, "validating")
    /\ run' = [run EXCEPT ![r].pc = "purging",
                          ![r].invalid = {c \in Comps : Corrupt(disk[c])}]
    /\ UNCHANGED <<remote, cache, disk, live, holder, faults, crashes>>

Purge(r, c) ==
    /\ At(r, "purging")
    /\ c \in run[r].invalid
    /\ disk' = [disk EXCEPT ![c] = NoComponent]
    /\ run' = [run EXCEPT ![r].invalid = @ \ {c}]
    /\ UNCHANGED <<remote, cache, live, holder, faults, crashes>>

Return(r) ==
    /\ At(r, "purging") /\ run[r].invalid = {}
    /\ run' = [run EXCEPT ![r] = Returned(r)]
    /\ UNCHANGED <<remote, cache, disk, live, holder, faults, crashes>>

(* Mutant: the source is rolled back, the update not run again.            *)
RollbackWithoutUpdate(r) ==
    /\ At(r, "rollback")
    /\ cache' = IF run[r].before = 0 THEN cache ELSE run[r].before
    /\ run' = [run EXCEPT ![r] = [Resting(run[r].outcome) EXCEPT
                                     !.rolledBack = run[r].before # 0]]
    /\ UNCHANGED <<remote, disk, live, holder, faults, crashes>>

(* ErrNeedRollback: check out what the first sync replaced and plan again, *)
(* with the MATERIA.toml loaded at setup.                                  *)
RollbackSource(r) ==
    /\ At(r, "rollback")
    /\ IF run[r].before = 0
       THEN cache' = cache /\ run' = [run EXCEPT ![r] = Resting("noRollback")]
       ELSE /\ cache' = run[r].before
            /\ run' = [run EXCEPT ![r].pc = "start", ![r].rolledBack = TRUE,
                                  ![r].outcome = "none"]
    /\ UNCHANGED <<remote, disk, live, holder, faults, crashes>>

-----------------------------------------------------------------------------
(* The environment *)

Crash(r) ==
    /\ ~At(r, "idle")
    /\ crashes < MaxCrashes
    /\ crashes' = crashes + 1
    /\ disk' \in IF Executing(r) /\ NextCall(r).op \notin ServiceCalls
                 THEN {disk, [disk EXCEPT ![NextCall(r).comp] = Torn(@, NextCall(r))]}
                 ELSE {disk}
    /\ holder' = IF holder = r THEN NoRun ELSE holder
    /\ run' = [run EXCEPT ![r] = Resting("crashed")]
    /\ UNCHANGED <<remote, cache, live, faults>>

RunDoctor(c) ==
    /\ Doctor
    /\ \E r \in Runs : At(r, "idle") /\ run[r].outcome = "planFailed"
    /\ Corrupt(disk[c])
    /\ disk' = [disk EXCEPT ![c] = NoComponent]
    /\ UNCHANGED <<remote, cache, live, holder, run, faults, crashes>>

WithDropin(d, p) ==
    [d EXCEPT !.at = [q \in Paths |-> IF q \in {p, Within[p]} THEN Blank ELSE d.at[q]]]

WriteDropin(c) ==
    /\ c \in UserDropins
    /\ Loads(disk[c])
    /\ \E p \in Paths :
          /\ KindOf[p] = "Dropin" /\ disk[c].at[p] = Absent
          /\ disk' = [disk EXCEPT ![c] = WithDropin(disk[c], p)]
    /\ UNCHANGED <<remote, cache, live, holder, run, faults, crashes>>

Commit ==
    /\ remote < LastRevision
    /\ remote' = remote + 1
    /\ UNCHANGED <<cache, disk, live, holder, run, faults, crashes>>

Execute(r) == FileStep(r) \/ ReloadUnits(r) \/ ServiceStep(r) \/ Completed(r) \/ Unlock(r)

CleanUp(r) ==
    ValidateComponents(r) \/ (\E c \in Comps : Purge(r, c)) \/ Return(r) \/ RollbackSource(r)

Next ==
    \/ \E r \in Runs : \/ Setup(r) \/ Plan(r) \/ BeginExecute(r) \/ Execute(r)
                       \/ CleanUp(r) \/ Fault(r) \/ Crash(r)
    \/ \E c \in Comps : RunDoctor(c) \/ WriteDropin(c)
    \/ Commit

Spec == Init /\ [][Next]_vars

(* The timer starts every run again, a process goes on with what it does,  *)
(* one that waits for a lock that is free again and again gets it (strong  *)
(* fairness of Plan and of BeginExecute, said of their guards: only those  *)
(* actions and a crash leave "start" and "planned"), and who sees updates  *)
(* fail again and again runs the doctor.                                   *)
Served(r, pc) == []<>(At(r, pc) /\ holder = NoRun) => []<>~At(r, pc)

FairSpec ==
    /\ Spec
    /\ \A r \in Runs : /\ WF_vars(Setup(r)) /\ Served(r, "start") /\ Served(r, "planned")
                       /\ WF_vars(Execute(r)) /\ WF_vars(CleanUp(r))
    /\ \A c \in Comps : SF_vars(RunDoctor(c))

-----------------------------------------------------------------------------
(* Properties *)

Changes ==
    [todo : Todos, kind : Kinds, comp : Comps, path : Paths \cup {0}, content : Nat,
     prio : Nat, list : {"resource", "service"}]

Phases == {"idle", "start", "planned", "executing", "leaving", "validating", "purging", "rollback"}

Outcomes ==
    {"none", "planFailed", "refused", "unhealthy", "fault", "ok", "noRollback", "crashed"}

StepLists == Seq(Changes \cup {HostReload})

RunRecords ==
    [pc : Phases, manifest : Revisions \cup {0}, before : Revisions \cup {0},
     rolledBack : BOOLEAN, steps : StepLists, next : Nat \ {0}, call : Nat \ {0},
     invalid : SUBSET Comps, outcome : Outcomes]

(* A process that runs has loaded a revision, has the lock while it        *)
(* executes, and is at a call its plan has.                                *)
Poised(r) ==
    /\ ~At(r, "idle") => cache # 0 /\ run[r].manifest # 0
    /\ At(r, "executing") \/ At(r, "leaving") => holder = r
    /\ run[r].steps # <<>> => At(r, "planned") \/ At(r, "executing")
    /\ run[r].steps = <<>> => run[r].next = 1 /\ run[r].call = 1
    /\ Planned(r) => run[r].call \in DOMAIN StepCalls(NextStep(r))

TypeOK ==
    /\ remote \in Revisions /\ cache \in Revisions \cup {0}
    /\ disk \in [Comps -> Directories]
    /\ live \in [Comps -> [loaded : [Paths -> Nat], running : [Paths -> Nat]]]
    /\ holder \in Runs \cup {NoRun}
    /\ run \in [Runs -> RunRecords]
    /\ faults \in Nat /\ crashes \in Nat
    /\ \A r \in Runs : Poised(r)

(* The plan puts its steps in an order the file system and systemd accept: *)
(* a step fails only if something outside Materia makes it fail.           *)
PlannedStepsApply == \A r \in Runs : run[r].outcome # "refused"

(* A component that can be loaded was installed to the end: the manifest   *)
(* comes last, so whatever interrupts an installation leaves a component   *)
(* that Plan refuses to take for an installed one.                         *)
ManifestSeals ==
    [][\A c \in Comps : ~Loads(disk[c]) /\ Loads(disk'[c]) =>
           \E v \in Revisions : \A p \in Paths \ {Manifest} :
               disk'[c].at[p] = FilesIn[v][c][p]]_vars

(* cleanup_components: an execution that returns, however it failed, leaves *)
(* no corrupt component behind to make every later plan fail.              *)
NothingCorruptLeft ==
    [][\A r \in Runs : Return(r) => \A c \in Comps : ~Corrupt(disk[c])]_vars

(* A service is started or restarted only from the unit that is on the     *)
(* disk: the plan's file is in place and systemd has reloaded it.          *)
StartsWhatIsInstalled ==
    \A r \in Runs : Executing(r) /\ NextCall(r).op \in {"Start", "Restart"} =>
        LET k == NextCall(r) IN live[k.comp].loaded[k.path] = disk[k.comp].at[k.path]

Dropins == {p \in Paths : KindOf[p] \in {"Dropin", "DropinDir"}}

FilesMatch(v) ==
    \A c \in Comps :
        IF c \in AssignedIn[v]
        THEN Loads(disk[c]) /\ disk[c].version = "current"
             /\ \A p \in Paths \ Dropins : disk[c].at[p] = FilesIn[v][c][p]
        ELSE ~disk[c].data /\ Held(disk[c]) = {}

ServicesMatch(v) ==
    \A c \in Comps, p \in Containers :
        live[c].running[p] =
            IF c \in AssignedIn[v] /\ p \in ServicesIn[FilesIn[v][c][Manifest]]
            THEN FilesIn[v][c][p] ELSE Absent

(* Once the source stops changing the host ends up with its files ...      *)
FilesConverge == <>[]FilesMatch(remote)

(* ... and, if its units start, with its services running what they say.   *)
Healthy(v) ==
    \A c \in AssignedIn[v], p \in Containers : FilesIn[v][c][p] \notin BadUnits

Converges == <>[](Healthy(remote) => FilesMatch(remote) /\ ServicesMatch(remote))

(* A run that rolled back to a revision whose units start leaves the host  *)
(* as that revision says.                                                  *)
RollbackRestores ==
    \A r \in Runs : At(r, "idle") /\ run[r].rolledBack /\ Healthy(cache) =>
        run[r].outcome = "ok" /\ FilesMatch(cache) /\ ServicesMatch(cache)

(* An update leaves the user's drop-ins as they are.                       *)
DropinsKept ==
    [][\A c \in Comps, p \in Dropins :
           disk[c].at[p] # Absent => disk'[c].at[p] = disk[c].at[p]]_vars
=============================================================================
