------------------------------- MODULE Lifecycle -------------------------------
(***************************************************************************)
(* One component with a .volume quadlet, a container that mounts it and    *)
(* scripts, from its installation over updates to its removal: the part of *)
(* the planner that dumps, cleans up, ensures and imports volumes and runs *)
(* scripts, and the handlers of the executor behind it.  systemd, podman,  *)
(* the container and the user are external.                                *)
(***************************************************************************)
EXTENDS Planner, SequencesExt

CONSTANTS
    App, Vol, Script,  \* the paths of the quadlets and of the script
    HooksIn,           \* [contents of a manifest -> the hooks it names the script for]
    Unmounted,         \* contents of the container's quadlet that do not mount the volume
    Stories,           \* what the source and the configuration may be
    MaxWrites,         \* bound: what the container writes into its volume
    MaxMeddling        \* bound: how often the user removes the volume

Hooks == {"setup", "cleanup", "pre", "post"}

ASSUME LifecycleAssumption ==
    /\ Comps = {1} /\ {App, Vol, Script} \subseteq Paths
    /\ KindOf[App] = "Container" /\ KindOf[Vol] = "Volume" /\ KindOf[Script] = "Script"
    /\ \A m \in DOMAIN HooksIn : HooksIn[m] \subseteq Hooks
    /\ \A s \in Stories :
          /\ s.revisions \in Seq([Paths -> Nat])
          /\ {s.cleanup, s.backup, s.migrate, s.compressed, s.othersMount} \subseteq BOOLEAN
          /\ s.crashes \in Nat
    /\ MaxWrites \in Nat /\ MaxMeddling \in Nat

VARIABLES
    story,     \* the revisions of the source, the planner's configuration
    remote,    \* the newest revision
    disk,      \* the component's directories
    scripts,   \* what the scripts directory holds of the script
    live,      \* units systemd has loaded, and what active ones were started from
    oneshots,  \* the hooks whose transient unit is still there
    volume,    \* podman's volume: the quadlet it was made from, what it holds
    dump,      \* what the dump in the output directory holds
    calls,     \* what is left of the plan that is executed
    pc, crashes, meddling,
    written,   \* writes of the container so far ...
    kept,      \* ... those of this installation that nobody deleted
    setUp      \* the setup script ran in this installation

host == <<disk, scripts, live, oneshots, volume, dump>>
history == <<written, kept, setUp>>
vars == <<story, remote, host, calls, pc, crashes, meddling, history>>

(* A volume podman made for a container that asked for it by name.         *)
Implicit == 100
NoVolume == [made |-> Absent, data |-> {}]

Files == IF remote = 0 THEN [p \in Paths |-> Absent] ELSE story.revisions[remote]
Assigned == Files[Manifest] # Absent

Init ==
    /\ story \in Stories
    /\ remote = 1
    /\ disk = NoComponent /\ scripts = Absent
    /\ live = [loaded |-> [p \in Paths |-> Absent], running |-> [p \in Paths |-> Absent]]
    /\ oneshots = {} /\ volume = NoVolume /\ dump = {}
    /\ calls = <<>> /\ pc = "idle" /\ crashes = 0 /\ meddling = 0
    /\ written = 0 /\ kept = {} /\ setUp = FALSE

-----------------------------------------------------------------------------
(* Planning *)

WithPriority(entry, prio) == [entry EXCEPT !.prio = prio]
OnVolume(todo) == OnResource(todo, 1, Vol, Absent)

VolumeListed == volume.made # Absent

(* generateCleanupResourceActions: podman's error for a volume that is not *)
(* there is not the one it looks for, so planning fails.                   *)
CleanupEntries ==
    IF ~story.cleanup THEN <<>>
    ELSE (IF story.backup THEN <<OnVolume("Dump")>> ELSE <<>>) \o <<OnVolume("Cleanup")>>

CleanupPlans(removed) == story.cleanup /\ Vol \in removed => VolumeListed

CopyVolume == << WithPriority(OnVolume("Dump"), 1), WithPriority(OnVolume("Cleanup"), 2),
                 WithPriority(OnVolume("Ensure"), 4), WithPriority(OnVolume("Import"), 4) >>

(* Mutants: the services are not stopped; the dump is left out.            *)
MigrationOfRunning(files) ==
    IF ~story.migrate \/ ~VolumeListed THEN <<>> ELSE CopyVolume

MigrationWithoutDump(files) ==
    IF ~story.migrate \/ ~VolumeListed THEN <<>>
    ELSE <<WithPriority(OnResource("Stop", 1, App, Absent), 1)>> \o Tail(CopyVolume)

(* generateVolumeMigrationActions *)
Migration(files) ==
    LET started == ByName({p \in ServicesIn[files[Manifest]] :
                              Found(live, p) /\ live.running[p] # Absent})
        service(todo, prio) ==
            MapSeq(started, LAMBDA p : WithPriority(OnResource(todo, 1, p, Absent), prio))
    IN  IF ~story.migrate \/ ~VolumeListed THEN <<>>
        ELSE service("Stop", 1)
             \o CopyVolume \o service("Start", 5)

(* Mutant: nothing is ensured.                                             *)
NothingEnsured(listed, files) == <<>>

(* generateQuadletEnsurements: the volume is gone while its service, which *)
(* made it once, is still active.                                          *)
Ensurements(listed, files) ==
    IF /\ listed[Vol] # Absent /\ files[Vol] # Absent
       /\ Found(live, Vol) /\ live.running[Vol] # Absent /\ ~VolumeListed
    THEN <<OnVolume("Ensure")>> ELSE <<>>

Hook(manifest, hook, todo, prio) ==
    IF hook \notin HooksIn[manifest] THEN <<>>
    ELSE <<WithPriority(Filed(todo, "Script", 1, Script, hook), prio)>>

(* Mutant: scripts are for updates only.                                   *)
PlanFreshUnscripted(files) ==
    FreshResources(1, files) \o Ensurements(files, files)
    \o ServiceActions(1, ServicesIn[files[Manifest]], {}, live)

(* PlanFreshComponent *)
PlanFresh(files) ==
    FreshResources(1, files) \o Ensurements(files, files)
    \o ServiceActions(1, ServicesIn[files[Manifest]], {}, live)
    \o Hook(files[Manifest], "setup", "Setup", 5)

(* PlanRemovedComponent *)
PlanRemoved(d) ==
    RemovedResources(1, d) \o (IF d.at[Vol] # Absent THEN CleanupEntries ELSE <<>>)
    \o ServiceActions(1, {}, HostServices(d), live)
    \o Hook(d.at[Manifest], "cleanup", "Cleanup", 2)

(* generateUpdatedComponentResources, with what it adds for a volume.      *)
UpdatedWithVolumes(d, files) ==
    FlattenSeq(MapSeq(UpdatedResources(1, d, files), LAMBDA e :
        <<e>> \o (CASE e.path = Vol /\ e.todo = "Remove" -> CleanupEntries
                    [] e.path = Vol /\ e.todo = "Update" -> Migration(files)
                    [] OTHER -> <<>>)))

(* PlanUpdatedComponent *)
PlanUpdated(d, files) ==
    LET resources == UpdatedWithVolumes(d, files)
        hook(h, prio) == IF resources = <<>> THEN <<>> ELSE Hook(files[Manifest], h, "Execute", prio)
    IN  hook("pre", 1) \o resources \o Ensurements(d.at, files) \o hook("post", 4)
        \o TriggeredRestarts(1, files, resources)
        \o ServiceActions(1, ServicesIn[files[Manifest]], HostServices(d), live)

Planned ==
    LET updated == disk.data /\ Assigned
        entries == CASE updated   -> PlanUpdated(disk, Files)
                     [] Assigned  -> PlanFresh(Files)
                     [] disk.data -> PlanRemoved(disk)
                     [] OTHER     -> <<>>
        changed == IF updated THEN UpdatedWithVolumes(disk, Files) # <<>> ELSE entries # <<>>
        steps == Steps([c \in Comps |-> entries], changed)
        removed == IF updated THEN Dropped(disk, Files) ELSE Held(disk)
    IN  [ok |-> /\ disk.data => Loads(disk) /\ CleanupPlans(removed)
                /\ updated => TriggersFound(Files, UpdatedWithVolumes(disk, Files), live)
                /\ ValidSteps(steps, IF disk.data THEN {1} ELSE {}),
         steps |-> steps]

-----------------------------------------------------------------------------
(* Executing *)

Do(op) == Call(op, 1, Vol, Absent)

(* The calls of the handler of a step.  ensureQuadlet is a daemon-reload   *)
(* and a restart of the volume's service.                                  *)
StepCalls(s) ==
    CASE s.todo = "Ensure" -> <<Do("Reload"), Do("make")>>
      [] s.todo = "Dump"   -> <<Do("dump")>>
      [] s.todo = "Import" -> <<Do("import")>>
      [] s.kind = "Volume" /\ s.todo = "Cleanup" -> <<Do("removeVolume")>>
      [] s.kind = "Script" /\ s.todo \in {"Setup", "Cleanup", "Execute"} -> <<Do(s.content)>>
      [] s.kind = "Script" /\ s.todo \in {"Install", "Update"} ->
             FileCalls(s) \o <<Call("copyScript", 1, Script, s.content)>>
      [] s.kind = "Script" -> FileCalls(s) \o <<Do("removeScript")>>
      [] s.list = "service" \/ s.kind = "Host" -> <<Call(s.todo, 1, s.path, Absent)>>
      [] OTHER -> FileCalls(s)

Plan ==
    /\ pc = "idle"
    /\ IF Planned.ok
       THEN pc' = "executing" /\ calls' = FlattenSeq(MapSeq(Planned.steps, StepCalls))
       ELSE pc' = "failed" /\ calls' = <<>>
    /\ UNCHANGED <<story, remote, host, crashes, meddling, history>>

NextCall == Head(calls)
IsNext(op) == pc = "executing" /\ calls # <<>> /\ NextCall.op = op

Proceed == calls' = Tail(calls) /\ pc' = pc
Refuse == calls' = <<>> /\ pc' = "idle"

HostOps == {"Reload", "Start", "Stop", "Restart", "make", "dump", "import", "removeVolume"}
              \cup Hooks \cup {"copyScript", "removeScript"}

(* A call on the component's files.                                        *)
FileStep ==
    /\ pc = "executing" /\ calls # <<>>
    /\ NextCall.op \notin HostOps
    /\ IF Applies(disk, NextCall)
       THEN disk' = After(disk, NextCall) /\ Proceed
       ELSE disk' = disk /\ Refuse
    /\ IF NextCall.op = "mkdirData"
       THEN kept' = volume.data /\ setUp' = FALSE /\ written' = written
       ELSE UNCHANGED history
    /\ UNCHANGED <<story, remote, scripts, live, oneshots, volume, dump, crashes, meddling>>

(* daemon-reload: the generator makes no unit of an empty container file,  *)
(* nor of one that names a volume file that is not there.                  *)
Mounts(content) == content \notin {Absent} \cup Unmounted

UnitOf(p) ==
    IF \/ p \notin {App, Vol}
       \/ p = App /\ disk.at[App] = Blank
       \/ p = App /\ Mounts(disk.at[App]) /\ disk.at[Vol] = Absent
    THEN Absent ELSE disk.at[p]

ReloadUnits ==
    /\ IsNext("Reload")
    /\ live' = [live EXCEPT !.loaded = [p \in Paths |-> UnitOf(p)]]
    /\ Proceed
    /\ UNCHANGED <<story, remote, disk, scripts, oneshots, volume, dump, crashes, meddling, history>>

(* The volume's service makes the volume unless it is there; it runs once  *)
(* and stays active.                                                       *)
MadeByService(unit) == IF volume = NoVolume THEN [made |-> unit, data |-> {}] ELSE volume

(* Starting the container starts the service of its volume unless that is  *)
(* active; podman then makes a volume that is not there by itself.         *)
StartApp ==
    LET unit == live.loaded[App]
        dependency == Mounts(unit) /\ live.running[Vol] = Absent
    IN
    /\ IsNext("Start") \/ IsNext("Restart")
    /\ IF unit = Absent \/ (dependency /\ live.loaded[Vol] = Absent)
       THEN UNCHANGED <<live, volume>> /\ Refuse
       ELSE IF NextCall.op = "Start" /\ live.running[App] # Absent
       THEN UNCHANGED <<live, volume>> /\ Proceed
       ELSE /\ live' = [live EXCEPT !.running[App] = unit,
                            !.running[Vol] = IF dependency THEN live.loaded[Vol] ELSE @]
            /\ volume' = IF ~Mounts(unit) THEN volume
                         ELSE MadeByService(IF dependency THEN live.loaded[Vol] ELSE Implicit)
            /\ Proceed
    /\ UNCHANGED <<story, remote, disk, scripts, oneshots, dump, crashes, meddling, history>>

StopApp ==
    /\ IsNext("Stop")
    /\ IF live.loaded[App] = Absent /\ live.running[App] = Absent
       THEN live' = live /\ Refuse
       ELSE live' = [live EXCEPT !.running[App] = Absent] /\ Proceed
    /\ UNCHANGED <<story, remote, disk, scripts, oneshots, volume, dump, crashes, meddling, history>>

MakeVolume ==
    /\ IsNext("make")
    /\ IF live.loaded[Vol] = Absent
       THEN UNCHANGED <<live, volume>> /\ Refuse
       ELSE /\ live' = [live EXCEPT !.running[Vol] = live.loaded[Vol]]
            /\ volume' = MadeByService(live.loaded[Vol])
            /\ Proceed
    /\ UNCHANGED <<story, remote, disk, scripts, oneshots, dump, crashes, meddling, history>>

(* dumpVolume: the file of the last dump is truncated first.               *)
DumpVolume ==
    /\ IsNext("dump")
    /\ dump' = volume.data
    /\ IF VolumeListed THEN Proceed ELSE Refuse
    /\ UNCHANGED <<story, remote, disk, scripts, live, oneshots, volume, crashes, meddling, history>>

(* cleanupVolume: a volume some container has is left alone.               *)
InUse == story.othersMount \/ Mounts(live.running[App])

CleanupVolume ==
    /\ IsNext("removeVolume")
    /\ volume' = IF InUse THEN volume ELSE NoVolume
    /\ IF InUse \/ VolumeListed THEN Proceed ELSE Refuse
    /\ UNCHANGED <<story, remote, disk, scripts, live, oneshots, dump, crashes, meddling, history>>

(* importVolume: the name it looks for is that of a dump that was not      *)
(* compressed.                                                             *)
ImportVolume ==
    /\ IsNext("import")
    /\ IF VolumeListed /\ ~story.compressed
       THEN volume' = [volume EXCEPT !.data = @ \cup dump] /\ Proceed
       ELSE volume' = volume /\ Refuse
    /\ UNCHANGED <<story, remote, disk, scripts, live, oneshots, dump, crashes, meddling, history>>

(* installOrUpdateScript, removeScript: the second copy.                   *)
ScriptFile ==
    /\ IsNext("copyScript") \/ IsNext("removeScript")
    /\ scripts' = IF NextCall.op = "copyScript" THEN NextCall.content ELSE Absent
    /\ Proceed
    /\ UNCHANGED <<story, remote, disk, live, oneshots, volume, dump, crashes, meddling, history>>

(* setupScript, cleanupScript, executeScript: systemd refuses a transient  *)
(* unit that is still there; setup and cleanup remove each other's.        *)
NothingUndone(hook) == {}  \* a mutant

Undone(hook) ==
    CASE hook = "setup" -> {"cleanup"} [] hook = "cleanup" -> {"setup"} [] OTHER -> {}

RunScript(hook) ==
    /\ IsNext(hook)
    /\ IF hook \in oneshots \/ scripts = Absent
       THEN UNCHANGED <<oneshots, setUp>> /\ Refuse
       ELSE /\ oneshots' = (oneshots \cup {hook}) \ Undone(hook)
            /\ setUp' = (setUp \/ hook = "setup")
            /\ Proceed
    /\ UNCHANGED <<story, remote, disk, scripts, live, volume, dump, crashes, meddling, written, kept>>

Finish ==
    /\ pc = "executing" /\ calls = <<>>
    /\ pc' = "idle" /\ calls' = calls
    /\ UNCHANGED <<story, remote, host, crashes, meddling, history>>

-----------------------------------------------------------------------------
(* The environment *)

(* Who sees a plan fail runs `materia doctor --remove`.                    *)
RunDoctor ==
    /\ pc = "failed"
    /\ pc' = "idle"
    /\ disk' = IF Corrupt(disk) THEN NoComponent ELSE disk
    /\ UNCHANGED <<story, remote, scripts, live, oneshots, volume, dump, calls,
                   crashes, meddling, history>>

(* The process is killed: a write, a dump or an import may be half done, a *)
(* job goes on without it.                                                 *)
Crash ==
    LET half(op) == calls # <<>> /\ NextCall.op = op IN
    /\ pc = "executing" /\ crashes < story.crashes
    /\ crashes' = crashes + 1
    /\ Refuse
    /\ disk' \in {disk} \cup (IF calls = <<>> \/ NextCall.op \in HostOps THEN {}
                              ELSE {Torn(disk, NextCall)})
    /\ dump' \in {dump} \cup (IF half("dump") THEN {{}} ELSE {})
    /\ volume' \in {volume} \cup (IF half("import") /\ VolumeListed /\ ~story.compressed
                                  THEN {[volume EXCEPT !.data = @ \cup dump]} ELSE {})
    /\ UNCHANGED <<story, remote, scripts, live, oneshots, meddling, history>>

WriteData ==
    /\ Mounts(live.running[App]) /\ VolumeListed
    /\ written < MaxWrites
    /\ written' = written + 1
    /\ volume' = [volume EXCEPT !.data = @ \cup {written'}]
    /\ kept' = kept \cup {written'}
    /\ UNCHANGED <<story, remote, disk, scripts, live, oneshots, dump, calls, pc,
                   crashes, meddling, setUp>>

(* The user stops the container and removes its volume, of a component     *)
(* that stays (README.md says what happens to one that leaves).            *)
UserRemovesVolume ==
    /\ pc = "idle" /\ meddling < MaxMeddling
    /\ remote = Len(story.revisions) /\ Assigned
    /\ disk.data /\ VolumeListed /\ ~story.othersMount
    /\ meddling' = meddling + 1
    /\ live' = [live EXCEPT !.running[App] = Absent]
    /\ volume' = NoVolume /\ kept' = {}
    /\ UNCHANGED <<story, remote, disk, scripts, oneshots, dump, calls, pc, crashes, written, setUp>>

Commit ==
    /\ remote < Len(story.revisions)
    /\ remote' = remote + 1
    /\ UNCHANGED <<story, host, calls, pc, crashes, meddling, history>>

Execute ==
    \/ FileStep \/ ReloadUnits \/ StartApp \/ StopApp \/ MakeVolume \/ DumpVolume
    \/ CleanupVolume \/ ImportVolume \/ ScriptFile \/ (\E hook \in Hooks : RunScript(hook))
    \/ Finish

Next == Plan \/ Execute \/ RunDoctor \/ Crash \/ WriteData \/ UserRemovesVolume \/ Commit

(* The timer starts update again and again (weak fairness of Plan, the     *)
(* only step that leaves "idle", said of its guard), an update goes on, a  *)
(* failed one is looked at.                                                *)
Spec ==
    /\ Init /\ [][Next]_vars
    /\ []<>(pc # "idle") /\ WF_vars(Execute) /\ WF_vars(RunDoctor)

-----------------------------------------------------------------------------
(* Properties *)

(* What the container wrote in this installation is in the volume or in    *)
(* the dump, whatever step of a migration or a removal Materia is at, or   *)
(* was killed at: nothing is cleaned up or truncated that is not copied.   *)
NothingLost == ~story.cleanup \/ story.backup => kept \subseteq volume.data \cup dump

Starting == live'.running[App] # Absent /\ live'.running[App] # live.running[App]

(* CHANGELOG.md, 0.5.0: the container never starts on a volume podman made *)
(* by itself, though the volume's service may have been active for long.   *)
StartsOnItsVolume ==
    [][Starting /\ Mounts(live'.running[App]) => volume'.made # Implicit]_vars

(* A dump or an import is never taken while the container runs.            *)
CopiesAtRest ==
    [][DumpVolume \/ ImportVolume => ~Mounts(live.running[App])]_vars

(* The container of an installation that no crash interrupted starts after *)
(* the setup script of this installation ran, the cleanup script of the    *)
(* last one notwithstanding.                                               *)
StartsSetUp ==
    [][Starting /\ crashes = 0 /\ "setup" \in HooksIn[disk.at[Manifest]] => setUp]_vars

AsAssigned ==
    /\ \A p \in Paths : disk.at[p] = Files[p]
    /\ live.running[App] = Files[App]
    /\ Files[Vol] # Absent =>
          /\ kept \subseteq volume.data
          /\ story.migrate /\ ~story.othersMount => volume.made = Files[Vol]

AsRemoved ==
    /\ disk = NoComponent /\ scripts = Absent /\ live.running[App] = Absent
    /\ story.cleanup /\ ~story.othersMount => ~VolumeListed

(* Without a crash, and with dumps that can be imported, the host ends as  *)
(* the source says, the data in a volume made from the latest quadlet.     *)
Follows ==
    <>[](crashes = 0 /\ ~story.compressed => IF Assigned THEN AsAssigned ELSE AsRemoved)
=============================================================================
