------------------------------- MODULE MCPlan -------------------------------
(***************************************************************************)
(* Small plans over two components, drawn from the actions the planner     *)
(* makes for containers, volumes, plain services and components.           *)
(***************************************************************************)
EXTENDS Plan, SequencesExt

PC == INSTANCE PlanCode

Default(todo, kind, comp, path) ==
    [todo |-> todo, kind |-> kind, comp |-> comp, path |-> path, priority |-> 0]

Explicit(a, p) == [a EXCEPT !.priority = p]

HostReloadAction == Default("Reload", "Host", 0, 0)

(* Updates of two components that share a plan with removals, a triggered  *)
(* restart, a volume migration and a setup script.                         *)
UpdateActions ==
    {HostReloadAction,
     Default("Update", "Container", 1, 2), Default("Restart", "Container", 1, 2),
     Default("Stop", "Container", 1, 2), Default("Start", "Container", 2, 2),
     Default("Remove", "Directory", 1, 4), Default("Install", "File", 2, 3),
     Default("Ensure", "Network", 1, 6),
     Default("Enable", "Service", 2, 7), Default("Reload", "Service", 2, 7),
     Explicit(Default("Stop", "Container", 2, 2), 1),
     Explicit(Default("Dump", "Volume", 2, 5), 1)}

(* Installing one component while another is removed.                      *)
TurnoverActions ==
    {HostReloadAction,
     Default("Install", "Component", 2, 1), Default("Install", "Container", 2, 2),
     Default("Install", "Manifest", 2, 3), Default("Start", "Container", 2, 2),
     Default("Remove", "Component", 1, 1), Default("Remove", "Container", 1, 2),
     Default("Remove", "Manifest", 1, 3), Default("Stop", "Container", 1, 2),
     Default("Reload", "Service", 1, 4), Default("Restart", "Service", 1, 4)}

PlanActions == UpdateActions \cup TurnoverActions

StepEntry(s) ==
    CASE s.op = "action" -> added[s.i]
      [] s.op = "reload" -> PC!HostReload
      [] OTHER -> PC!ZeroAction

ChangesOf == [c \in {added[i].comp : i \in DOMAIN added} |->
                 SelectSeq(added, LAMBDA e : e.comp = c)]

(* The order module Plan describes, and the one PlanSteps describes for    *)
(* plans that enable and disable nothing, are the order Steps() computes:  *)
(* what has been run is always a prefix of it; until it is all of it, the  *)
(* merge has a next step to run, and nothing is run when it is.            *)
RunsInPlanOrder ==
    LET steps == PC!CodeSteps(ChangesOf, needReload)
        ran == [k \in DOMAIN log |-> StepEntry(log[k])]
        due == {s \in ResourceSteps : ResourceDue(s)} \cup {s \in ServiceSteps : ServiceDue(s)}
    IN  /\ IsPrefix(ran, steps)
        /\ phase = "stepping" => (due = {} <=> ran = steps)
        /\ (\A i \in DOMAIN added : ~IsToggle(i)) => PC!Steps(ChangesOf, needReload) = steps
=============================================================================
