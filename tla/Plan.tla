-------------------------------- MODULE Plan --------------------------------
(***************************************************************************)
(* A plan: actions are added to it one at a time, then its steps are run   *)
(* in the order Steps() gives.  The two lists the code sorts and merges    *)
(* are described by the order of their elements: the next resource step is *)
(* the least resource step still to run, the next service step the least   *)
(* service step, and merging decides which of the two goes first.          *)
(* PlanSteps defines the same order as the code computes it.               *)
(***************************************************************************)
EXTENDS Actions, Sequences

CONSTANTS
    Candidates,  \* the actions the planner may add: [todo, kind, comp, path, priority]
    MaxAdds      \* bound: how many actions are added

Input == [todo : Todos, kind : Kinds, comp : Nat, path : Nat, priority : Nat]

(* Components and paths are numbered in the order of their names. *)
ASSUME PlanAssumption ==
    /\ Candidates \subseteq Input
    /\ MaxAdds \in Nat

VARIABLES
    added,       \* the accepted actions, oldest first
    needReload,  \* Plan.needReload
    phase,       \* "adding" until Steps() is called, then "stepping"
    log          \* the steps run so far, in order

vars == <<added, needReload, phase, log>>

-----------------------------------------------------------------------------
(* Building the plan *)

Init ==
    /\ added = <<>>
    /\ needReload = FALSE
    /\ phase = "adding"
    /\ log = <<>>

IsHostReload(a) == a.kind = "Host" /\ a.todo = "Reload"

(* What Add stores: an action without a priority gets the default one, and *)
(* goes to the service list when it acts on a service; an action with a    *)
(* priority of its own always goes to the resource list.                   *)
Entry(a) ==
    [todo |-> a.todo, kind |-> a.kind, comp |-> a.comp, path |-> a.path,
     prio |-> IF a.priority = 0 THEN DefaultPriority(a.kind, a.todo) ELSE a.priority,
     list |-> IF a.priority = 0 /\ IsServiceAction(a.todo) THEN "service" ELSE "resource"]

Accepts(a) ==
    /\ ValidAction(a.kind, a.todo)
    /\ a.priority = 0 => a.todo \in PlannedTodos(a.kind)

Add(a) ==
    /\ phase = "adding"
    /\ Len(added) < MaxAdds
    /\ Accepts(a)
    /\ IF IsHostReload(a) /\ a.priority = 0
       THEN needReload' = TRUE /\ added' = added
       ELSE needReload' = needReload /\ added' = Append(added, Entry(a))
    /\ UNCHANGED <<phase, log>>

Finish ==
    /\ phase = "adding"
    /\ phase' = "stepping"
    /\ UNCHANGED <<added, needReload, log>>

-----------------------------------------------------------------------------
(* The steps of the plan *)

Act(i)     == [op |-> "action", i |-> i]
ReloadStep == [op |-> "reload", i |-> 0]
ZeroStep(i) == [op |-> "zero", i |-> i]  \* Action{}: see LoneToggle

Entries(l) == {i \in DOMAIN added : added[i].list = l}

SamePath(i, j) ==
    added[i].comp = added[j].comp /\ added[i].path = added[j].path

IsToggle(i) == added[i].todo \in {"Enable", "Disable"}

EndState(todo) ==
    CASE todo = "Reload" -> 1 [] todo = "Start" -> 2
      [] todo = "Restart" -> 3 [] todo = "Stop" -> 4 [] OTHER -> 0

(* Mutant: nothing is coalesced.                                           *)
EveryChangeSurvives(i) == TRUE

(* coalesceServices keeps, of the changes to one service, the first of     *)
(* those that ask for the strongest end state.                             *)
Survives(i) ==
    \A j \in Entries("service") : SamePath(i, j) /\ ~IsToggle(j) =>
        \/ EndState(added[j].todo) < EndState(added[i].todo)
        \/ EndState(added[j].todo) = EndState(added[i].todo) /\ i <= j

(* A service that is only enabled or disabled has an entry in              *)
(* serviceResults and none in serviceActions: the code then appends the    *)
(* zero Action.  i stands for the first toggle of that service.            *)
LoneToggle(i) ==
    /\ IsToggle(i)
    /\ \A j \in Entries("service") : SamePath(i, j) => IsToggle(j) /\ i <= j

ResourceSteps ==
    {Act(i) : i \in Entries("resource")} \cup (IF needReload THEN {ReloadStep} ELSE {})

ServiceSteps ==
    {Act(i) : i \in {k \in Entries("service") : IsToggle(k) \/ Survives(k)}}
    \cup {ZeroStep(i) : i \in {k \in Entries("service") : LoneToggle(k)}}

Prio(s) == IF s.op = "action" THEN added[s.i].prio ELSE 0

(* Mutant: the changes of a component are not sorted.                      *)
UnsortedBefore(s, t) ==
    \/ s.op # "reload" /\ t.op = "reload"
    \/ /\ s.op # "reload" /\ t.op # "reload"
       /\ \/ added[s.i].comp < added[t.i].comp
          \/ added[s.i].comp = added[t.i].comp /\ s.i < t.i

(* Resource steps go component by component, each sorted by priority and   *)
(* then by age; the reload is last.                                        *)
ResourceBefore(s, t) ==
    \/ s.op # "reload" /\ t.op = "reload"
    \/ /\ s.op # "reload" /\ t.op # "reload"
       /\ \/ added[s.i].comp < added[t.i].comp
          \/ /\ added[s.i].comp = added[t.i].comp
             /\ \/ Prio(s) < Prio(t)
                \/ Prio(s) = Prio(t) /\ s.i < t.i

(* Service steps are sorted by priority over all components; among equals  *)
(* by component, toggles first and by age, the others by service name.     *)
ServiceBefore(s, t) ==
    LET toggle(u) == u.op = "action" /\ IsToggle(u.i) IN
    \/ Prio(s) < Prio(t)
    \/ /\ Prio(s) = Prio(t)
       /\ \/ added[s.i].comp < added[t.i].comp
          \/ /\ added[s.i].comp = added[t.i].comp
             /\ \/ toggle(s) /\ ~toggle(t)
                \/ toggle(s) /\ toggle(t) /\ s.i < t.i
                \/ ~toggle(s) /\ ~toggle(t) /\ added[s.i].path < added[t.i].path

Done == {log[k] : k \in DOMAIN log}

NextResource(s) ==
    /\ s \in ResourceSteps \ Done
    /\ \A t \in ResourceSteps \ Done : t = s \/ ResourceBefore(s, t)

NextService(s) ==
    /\ s \in ServiceSteps \ Done
    /\ \A t \in ServiceSteps \ Done : t = s \/ ServiceBefore(s, t)

(* Mutants of the merge: a resource step that does not wait for services,   *)
(* a service step that waits for nothing, one that an equal priority blocks. *)
ResourceAnyTime(s) == NextResource(s)

ServiceAnyTime(s) == NextService(s)

ServiceStrictlyBefore(s) ==
    /\ NextService(s)
    /\ \/ ResourceSteps \subseteq Done
       \/ \E t \in ResourceSteps : NextResource(t) /\ Prio(s) < Prio(t)

(* mergeStepsIntoPlan: before each resource step, the service steps whose  *)
(* priority is not above its own.                                          *)
ResourceDue(s) == NextResource(s) /\ \A t \in ServiceSteps \ Done : Prio(s) < Prio(t)

ServiceDue(s) ==
    /\ NextService(s)
    /\ \/ ResourceSteps \subseteq Done
       \/ \E t \in ResourceSteps : NextResource(t) /\ Prio(s) <= Prio(t)

RunResource(s) ==
    /\ phase = "stepping"
    /\ ResourceDue(s)
    /\ log' = Append(log, s)
    /\ UNCHANGED <<added, needReload, phase>>

RunService(s) ==
    /\ phase = "stepping"
    /\ ServiceDue(s)
    /\ log' = Append(log, s)
    /\ UNCHANGED <<added, needReload, phase>>

RunStep ==
    \/ \E s \in ResourceSteps : RunResource(s)
    \/ \E s \in ServiceSteps : RunService(s)

Next ==
    \/ \E a \in Candidates : Add(a)
    \/ Finish
    \/ RunStep

Spec == Init /\ [][Next]_vars

-----------------------------------------------------------------------------
(* Properties *)

PlanEntry == [todo : Todos, kind : Kinds, comp : Nat, path : Nat,
              prio : Nat \ {0}, list : {"resource", "service"}]

PlanStep == [op : {"action", "reload", "zero"}, i : Nat]

TypeOK ==
    /\ added \in Seq(PlanEntry)
    /\ needReload \in BOOLEAN
    /\ phase \in {"adding", "stepping"}
    /\ log \in Seq(PlanStep)

(* Add, Steps and mergeStepsIntoPlan together: no file of any component    *)
(* is written or removed while a service of any component that the plan    *)
(* stops may still be running.                                             *)
StopsFirst ==
    \A i \in Entries("resource") : Act(i) \in Done =>
        \A j \in Entries("service") :
            added[j].todo = "Stop" /\ Survives(j) => Act(j) \in Done

(* A plan whose resource steps all have a priority below 6 runs in two     *)
(* stages: no service is started, restarted, reloaded or enabled before    *)
(* every resource step of every component and the daemon-reload are done.  *)
TwoStages ==
    (\A i \in Entries("resource") : added[i].prio < 6) =>
        \A j \in Entries("service") :
            added[j].todo # "Stop" /\ Act(j) \in Done => ResourceSteps \subseteq Done

(* Inside a component, what the planner gave no priority of its own runs   *)
(* in the order the file system needs: the component is made before the    *)
(* files put in it, and removed after the files taken out of it.           *)
DirectoryOrder ==
    \A i, j \in Entries("resource") :
        /\ added[i].comp = added[j].comp
        /\ added[i].kind = "Component"
        /\ ~IsDirectory(added[j].kind)
        /\ added[i].prio = DefaultPriority("Component", added[i].todo)
        /\ added[j].prio = DefaultPriority(added[j].kind, added[j].todo)
        =>
        /\ added[i].todo = "Install" /\ added[j].todo = "Install" /\ Act(j) \in Done
               => Act(i) \in Done
        /\ added[i].todo = "Remove" /\ added[j].todo = "Remove" /\ Act(i) \in Done
               => Act(j) \in Done

(* One plan changes the state of one service at most once, and asks for    *)
(* the strongest of the end states it was given: a stop is never undone by *)
(* a start or a restart added to the same plan.                            *)
OneChangePerService ==
    \A i, j \in Entries("service") :
        SamePath(i, j) /\ ~IsToggle(i) /\ ~IsToggle(j) /\ Act(i) \in Done =>
            /\ Act(j) \in Done => i = j
            /\ EndState(added[j].todo) <= EndState(added[i].todo)

(* Every planned action the merged order gives has a handler: what the     *)
(* planner asks for, the executor can do.                                  *)
EveryStepHandled ==
    \A s \in Done : s.op = "action" => HasHandler(added[s.i].kind, added[s.i].todo)
=============================================================================
