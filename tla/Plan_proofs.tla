----------------------------- MODULE Plan_proofs -----------------------------
(***************************************************************************)
(* The order of a plan's steps, for every set of actions the planner may   *)
(* add and any number of them, and that the executor has a handler for     *)
(* each.                                                                   *)
(***************************************************************************)
EXTENDS Plan, TLAPS

LEMMA PriorityPositive ==
  \A kind, todo : DefaultPriority(kind, todo) \in Nat \ {0}
  BY DEF DefaultPriority

(* The priorities the order of a plan rests on.                            *)
LEMMA ServicePriorities ==
  ASSUME NEW kind, NEW todo, IsServiceAction(todo), ~(kind = "Host" /\ todo = "Reload")
  PROVE  DefaultPriority(kind, todo) = IF todo = "Stop" THEN 1 ELSE 6
  BY DEF DefaultPriority, IsServiceAction, IsDirectory

LEMMA DirectoryPriorities ==
  ASSUME NEW kind, ~IsDirectory(kind)
  PROVE  /\ DefaultPriority("Component", "Install") < DefaultPriority(kind, "Install")
         /\ DefaultPriority(kind, "Remove") < DefaultPriority("Component", "Remove")
  BY DEF DefaultPriority, IsDirectory

LEMMA EntryType ==
  ASSUME NEW a \in Candidates
  PROVE  Entry(a) \in PlanEntry
  BY PlanAssumption, PriorityPositive DEF Entry, Input, PlanEntry

LEMMA EntryFields ==
  ASSUME TypeOK, NEW i \in DOMAIN added
  PROVE  added[i].prio \in Nat \ {0} /\ added[i].comp \in Nat /\ i \in Nat
<1>1. added[i] \in PlanEntry /\ i \in Nat
  BY DEF TypeOK
<1> QED
  BY <1>1 DEF PlanEntry

-----------------------------------------------------------------------------
(* No action takes a variable out of its type.                             *)
THEOREM TypeCorrect == Spec => []TypeOK
<1>1. Init => TypeOK
  <2>1. Init => added \in Seq(PlanEntry) /\ log \in Seq(PlanStep)
    BY DEF Init
  <2>2. Init => needReload \in BOOLEAN /\ phase \in {"adding", "stepping"}
    BY DEF Init
  <2> QED
    BY <2>1, <2>2 DEF TypeOK
<1>2. TypeOK /\ [Next]_vars => TypeOK'
  <2> SUFFICES ASSUME TypeOK, [Next]_vars PROVE TypeOK'
    OBVIOUS
  <2>1. ASSUME NEW a \in Candidates, Add(a) PROVE TypeOK'
    <3>1. added' \in Seq(PlanEntry)
      BY <2>1, EntryType DEF TypeOK, Add
    <3>2. needReload' \in BOOLEAN /\ phase' \in {"adding", "stepping"} /\ log' = log
      BY <2>1 DEF TypeOK, Add
    <3> QED
      BY <3>1, <3>2 DEF TypeOK
  <2>2. CASE Finish
    BY <2>2 DEF TypeOK, Finish
  <2>3. ASSUME NEW s \in ResourceSteps, RunResource(s) PROVE TypeOK'
    <3>1. s \in PlanStep
      BY DEF PlanStep, TypeOK, ResourceSteps, Entries, Act, ReloadStep
    <3> QED
      BY <2>3, <3>1 DEF TypeOK, RunResource, ResourceDue
  <2>4. ASSUME NEW s \in ServiceSteps, RunService(s) PROVE TypeOK'
    <3>1. s \in PlanStep
      BY DEF PlanStep, TypeOK, ServiceSteps, Entries, Act, ZeroStep
    <3> QED
      BY <2>4, <3>1 DEF TypeOK, RunService, ServiceDue
  <2>5. CASE UNCHANGED vars
    BY <2>5 DEF TypeOK, vars
  <2> QED
    BY <2>1, <2>2, <2>3, <2>4, <2>5 DEF Next, RunStep
<1> QED
  BY <1>1, <1>2, PTL DEF Spec

-----------------------------------------------------------------------------
(* What the order rests on: nothing runs while actions are still added,    *)
(* only steps of the plan run, and an entry of the service list changes a  *)
(* service with its default priority.                                      *)
NothingRunsEarly == phase = "adding" => log = <<>>

OnlyStepsRun == Done \subseteq ResourceSteps \cup ServiceSteps

ServiceEntry(e) ==
    /\ IsServiceAction(e.todo)
    /\ e.prio = IF e.todo = "Stop" THEN 1 ELSE 6

ServiceList == \A j \in Entries("service") : ServiceEntry(added[j])

Shape == TypeOK /\ NothingRunsEarly /\ OnlyStepsRun /\ ServiceList

LEMMA DoneAppend ==
  ASSUME TypeOK, NEW s, log' = Append(log, s)
  PROVE  Done' = Done \cup {s}
  BY DEF TypeOK, Done

LEMMA Frame ==
  ASSUME UNCHANGED <<added, needReload>>
  PROVE  /\ ResourceSteps' = ResourceSteps
         /\ ServiceSteps' = ServiceSteps
         /\ \A l : Entries(l)' = Entries(l)
         /\ \A i : Survives(i)' = Survives(i)
         /\ \A i, j : SamePath(i, j)' = SamePath(i, j)
         /\ \A i : IsToggle(i)' = IsToggle(i)
<1>1. \A l : Entries(l)' = Entries(l)
  BY DEF Entries
<1>2. /\ \A i : IsToggle(i)' = IsToggle(i)
      /\ \A i, j : SamePath(i, j)' = SamePath(i, j)
  BY DEF IsToggle, SamePath
<1>3. \A i : Survives(i)' = Survives(i)
  BY <1>1, <1>2 DEF Survives
<1>4. \A i : LoneToggle(i)' = LoneToggle(i)
  BY <1>1, <1>2 DEF LoneToggle
<1> QED
  BY <1>1, <1>2, <1>3, <1>4 DEF ResourceSteps, ServiceSteps

(* Add puts an action on the service list only with its default priority.  *)
LEMMA AddKeepsServiceList ==
  ASSUME TypeOK, ServiceList, NEW a \in Candidates, Add(a)
  PROVE  ServiceList'
<1>1. CASE IsHostReload(a) /\ a.priority = 0
  BY <1>1 DEF Add, ServiceList, Entries, ServiceEntry
<1>2. CASE ~(IsHostReload(a) /\ a.priority = 0)
  <2>1. added' = Append(added, Entry(a))
    BY <1>2 DEF Add
  <2>2. Entry(a).list = "service" => ServiceEntry(Entry(a))
    BY <1>2, ServicePriorities DEF Entry, ServiceEntry, IsHostReload
  <2>3. \A j \in DOMAIN added' :
            added'[j] = Entry(a) \/ (j \in DOMAIN added /\ added'[j] = added[j])
    BY <2>1, EntryType DEF TypeOK
  <2> QED
    BY <2>2, <2>3 DEF ServiceList, Entries
<1> QED
  BY <1>1, <1>2

LEMMA ShapeInvariant == Spec => []Shape
<1>1. TypeOK /\ Init => Shape
  BY DEF Init, Shape, NothingRunsEarly, OnlyStepsRun, ServiceList, Entries, Done
<1>2. TypeOK' /\ Shape /\ [Next]_vars => Shape'
  <2> SUFFICES ASSUME TypeOK', Shape, [Next]_vars PROVE Shape'
    OBVIOUS
  <2>1. ASSUME NEW a \in Candidates, Add(a) PROVE Shape'
    <3>1. log' = <<>> /\ phase' = "adding" /\ Done' = {}
      BY <2>1 DEF Add, Shape, NothingRunsEarly, Done
    <3> QED
      BY <2>1, <3>1, AddKeepsServiceList DEF Shape, NothingRunsEarly, OnlyStepsRun
  <2>2. CASE Finish
    BY <2>2, Frame DEF Finish, Shape, NothingRunsEarly, OnlyStepsRun, ServiceList, Done, ServiceEntry
  <2>3. ASSUME NEW s \in ResourceSteps \cup ServiceSteps, RunResource(s) \/ RunService(s)
        PROVE  Shape'
    <3>1. /\ phase' = "stepping" /\ log' = Append(log, s)
          /\ UNCHANGED <<added, needReload>>
      BY <2>3 DEF RunResource, ResourceDue, RunService, ServiceDue
    <3> QED
      BY <3>1, Frame, DoneAppend
      DEF Shape, NothingRunsEarly, OnlyStepsRun, ServiceList, ServiceEntry
  <2>4. CASE UNCHANGED vars
    BY <2>4, Frame DEF vars, Shape, NothingRunsEarly, OnlyStepsRun, ServiceList, Done, ServiceEntry
  <2> QED
    BY <2>1, <2>2, <2>3, <2>4 DEF Next, RunStep
<1> QED
  BY <1>1, <1>2, TypeCorrect, PTL DEF Spec

-----------------------------------------------------------------------------
(* The order itself.  Done only grows by the step that runs, so each       *)
(* property is checked at the moment its second step runs.                 *)

LEMMA RunExtends ==
  ASSUME TypeOK, NEW s, RunResource(s) \/ RunService(s)
  PROVE  Done' = Done \cup {s} /\ UNCHANGED <<added, needReload>>
<1>1. log' = Append(log, s) /\ UNCHANGED <<added, needReload>>
  BY DEF RunResource, ResourceDue, RunService, ServiceDue
<1> QED
  BY <1>1, DoneAppend

(* A property of Done and the plan survives every step that runs nothing.  *)
LEMMA NothingRun ==
  ASSUME Shape, Finish \/ UNCHANGED vars
  PROVE  Done' = Done /\ UNCHANGED <<added, needReload>>
  BY DEF Finish, vars, Done

LEMMA NothingDone ==
  ASSUME Shape, NEW a \in Candidates, Add(a)
  PROVE  Done' = {}
  BY DEF Add, Shape, NothingRunsEarly, Done

(* The act of a resource entry is a resource step, that of a service entry *)
(* a service step, never the other way around.                             *)
LEMMA ListsDisjoint ==
  ASSUME NEW i
  PROVE  /\ Act(i) \in ResourceSteps <=> i \in Entries("resource")
         /\ Act(i) \in ServiceSteps <=> i \in Entries("service") /\ (IsToggle(i) \/ Survives(i))
         /\ \A j : Act(j) = Act(i) => j = i
  BY DEF ResourceSteps, ServiceSteps, Entries, Act, ReloadStep, ZeroStep

(* No file of any component changes before every stop has run.             *)
THEOREM StopsFirstHolds == Spec => []StopsFirst
<1>1. Init => StopsFirst
  BY DEF Init, StopsFirst, Entries
<1>2. Shape /\ StopsFirst /\ [Next]_vars => StopsFirst'
  <2> SUFFICES ASSUME Shape, StopsFirst, [Next]_vars PROVE StopsFirst'
    OBVIOUS
  <2>1. ASSUME NEW a \in Candidates, Add(a) PROVE StopsFirst'
    BY <2>1, NothingDone DEF StopsFirst
  <2>2. CASE Finish \/ UNCHANGED vars
    BY <2>2, NothingRun, Frame DEF StopsFirst
  <2>3. ASSUME NEW s \in ResourceSteps, RunResource(s) PROVE StopsFirst'
    <3>1. Done' = Done \cup {s} /\ UNCHANGED <<added, needReload>>
      BY <2>3, RunExtends DEF Shape
    <3>2. ASSUME NEW i \in Entries("resource"), Act(i) = s,
                 NEW j \in Entries("service"), added[j].todo = "Stop", Survives(j)
          PROVE  Act(j) \in Done
      <4>1. Act(j) \in ServiceSteps /\ Prio(Act(j)) = 1
        BY <3>2, ListsDisjoint DEF Shape, ServiceList, ServiceEntry, Prio, Act
      <4>2. Prio(s) \in Nat \ {0}
        BY <3>2, EntryFields DEF Prio, Act, Shape, Entries
      <4> QED
        BY <2>3, <4>1, <4>2 DEF RunResource, ResourceDue
    <3> QED
      BY <3>1, <3>2, Frame DEF StopsFirst
  <2>4. ASSUME NEW s \in ServiceSteps, RunService(s) PROVE StopsFirst'
    <3>1. Done' = Done \cup {s} /\ UNCHANGED <<added, needReload>>
      BY <2>4, RunExtends DEF Shape
    <3>2. \A i \in Entries("resource") : Act(i) # s
      BY DEF ServiceSteps, Entries, Act, ZeroStep
    <3> QED
      BY <3>1, <3>2, Frame DEF StopsFirst
  <2> QED
    BY <2>1, <2>2, <2>3, <2>4 DEF Next, RunStep
<1> QED
  BY <1>1, <1>2, ShapeInvariant, PTL DEF Spec

(* No service starts before every file is in place and the units reloaded, *)
(* if no resource step has a priority of 6 or more.                        *)
THEOREM TwoStagesHolds == Spec => []TwoStages
<1>1. Init => TwoStages
  BY DEF Init, TwoStages, Entries
<1>2. Shape /\ TwoStages /\ [Next]_vars => TwoStages'
  <2> SUFFICES ASSUME Shape, TwoStages, [Next]_vars PROVE TwoStages'
    OBVIOUS
  <2>1. ASSUME NEW a \in Candidates, Add(a) PROVE TwoStages'
    BY <2>1, NothingDone DEF TwoStages
  <2>2. CASE Finish \/ UNCHANGED vars
    BY <2>2, NothingRun, Frame DEF TwoStages
  <2>3. ASSUME NEW s \in ResourceSteps, RunResource(s) PROVE TwoStages'
    <3>1. Done' = Done \cup {s} /\ UNCHANGED <<added, needReload>>
      BY <2>3, RunExtends DEF Shape
    <3>2. \A j \in Entries("service") : Act(j) # s
      BY DEF ResourceSteps, Entries, Act, ReloadStep
    <3> QED
      BY <3>1, <3>2, Frame DEF TwoStages
  <2>4. ASSUME NEW s \in ServiceSteps, RunService(s) PROVE TwoStages'
    <3>1. Done' = Done \cup {s} /\ UNCHANGED <<added, needReload>>
      BY <2>4, RunExtends DEF Shape
    <3>2. ASSUME \A i \in Entries("resource") : added[i].prio < 6,
                 NEW j \in Entries("service"), added[j].todo # "Stop", Act(j) = s
          PROVE  ResourceSteps \subseteq Done
      <4>1. Prio(s) = 6
        BY <3>2 DEF Shape, ServiceList, ServiceEntry, Prio, Act
      <4>2. ASSUME NEW t \in ResourceSteps PROVE ~(Prio(s) <= Prio(t))
        <5>1. CASE t = ReloadStep
          BY <4>1, <5>1 DEF Prio, ReloadStep
        <5>2. ASSUME NEW i \in Entries("resource"), t = Act(i)
              PROVE  ~(Prio(s) <= Prio(t))
          <6>1. Prio(t) = added[i].prio
            BY <5>2 DEF Prio, Act
          <6>2. added[i].prio < 6 /\ added[i].prio \in Nat
            BY <3>2, EntryFields DEF Shape, Entries
          <6> QED
            BY <4>1, <6>1, <6>2
        <5> QED
          BY <5>1, <5>2 DEF ResourceSteps
      <4> QED
        BY <2>4, <4>2 DEF RunService, ServiceDue
    <3> QED
      BY <3>1, <3>2, Frame DEF TwoStages
  <2> QED
    BY <2>1, <2>2, <2>3, <2>4 DEF Next, RunStep
<1> QED
  BY <1>1, <1>2, ShapeInvariant, PTL DEF Spec

(* Of the changes to one service only one runs, the strongest.             *)
THEOREM OneChangeHolds == Spec => []OneChangePerService
<1>1. Shape => OneChangePerService
  <2> SUFFICES ASSUME Shape, NEW i \in Entries("service"), NEW j \in Entries("service"),
                      SamePath(i, j), ~IsToggle(i), ~IsToggle(j), Act(i) \in Done
               PROVE  /\ Act(j) \in Done => i = j
                      /\ EndState(added[j].todo) <= EndState(added[i].todo)
    BY DEF OneChangePerService
  <2>1. ASSUME NEW k \in Entries("service"), Act(k) \in Done, ~IsToggle(k)
        PROVE  Survives(k)
    <3>1. k \notin Entries("resource")
      BY <2>1 DEF Entries
    <3> QED
      BY <2>1, <3>1, ListsDisjoint DEF Shape, OnlyStepsRun
  <2>2. i \in Nat /\ j \in Nat /\ \A todo : EndState(todo) \in Nat
    BY DEF Shape, TypeOK, Entries, EndState
  <2>3. SamePath(j, i)
    BY DEF SamePath
  <2> QED
    BY <2>1, <2>2, <2>3 DEF Survives
<1> QED
  BY <1>1, ShapeInvariant, PTL

(* A component is made before the files in it and removed after them.      *)
THEOREM DirectoryOrderHolds == Spec => []DirectoryOrder
<1>1. Init => DirectoryOrder
  BY DEF Init, DirectoryOrder, Entries
<1>2. Shape /\ DirectoryOrder /\ [Next]_vars => DirectoryOrder'
  <2> SUFFICES ASSUME Shape, DirectoryOrder, [Next]_vars PROVE DirectoryOrder'
    OBVIOUS
  <2>1. ASSUME NEW a \in Candidates, Add(a) PROVE DirectoryOrder'
    BY <2>1, NothingDone DEF DirectoryOrder
  <2>2. CASE Finish \/ UNCHANGED vars
    BY <2>2, NothingRun, Frame DEF DirectoryOrder
  <2>3. ASSUME NEW s \in ResourceSteps, RunResource(s) PROVE DirectoryOrder'
    <3>1. Done' = Done \cup {s} /\ UNCHANGED <<added, needReload>>
      BY <2>3, RunExtends DEF Shape
    <3>2. ASSUME NEW k \in Entries("resource"), NEW m \in Entries("resource"),
                 added[k].comp = added[m].comp, added[m].prio < added[k].prio, Act(k) = s
          PROVE  Act(m) \in Done
      <4>1. added[k].prio \in Nat /\ added[m].prio \in Nat /\ added[k].comp \in Nat
        BY EntryFields DEF Shape, Entries
      <4>2. Act(m) \in ResourceSteps /\ Act(m) # s
        <5>1. m # k
          BY <3>2, <4>1
        <5> QED
          BY <3>2, <5>1 DEF ResourceSteps, Act
      <4>3. ~ResourceBefore(s, Act(m))
        BY <3>2, <4>1 DEF ResourceBefore, Prio, Act
      <4> QED
        BY <2>3, <4>2, <4>3 DEF RunResource, ResourceDue, NextResource
    <3>3. ASSUME NEW i \in Entries("resource"), NEW j \in Entries("resource"),
                 added[i].kind = "Component", ~IsDirectory(added[j].kind),
                 added[i].prio = DefaultPriority("Component", added[i].todo),
                 added[j].prio = DefaultPriority(added[j].kind, added[j].todo)
          PROVE  /\ added[i].todo = "Install" /\ added[j].todo = "Install"
                        => added[i].prio < added[j].prio
                 /\ added[i].todo = "Remove" /\ added[j].todo = "Remove"
                        => added[j].prio < added[i].prio
      BY <3>3, DirectoryPriorities
    <3> QED
      BY <3>1, <3>2, <3>3, Frame DEF DirectoryOrder
  <2>4. ASSUME NEW s \in ServiceSteps, RunService(s) PROVE DirectoryOrder'
    <3>1. Done' = Done \cup {s} /\ UNCHANGED <<added, needReload>>
      BY <2>4, RunExtends DEF Shape
    <3>2. \A i \in Entries("resource") : Act(i) # s
      BY DEF ServiceSteps, Entries, Act, ZeroStep
    <3> QED
      BY <3>1, <3>2, Frame DEF DirectoryOrder
  <2> QED
    BY <2>1, <2>2, <2>3, <2>4 DEF Next, RunStep
<1> QED
  BY <1>1, <1>2, ShapeInvariant, PTL DEF Spec

-----------------------------------------------------------------------------
(* The planner and the executor                                            *)

(* What the planner asks for: files of any kind, scripts, what podman has  *)
(* for a quadlet, and services.  It also asks for a service change of a    *)
(* .volume, or a reload of a .kube, .network, .build or .image, if a       *)
(* manifest names one so; the executor has no handler for those.           *)
PlannerAsks(a) ==
    \/ a.todo \in FileTodos /\ a.priority = 0
    \/ IsHostReload(a)
    \/ a.kind = "Script" /\ a.todo \in {"Setup", "Execute", "Cleanup"}
    \/ a.kind \in {"Network", "Build", "Image"} /\ a.todo = "Cleanup"
    \/ a.kind = "Network" /\ a.todo = "Ensure"
    \/ a.kind = "Volume" /\ a.todo \in {"Cleanup", "Dump", "Ensure", "Import"}
    \/ a.kind \in {"Container", "Pod", "Service"} /\ IsServiceAction(a.todo)
    \/ /\ a.kind \in {"Kube", "Network", "Build", "Image"}
       /\ IsServiceAction(a.todo) /\ a.todo # "Reload"

(* Whatever of it a plan accepts has a handler.                            *)
LEMMA AcceptedHandled ==
  ASSUME NEW a, a.kind \in Kinds, PlannerAsks(a), Accepts(a)
  PROVE  HasHandler(a.kind, a.todo)
<1>1. CASE a.todo \in FileTodos /\ a.priority = 0
  <2>1. a.todo \in PlannedTodos(a.kind) /\ a.todo \in {"Install", "Update", "Remove"}
    BY <1>1 DEF Accepts, FileTodos
  <2>2. QED
    BY <2>1 DEF PlannedTodos, HasHandler, HandledTodos, FileTodos, UnitTodos, ServiceTodos,
                Kinds, QuadletKinds
<1>2. CASE ~(a.todo \in FileTodos /\ a.priority = 0)
  BY <1>2 DEF PlannerAsks, IsHostReload, IsServiceAction, HasHandler, HandledTodos, FileTodos,
              UnitTodos, ServiceTodos
<1>3. QED
  BY <1>1, <1>2

EntriesHandled == \A i \in DOMAIN added : HasHandler(added[i].kind, added[i].todo)

LEMMA EntriesHandledKept ==
  ASSUME \A a \in Candidates : PlannerAsks(a), TypeOK, EntriesHandled, [Next]_vars
  PROVE  EntriesHandled'
<1>1. ASSUME NEW a \in Candidates, Add(a) PROVE EntriesHandled'
  <2>1. HasHandler(a.kind, a.todo)
    BY <1>1, PlanAssumption, AcceptedHandled DEF Add, Input
  <2>2. Entry(a).kind = a.kind /\ Entry(a).todo = a.todo
    BY DEF Entry
  <2>3. added' = added \/ added' = Append(added, Entry(a))
    BY <1>1 DEF Add
  <2>4. \A i \in DOMAIN added' : added'[i] = Entry(a) \/ (i \in DOMAIN added /\ added'[i] = added[i])
    BY <2>3, EntryType DEF TypeOK
  <2>5. QED
    BY <2>1, <2>2, <2>4 DEF EntriesHandled
<1>2. CASE added' = added
  BY <1>2 DEF EntriesHandled
<1>3. QED
  BY <1>1, <1>2 DEF Next, Finish, RunStep, RunResource, RunService, vars

(* The planner's pairs, the pairs a plan accepts and the handler table     *)
(* agree: no step of an accepted plan stops for want of a handler.         *)
THEOREM EveryStepHandledHolds ==
  ASSUME \A a \in Candidates : PlannerAsks(a)
  PROVE  Spec => []EveryStepHandled
<1>1. Init => EntriesHandled
  BY DEF Init, EntriesHandled
<1>2. TypeOK /\ EntriesHandled /\ [Next]_vars => EntriesHandled'
  BY EntriesHandledKept
<1>3. Shape /\ EntriesHandled => EveryStepHandled
  <2>1. SUFFICES ASSUME Shape, EntriesHandled, NEW s \in Done, s.op = "action"
                 PROVE  HasHandler(added[s.i].kind, added[s.i].todo)
    BY DEF EveryStepHandled
  <2>2. s \in ResourceSteps \cup ServiceSteps
    BY <2>1 DEF Shape, OnlyStepsRun
  <2>3. s.i \in DOMAIN added
    BY <2>1, <2>2 DEF ResourceSteps, ServiceSteps, Entries, Act, ReloadStep, ZeroStep
  <2>4. QED
    BY <2>1, <2>3 DEF EntriesHandled
<1>4. QED
  BY <1>1, <1>2, <1>3, TypeCorrect, ShapeInvariant, PTL DEF Spec
=============================================================================
