-------------------------------- MODULE Planner --------------------------------
(***************************************************************************)
(* Planner.Plan: the differences between the components installed on the   *)
(* host and those the source assigns to it, as the steps of a plan.        *)
(***************************************************************************)
EXTENDS HostRepository, PlanSteps

CONSTANTS
    Comps,      \* component names, numbered in their order
    ServicesIn  \* [contents of a manifest -> the containers it has services for]

(* An action without a priority of its own, as Plan.Add files it.          *)
Filed(todo, kind, c, p, content) ==
    [todo |-> todo, kind |-> kind, comp |-> c, path |-> p, content |-> content,
     prio |-> DefaultPriority(kind, todo),
     list |-> IF IsServiceAction(todo) THEN "service" ELSE "resource"]

OnResource(todo, c, p, content) == Filed(todo, KindOf[p], c, p, content)

OnComponent(todo, c) == Filed(todo, "Component", c, 0, Blank)

(* Sets of paths as lists: by name, as a host component lists them, from   *)
(* the end of that list, as a source component does, where                 *)
(* SourceComponentRepository.GetComponent adds the manifest last.          *)
ByName(S) == InOrder(S, <)

HostListing(S) == InOrder(S, HostOrder)

BackwardListing(S) == InOrder(S, LAMBDA p, q : HostOrder(q, p))

SourceOrder(p, q) == p # Manifest /\ (q = Manifest \/ p < q)

(* Mutant: the manifest is where its name puts it.                         *)
InPathOrder(S) == InOrder(S, <)

SourceListing(S) == InOrder(S, SourceOrder)

(* The services of a component: its manifest is not read when its version  *)
(* file does not hold the version this Materia writes.                     *)
HostServices(d) == IF d.version = "current" THEN ServicesIn[d.at[Manifest]] ELSE {}

-----------------------------------------------------------------------------
(* generateFreshComponentResources *)
FreshResources(c, files) ==
    <<OnComponent("Install", c)>>
    \o MapSeq(SourceListing({p \in Paths : files[p] # Absent}),
              LAMBDA p : OnResource("Install", c, p, files[p]))

(* generateRemovedComponentResources: the last listed goes first, and what *)
(* is no file after the files.                                             *)
RemovedResources(c, d) ==
    LET held == Held(d) \ {Manifest}
        removed(S) == MapSeq(BackwardListing(S), LAMBDA p : OnResource("Remove", c, p, Absent))
    IN  removed({p \in held : IsFile(KindOf[p])})
        \o removed({p \in held : ~IsFile(KindOf[p])})
        \o <<OnResource("Remove", c, Manifest, Absent), OnComponent("Remove", c)>>

(* Mutants: drop-ins are dropped too; the file there is never compared.    *)
DroppedWithDropins(d, files) == {p \in Held(d) : files[p] = Absent}

NothingChanged(d, files) == {}

(* Drop-ins are the user's.                                                *)
Dropped(d, files) ==
    {p \in Held(d) : files[p] = Absent /\ KindOf[p] \notin {"Dropin", "DropinDir"}}

Changed(d, files) == {p \in Held(d) : files[p] \notin {Absent, d.at[p]}}

(* generateUpdatedComponentResources.  The update of a version file another *)
(* Materia wrote is PlanUpdatedComponent's.                                *)
UpdatedResources(c, d, files) ==
    LET removed == HostListing(Dropped(d, files))
        fresh   == SourceListing({p \in Paths : files[p] # Absent /\ d.at[p] = Absent})
        changed == HostListing(Changed(d, files))
    IN  MapSeq(removed, LAMBDA p : OnResource("Remove", c, p, Absent))
        \o MapSeq(fresh, LAMBDA p : OnResource("Install", c, p, files[p]))
        \o MapSeq(changed, LAMBDA p : OnResource("Update", c, p, files[p]))
        \o (IF d.version = "current" THEN <<>> ELSE <<OnComponent("Update", c)>>)

-----------------------------------------------------------------------------
(* Services.  loaded and running give, for each container of the           *)
(* component, the contents of the unit systemd has loaded and of the unit  *)
(* the running service was started from.                                   *)

Found(live, p) == live.loaded[p] # Absent

(* processTriggeredUpdates with the triggers every container has without a *)
(* RestartedBy of its own: a changed container is restarted, whether or    *)
(* not it runs.                                                            *)
Triggering(files, resources) ==
    {p \in Paths : /\ files[p] # Absent
                   /\ \E i \in DOMAIN resources :
                          resources[i].kind = "Container" /\ resources[i].path = p}

TriggersFound(files, resources, live) ==
    \A p \in Triggering(files, resources) : Found(live, p)

(* Mutant: no container has a trigger of its own.                          *)
NoRestarts(c, files, resources) == <<>>

TriggeredRestarts(c, files, resources) ==
    MapSeq(ByName(Triggering(files, resources)), LAMBDA p : OnResource("Restart", c, p, Absent))

(* GenerateServiceActions: a service no longer assigned is stopped if its  *)
(* unit exists, an assigned one started unless it runs.                    *)
ServiceActions(c, assigned, installed, live) ==
    LET stopped == {p \in Paths : p \in installed \ assigned /\ Found(live, p)}
        started == {p \in Paths : /\ p \in assigned
                                  /\ ~Found(live, p) \/ live.running[p] = Absent}
    IN  MapSeq(ByName(stopped), LAMBDA p : OnResource("Stop", c, p, Absent))
        \o MapSeq(ByName(started), LAMBDA p : OnResource("Start", c, p, Absent))

-----------------------------------------------------------------------------
(* One component of the graph: its actions, whether it asks for a          *)
(* daemon-reload, and whether planning it succeeds.                        *)
PlanComponent(c, d, files, live, assigned) ==
    LET svcs == ServicesIn[files[Manifest]] IN
    CASE ~d.data /\ ~assigned -> [ok |-> TRUE, reload |-> FALSE, actions |-> <<>>]
      [] ~d.data /\ assigned ->
             [ok |-> TRUE, reload |-> TRUE,
              actions |-> FreshResources(c, files) \o ServiceActions(c, svcs, {}, live)]
      [] d.data /\ ~assigned ->
             [ok |-> TRUE, reload |-> TRUE,
              actions |-> RemovedResources(c, d) \o ServiceActions(c, {}, HostServices(d), live)]
      [] OTHER ->
             LET resources == UpdatedResources(c, d, files) IN
             [ok |-> TriggersFound(files, resources, live), reload |-> resources # <<>>,
              actions |-> resources \o TriggeredRestarts(c, files, resources)
                          \o ServiceActions(c, svcs, HostServices(d), live)]

(* Materia.Plan: loads what is installed and what is assigned, plans every *)
(* component and validates the steps.  Any error fails the whole plan.     *)
PlanHost(disk, files, live, assigned) ==
    LET part == [c \in Comps |-> PlanComponent(c, disk[c], files[c], live[c], c \in assigned)]
        steps == Steps([c \in Comps |-> part[c].actions], \E c \in Comps : part[c].reload)
        installed == {c \in Comps : disk[c].data}
    IN  IF /\ \A c \in installed : Loads(disk[c])
           /\ \A c \in assigned : files[c][Manifest] # Absent
           /\ \A c \in Comps : part[c].ok
           /\ ValidSteps(steps, installed)
        THEN [ok |-> TRUE, steps |-> steps]
        ELSE [ok |-> FALSE, steps |-> <<>>]
=============================================================================
