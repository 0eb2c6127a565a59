------------------------------ MODULE PlanSteps ------------------------------
(***************************************************************************)
(* The steps of a whole plan, and the validators that read them.  A plan   *)
(* is given by the changes of each component, in the order Add received    *)
(* them; entries are those of module Plan.  The order of the steps is      *)
(* described here and computed in module PlanCode.  No service is enabled  *)
(* or disabled: the plans of this module's users have no such change       *)
(* (module Plan has them).                                                 *)
(***************************************************************************)
EXTENDS Actions, Sequences, FiniteSets

MapSeq(s, Op(_)) == [i \in DOMAIN s |-> Op(s[i])]

(* The elements of a finite set in the order R, each at its rank in it.    *)
Ordered(S, R) ==
    LET rank == [e \in S |-> Cardinality({x \in S : <<x, e>> \in R})]
    IN  [k \in 1..Cardinality(S) |-> CHOOSE e \in S : rank[e] = k - 1]

InOrder(S, Before(_, _)) == Ordered(S, {p \in S \X S : Before(p[1], p[2])})

-----------------------------------------------------------------------------
(* A change is named by its component and its place among the changes of   *)
(* that component; the daemon-reload has a name of its own.                *)

HostReload == [todo |-> "Reload", kind |-> "Host", comp |-> 0, path |-> 0,
               prio |-> 0, list |-> "resource"]

ReloadStep == <<0, 0>>

ChangesOn(changes, l) ==
    {x \in UNION {{c} \X DOMAIN changes[c] : c \in DOMAIN changes} :
        changes[x[1]][x[2]].list = l}

ChangeAt(changes, x) == IF x = ReloadStep THEN HostReload ELSE changes[x[1]][x[2]]

PrioOf(changes, x) == ChangeAt(changes, x).prio

ResourceChanges(changes, reload) ==
    ChangesOn(changes, "resource") \cup (IF reload THEN {ReloadStep} ELSE {})

EndOf(todo) ==
    CASE todo = "Reload" -> 1 [] todo = "Start" -> 2 [] todo = "Restart" -> 3 [] OTHER -> 4

(* coalesceServices keeps, of the changes to one service, the first of     *)
(* those that ask for the strongest end state.                             *)
Kept(changes, x) ==
    LET end(y) == EndOf(changes[y[1]][y[2]].todo) IN
    \A y \in ChangesOn(changes, "service") :
        y[1] = x[1] /\ changes[y[1]][y[2]].path = changes[x[1]][x[2]].path =>
            end(y) < end(x) \/ (end(y) = end(x) /\ x[2] <= y[2])

ServiceChanges(changes) == {x \in ChangesOn(changes, "service") : Kept(changes, x)}

(* Component by component, by priority and then by age; the reload last.   *)
ResourceBefore(changes, x, y) ==
    /\ x # ReloadStep
    /\ \/ y = ReloadStep
       \/ x[1] < y[1]
       \/ /\ x[1] = y[1]
          /\ \/ PrioOf(changes, x) < PrioOf(changes, y)
             \/ PrioOf(changes, x) = PrioOf(changes, y) /\ x[2] < y[2]

(* By priority over all components, then by component and service name.    *)
ServiceBefore(changes, x, y) ==
    \/ PrioOf(changes, x) < PrioOf(changes, y)
    \/ /\ PrioOf(changes, x) = PrioOf(changes, y)
       /\ \/ x[1] < y[1]
          \/ x[1] = y[1] /\ ChangeAt(changes, x).path < ChangeAt(changes, y).path

(* Mutants: every service step comes first; it comes before the reload.    *)
ServicesFirst(changes, resources, x, y) == TRUE

ServicesBeforeReload(changes, resources, x, y) ==
    \/ y = ReloadStep
    \/ \E z \in resources : /\ z = y \/ ResourceBefore(changes, z, y)
                            /\ PrioOf(changes, x) <= PrioOf(changes, z)

(* mergeStepsIntoPlan: a resource step waits for the services whose        *)
(* priority is not above its own, and so does what comes after it.         *)
ServiceFirst(changes, resources, x, y) ==
    \E z \in resources : /\ z = y \/ ResourceBefore(changes, z, y)
                         /\ PrioOf(changes, x) <= PrioOf(changes, z)

StepBefore(changes, resources, x, y) ==
    IF x \in resources
    THEN IF y \in resources THEN ResourceBefore(changes, x, y)
         ELSE ~ServiceFirst(changes, resources, y, x)
    ELSE IF y \in resources THEN ServiceFirst(changes, resources, x, y)
         ELSE ServiceBefore(changes, x, y)

StepOrder(changes, reload) ==
    LET resources == ResourceChanges(changes, reload)
        all == resources \cup ServiceChanges(changes)
    IN  Ordered(all, {p \in all \X all : StepBefore(changes, resources, p[1], p[2])})

(* Plan.Steps *)
Steps(changes, reload) ==
    MapSeq(StepOrder(changes, reload), LAMBDA x : ChangeAt(changes, x))

-----------------------------------------------------------------------------
(* The validation pipeline *)

ReloadValid(steps) ==
    (\E k \in DOMAIN steps :
        /\ steps[k].todo = "Install"
        /\ (steps[k].kind = "Service" \/ IsQuadlet(steps[k].kind)))
    => (\E k \in DOMAIN steps : steps[k] = HostReload)

VolumeDumpValid(steps) ==
    ~ \E k, m \in DOMAIN steps :
        /\ k < m
        /\ steps[k].kind = "Volume" /\ steps[k].todo = "Remove"
        /\ steps[m].kind = "Volume" /\ steps[m].todo = "Dump"
        /\ steps[k].path = steps[m].path

ComponentInstallValid(steps, installed) ==
    \A m \in DOMAIN steps :
        /\ steps[m].kind # "Combined"
        /\ (steps[m].todo = "Install" /\ steps[m].kind # "Component") =>
            \/ steps[m].comp \in installed
            \/ \E k \in 1..(m - 1) : /\ steps[k].todo = "Install"
                                     /\ steps[k].kind = "Component"
                                     /\ steps[k].comp = steps[m].comp

ValidSteps(steps, installed) ==
    /\ ReloadValid(steps)
    /\ VolumeDumpValid(steps)
    /\ ComponentInstallValid(steps, installed)
=============================================================================
