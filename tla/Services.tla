-------------------------------- MODULE Services --------------------------------
(***************************************************************************)
(* The service steps of an execution: each is a systemd job whose end the  *)
(* executor waits for, but not longer than a timeout; then every service   *)
(* is checked, by a goroutine of its own, to be in the state its step was  *)
(* for.  The timer runs update again and again.  systemd, the connection   *)
(* to it (go-systemd) and the units themselves are external.               *)
(***************************************************************************)
EXTENDS Naturals, FiniteSets

CONSTANTS
    Units,        \* services of the components
    Assigned,     \* those the source assigns at first
    Containers,   \* those a manifest names by their quadlets, not as .service
    Oneshots,     \* services with Oneshot = true in the manifest
    Server,       \* all executions are made by one process
    MaxTroubles,  \* bound: jobs that fail and units that die
    MaxChanges    \* bound: changes of the source, of a unit or of what it assigns

ASSUME ServicesAssumption ==
    /\ Assigned \subseteq Units /\ Containers \subseteq Units
    /\ Oneshots \subseteq Units \ Containers
    /\ Server \in BOOLEAN
    /\ MaxTroubles \in Nat /\ MaxChanges \in Nat

VARIABLES
    state,     \* ActiveState of each unit
    job,       \* the job systemd has for it
    wanted,    \* units the revision that is executed assigns
    installed, \* what the files on the host have of each unit
    todo,      \* the plan: what is to be done with each unit
    left,      \* units whose step is to come
    pc,        \* where the execution is
    unit,      \* the unit of the step under way
    check,     \* the goroutines of the final check
    outcome,   \* what the last execution returned
    orphans,   \* units with a job whose result nobody will receive
    stuck,     \* such a result has come: the connection starts no job again
    troubles, changes

vars == <<state, job, wanted, installed, todo, left, pc, unit, check, outcome, orphans, stuck, troubles, changes>>

systemd == <<state, job, troubles>>
connection == <<orphans, stuck>>

NoUnit == "none"
Off == [u \in Units |-> "off"]

Init ==
    /\ state \in [Units -> {"active", "inactive"}]
    /\ job = [u \in Units |-> "none"]
    /\ wanted = Assigned /\ installed = [u \in Units |-> "current"]
    /\ todo = [u \in Units |-> "none"] /\ left = {}
    /\ pc = "rest" /\ unit = NoUnit /\ check = Off /\ outcome = "none"
    /\ orphans = {} /\ stuck = FALSE
    /\ troubles = 0 /\ changes = 0

-----------------------------------------------------------------------------
(* GenerateServiceActions and the triggers, one change for each service.   *)
(* The units of files the source changed are restarted.  Those of dropped  *)
(* files are looked up by the name in the manifest: for a quadlet that is  *)
(* not the name of its unit, and the state found is the desired one.       *)
(* Mutants: a unit is started only when it is inactive; a dropped quadlet's *)
(* unit is stopped only when it is active.                                 *)
Stops(u) == u \in Containers \/ state[u] = "active"

PlannedWhenInactive(assigned, files) ==
    [u \in Units |->
        CASE u \in assigned /\ files[u] = "old"                     -> "Restart"
          [] u \in assigned \ Oneshots /\ state[u] = "inactive"     -> "Start"
          [] u \notin assigned /\ files[u] # "none" /\ Stops(u)     -> "Stop"
          [] OTHER                                                   -> "none"]

PlannedFromLive(assigned, files) ==
    [u \in Units |->
        CASE u \in assigned /\ files[u] = "old"                     -> "Restart"
          [] u \in assigned \ Oneshots /\ state[u] # "active"       -> "Start"
          [] u \notin assigned /\ files[u] # "none" /\ state[u] = "active" -> "Stop"
          [] OTHER                                                   -> "none"]

Planned(assigned, files) ==
    [u \in Units |->
        CASE u \in assigned /\ files[u] = "old"                     -> "Restart"
          [] u \in assigned \ Oneshots /\ state[u] # "active"       -> "Start"
          [] u \notin assigned /\ files[u] # "none" /\ Stops(u)     -> "Stop"
          [] OTHER                                                   -> "none"]

(* What the source may have become: the same, with a unit changed, or with *)
(* a unit more or less.                                                    *)
Same == <<wanted, installed>>

Sources ==
    {Same}
    \cup {<<wanted, [installed EXCEPT ![u] = "old"]>> :
               u \in {v \in wanted : installed[v] = "current"}}
    \cup {<<wanted \cup {u}, installed>> : u \in Units}
    \cup {<<wanted \ {u}, installed>> : u \in Units}

Begin ==
    /\ pc = "rest"
    /\ \E source \in Sources :
          LET plan == Planned(source[1], source[2]) IN
          /\ IF source = Same THEN changes' = changes
             ELSE changes < MaxChanges /\ changes' = changes + 1
          /\ wanted' = source[1] /\ installed' = source[2]
          /\ todo' = plan
          /\ left' = {u \in Units : plan[u] # "none"}
    /\ IF Server /\ outcome # "crash" THEN UNCHANGED connection ELSE orphans' = {} /\ stuck' = FALSE
    /\ pc' = "apply" /\ check' = Off /\ outcome' = "running"
    /\ UNCHANGED <<systemd, unit>>

Return(result) == pc' = "rest" /\ outcome' = result /\ unit' = NoUnit

-----------------------------------------------------------------------------
(* ApplyService.  The files are written between the stops and the other    *)
(* services' steps.                                                        *)

Written == [u \in Units |-> IF u \in wanted THEN "current" ELSE "none"]

IsNext(u) ==
    /\ pc = "apply" /\ u \in left
    /\ (\E v \in left : todo[v] = "Stop") => todo[u] = "Stop"

JobFor(todos) ==
    CASE todos = "Start" -> "start" [] todos = "Stop" -> "stop" [] OTHER -> "restart"

(* Mode "fail": a job of the other kind makes systemd refuse; one of the   *)
(* same kind is joined, and its result sent to the new channel only.       *)
Joins(u) == job[u] = JobFor(todo[u]) \/ {job[u], JobFor(todo[u])} = {"start", "restart"}

(* The state of a unit while its job runs; one that finds nothing to do    *)
(* ends at once.                                                           *)
Under(what, s) ==
    CASE what = "Start" /\ s # "active" -> "activating"
      [] what # "Start" /\ s = "active" -> "deactivating"
      [] what = "Restart" /\ s # "active" -> "activating"
      [] OTHER -> s

NothingToDo(u) == job[u] = "none" /\ Under(todo[u], state[u]) = state[u]

StartJob(u) ==
    /\ IsNext(u)
    /\ ~stuck
    /\ job[u] = "none" \/ Joins(u)
    /\ IF job[u] # "none" \/ NothingToDo(u)
       THEN UNCHANGED <<state, job>>
       ELSE /\ job' = [job EXCEPT ![u] = JobFor(todo[u])]
            /\ state' = [state EXCEPT ![u] = Under(todo[u], @)]
    /\ pc' = IF NothingToDo(u) THEN "until" ELSE "callback"
    /\ unit' = u
    /\ orphans' = orphans \ {u}
    /\ left' = left \ {u}
    /\ installed' = IF todo[u] = "Stop" THEN installed ELSE Written
    /\ UNCHANGED <<wanted, todo, check, outcome, stuck, troubles, changes>>

JobRefused(u) ==
    /\ IsNext(u)
    /\ ~stuck
    /\ job[u] # "none" /\ ~Joins(u)
    /\ Return("error")
    /\ UNCHANGED <<systemd, wanted, installed, todo, left, check, connection, changes>>

(* waitForCallback gives up: the channel has no buffer and no receiver now. *)
(* Mutant: it waits as long as the job takes.                              *)
WaitsForEver ==
    /\ pc = "callback" /\ job[unit] = "none"
    /\ Return("timeout")
    /\ orphans' = orphans \cup {unit}
    /\ UNCHANGED <<systemd, wanted, installed, todo, left, check, stuck, changes>>

CallbackTimesOut ==
    /\ pc = "callback"
    /\ Return("timeout")
    /\ orphans' = orphans \cup {unit}
    /\ UNCHANGED <<systemd, wanted, installed, todo, left, check, stuck, changes>>

(* The end of a job, heard by who waits for it; a result nobody receives   *)
(* blocks go-systemd's dispatcher while it holds the lock every new job    *)
(* needs, and once it is blocked no result is heard.                       *)
Heard(u) == pc = "callback" /\ unit = u /\ ~stuck

After(u) ==
    IF job[u] = "stop"
    THEN IF state[u] = "failed" THEN {"failed"} ELSE {"inactive"}
    ELSE IF u \in Oneshots THEN {"active", "inactive"} ELSE {"active"}

JobDone(u) ==
    /\ job[u] # "none"
    /\ job' = [job EXCEPT ![u] = "none"]
    /\ \E s \in After(u) : state' = [state EXCEPT ![u] = s]
    /\ IF Heard(u) THEN pc' = "until" ELSE pc' = pc
    /\ stuck' = (stuck \/ u \in orphans)
    /\ UNCHANGED <<wanted, installed, todo, left, unit, check, outcome, orphans, troubles, changes>>

JobFails(u) ==
    /\ job[u] # "none"
    /\ troubles < MaxTroubles
    /\ troubles' = troubles + 1
    /\ job' = [job EXCEPT ![u] = "none"]
    /\ state' = [state EXCEPT ![u] = "failed"]
    /\ IF Heard(u) THEN Return("unhealthy") ELSE UNCHANGED <<pc, outcome, unit>>
    /\ stuck' = (stuck \/ u \in orphans)
    /\ UNCHANGED <<wanted, installed, todo, left, check, orphans, changes>>

UnitDies(u) ==
    /\ state[u] = "active" /\ job[u] = "none"
    /\ troubles < MaxTroubles
    /\ troubles' = troubles + 1
    /\ state' = [state EXCEPT ![u] = "failed"]
    /\ UNCHANGED <<job, wanted, installed, todo, left, pc, unit, check, outcome, connection, changes>>

-----------------------------------------------------------------------------
(* waitService, then the next step.  The until-state of a oneshot service, *)
(* which is never started, only restarted or stopped, is "wildcard", no    *)
(* name NewServiceState knows: WaitUntilState waits for "unknown".         *)

NoUntilState ==
    /\ pc = "until" /\ unit \notin Oneshots
    /\ pc' = "apply" /\ unit' = NoUnit
    /\ UNCHANGED <<systemd, wanted, installed, todo, left, check, outcome, connection, changes>>

UntilFails ==
    /\ pc = "until" /\ unit \in Oneshots
    /\ Return(IF state[unit] = "failed" THEN "unhealthy" ELSE "timeout")
    /\ UNCHANGED <<systemd, wanted, installed, todo, left, check, connection, changes>>

-----------------------------------------------------------------------------
(* The final check: one goroutine for each service that was changed.  The  *)
(* unit of a dropped quadlet is no longer found, and not checked.          *)

EndState(u) == IF todo[u] = "Stop" THEN "inactive" ELSE "active"

Checked(u) == todo[u] # "none" /\ ~(todo[u] = "Stop" /\ u \in Containers)

(* Mutant: a restart is not checked.                                       *)
CheckAllButRestarts ==
    /\ pc = "apply" /\ left = {}
    /\ pc' = "final"
    /\ check' = [u \in Units |-> IF Checked(u) /\ todo[u] # "Restart" THEN "wait" ELSE "off"]
    /\ installed' = Written
    /\ UNCHANGED <<systemd, wanted, todo, left, unit, outcome, connection, changes>>

StartCheck ==
    /\ pc = "apply" /\ left = {}
    /\ pc' = "final"
    /\ check' = [u \in Units |-> IF Checked(u) THEN "wait" ELSE "off"]
    /\ installed' = Written
    /\ UNCHANGED <<systemd, wanted, todo, left, unit, outcome, connection, changes>>

Checks(u, from, to) ==
    /\ pc = "final" /\ check[u] = from
    /\ check' = [check EXCEPT ![u] = to]
    /\ UNCHANGED <<systemd, wanted, installed, todo, left, pc, unit, outcome, connection, changes>>

(* WaitUntilState sees the state, or sees "failed", or times out ...       *)
Reached(u) == state[u] = EndState(u) /\ Checks(u, "wait", "write good")

NotReached(u) == state[u] # EndState(u) /\ Checks(u, "wait", "write bad")

(* ... and the goroutine writes what it saw into finalServices, a map that *)
(* all of them write without a lock: two writes at a time may end the      *)
(* process.                                                                *)
Wrote(u) == Checks(u, "write good", "good") \/ Checks(u, "write bad", "bad")

Writing == {u \in Units : check[u] \in {"write good", "write bad"}}

ConcurrentWrites ==
    /\ pc = "final" /\ Cardinality(Writing) > 1
    /\ Return("crash")
    /\ UNCHANGED <<systemd, wanted, installed, todo, left, check, connection, changes>>

Finish ==
    /\ pc = "final"
    /\ \A u \in Units : check[u] \in {"off", "good", "bad"}
    /\ Return(IF \E u \in Units : check[u] = "bad" THEN "unhealthy" ELSE "ok")
    /\ UNCHANGED <<systemd, wanted, installed, todo, left, check, connection, changes>>

-----------------------------------------------------------------------------
Step ==
    \/ \E u \in Units : StartJob(u) \/ JobRefused(u)
    \/ NoUntilState \/ UntilFails \/ StartCheck \/ Finish \/ ConcurrentWrites
    \/ \E u \in Units : Reached(u) \/ NotReached(u) \/ Wrote(u)

Next ==
    \/ Begin \/ Step \/ CallbackTimesOut
    \/ \E u \in Units : JobDone(u) \/ JobFails(u) \/ UnitDies(u)

Spec == Init /\ [][Next]_vars

(* The timer, the executor's code and its clock go on.                     *)
FairSpec == Spec /\ WF_vars(Begin) /\ WF_vars(Step) /\ WF_vars(CallbackTimesOut)

-----------------------------------------------------------------------------
(* Properties *)

UnitStates == {"inactive", "activating", "active", "deactivating", "failed"}
Todos == {"none", "Start", "Stop", "Restart"}

TypeOK ==
    /\ state \in [Units -> UnitStates]
    /\ job \in [Units -> {"none", "start", "stop", "restart"}]
    /\ wanted \subseteq Units /\ installed \in [Units -> {"none", "old", "current"}]
    /\ todo \in [Units -> Todos] /\ left \subseteq Units
    /\ pc \in {"rest", "apply", "callback", "until", "final"}
    /\ IF pc \in {"callback", "until"} THEN unit \in Units ELSE unit = NoUnit
    /\ check \in [Units -> {"off", "wait", "write good", "write bad", "good", "bad"}]
    /\ outcome \in {"none", "running", "ok", "unhealthy", "timeout", "error", "crash"}
    /\ orphans \subseteq Units /\ stuck \in BOOLEAN
    /\ troubles \in 0..MaxTroubles /\ changes \in 0..MaxChanges

(* Success means that every service runs or has died since: what the       *)
(* execution changed was seen in the state the change was for, after all   *)
(* its changes, and nothing it left alone was on its way down.             *)
OkMeansRunning ==
    [][Finish /\ outcome' = "ok" =>
           /\ \A u \in Units : Checked(u) => check[u] = "good"
           /\ \A u \in wanted \ Oneshots : state[u] \in {"active", "failed"}
           /\ troubles = 0 => \A u \in wanted \ Oneshots : state[u] = "active"]_vars

(* Every execution returns, however long a job takes.                      *)
ExecutionReturns == pc # "rest" ~> pc = "rest"

(* If every job ends in the end, the services the source assigns end up    *)
(* running, whatever timed out, failed or died on the way, ...             *)
JobsEnd == \A u \in Units : job[u] # "none" ~> job[u] = "none"

ServicesRun == JobsEnd => <>[](\A u \in wanted \ Oneshots : state[u] = "active")

(* ... and those of quadlets it assigns no more end up stopped.            *)
ContainersStop ==
    JobsEnd => <>[](\A u \in Containers \ wanted : state[u] # "active")
=============================================================================
