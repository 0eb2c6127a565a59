---------------------------- MODULE Services_proofs ----------------------------
(***************************************************************************)
(* Proofs about module Services: what success of an execution means, for   *)
(* any units, troubles and changes of the source.                          *)
(***************************************************************************)
EXTENDS Services, TLAPS

Running(u) == job[u] = "none" /\ state[u] \in {"active", "failed"} /\ (troubles = 0 => state[u] = "active")

(* A unit that has a job is not active; one that has none and is active    *)
(* leaves that state by dying, or by a job of the execution.               *)
JobsMove == \A u \in Units : job[u] # "none" => state[u] # "active"

(* The plan leaves a service of the source alone when it runs.             *)
LeftAlone ==
    pc # "rest" =>
        /\ \A u \in left : todo[u] # "none"
        /\ \A u \in wanted : todo[u] # "Stop"
        /\ \A u \in wanted \ Oneshots : todo[u] = "none" => Running(u)

(* What a goroutine of the final check saw active runs, or has died since. *)
SeenRunning ==
    pc = "final" => \A u \in Units :
        /\ (check[u] = "off") = ~Checked(u)
        /\ check[u] \in {"write good", "good"} /\ todo[u] # "Stop" => Running(u)

ServicesInv == TypeOK /\ JobsMove /\ LeftAlone /\ SeenRunning

-----------------------------------------------------------------------------
LEMMA InvInit == Init => ServicesInv
<1> SUFFICES ASSUME Init PROVE ServicesInv
  OBVIOUS
<1>1. state \in [Units -> UnitStates]
  BY DEF Init, UnitStates
<1>2. 0 \in 0..MaxTroubles /\ 0 \in 0..MaxChanges
  BY ServicesAssumption
<1>3. check \in [Units -> {"off"}] /\ todo \in [Units -> {"none"}]
  BY DEF Init, Off
<1>4. TypeOK
  BY <1>1, <1>2, <1>3, ServicesAssumption DEF Init, TypeOK, Todos
<1> QED
  BY <1>4 DEF Init, ServicesInv, JobsMove, LeftAlone, SeenRunning

LEMMA Counted ==
  ASSUME NEW max \in Nat, NEW n \in 0..max, n < max
  PROVE  n + 1 \in 0..max /\ n + 1 # 0
OBVIOUS

LEMMA PlannedTypes ==
  ASSUME NEW assigned, NEW files, NEW u \in Units
  PROVE  /\ Planned(assigned, files)[u] \in Todos
         /\ u \in assigned => Planned(assigned, files)[u] # "Stop"
         /\ u \in assigned \ Oneshots /\ Planned(assigned, files)[u] = "none" => state[u] = "active"
BY DEF Planned, Todos

LEMMA UnderMoves ==
  ASSUME NEW what \in Todos, NEW s \in UnitStates
  PROVE  Under(what, s) \in UnitStates /\ (Under(what, s) # s => Under(what, s) # "active")
BY DEF Under, Todos, UnitStates

(* Steps that leave systemd, the plan and the goroutines as they are.      *)
LEMMA Elsewhere ==
  ASSUME ServicesInv, TypeOK', UNCHANGED <<systemd, wanted, todo, check>>,
         left' \subseteq left,
         pc' # pc => pc # "rest" /\ pc' # "final"
  PROVE  ServicesInv'
<1>1. JobsMove' /\ (\A u \in Units : Running(u)' = Running(u))
  BY DEF ServicesInv, JobsMove, systemd, Running
<1>2. LeftAlone'
  BY <1>1 DEF ServicesInv, LeftAlone, TypeOK
<1>3. SeenRunning'
  BY <1>1 DEF ServicesInv, SeenRunning, Checked
<1> QED
  BY <1>1, <1>2, <1>3 DEF ServicesInv

(* What happens to one unit, or to none, in systemd.                       *)
LEMMA InSystemd ==
  ASSUME ServicesInv, TypeOK', NEW v \in Units,
         UNCHANGED <<wanted, todo, check, left>>,
         \A u \in Units \ {v} : state'[u] = state[u] /\ job'[u] = job[u],
         job'[v] = "none",
         Running(v) => state'[v] = "failed" /\ troubles' # 0,
         troubles' = 0 => troubles = 0,
         pc' # pc => pc # "rest" /\ pc' # "final"
  PROVE  ServicesInv'
<1>1. JobsMove'
  BY DEF ServicesInv, JobsMove
<1>2. \A u \in Units : Running(u) => Running(u)'
  BY DEF Running
<1>3. LeftAlone'
  BY <1>2 DEF ServicesInv, LeftAlone, TypeOK
<1>4. SeenRunning'
  BY <1>2 DEF ServicesInv, SeenRunning, Checked
<1> QED
  BY <1>1, <1>3, <1>4 DEF ServicesInv

LEMMA InvStep == ServicesInv /\ [Next]_vars => ServicesInv'
<1> SUFFICES ASSUME ServicesInv, [Next]_vars PROVE ServicesInv'
  OBVIOUS
<1> USE ServicesAssumption DEF systemd, connection
<1>0. TypeOK
  BY DEF ServicesInv
<1>1. CASE Begin
  <2>1. PICK assigned \in SUBSET Units, files \in [Units -> {"none", "old", "current"}] :
          /\ wanted' = assigned /\ installed' = files
          /\ todo' = Planned(assigned, files)
          /\ left' = {u \in Units : todo'[u] # "none"}
          /\ changes' \in 0..MaxChanges
    <3>1. \A source \in Sources : /\ source[1] \in SUBSET Units
                                  /\ source[2] \in [Units -> {"none", "old", "current"}]
      <4> DEFINE Kinds == {"none", "old", "current"}
      <4>1. wanted \in SUBSET Units /\ installed \in [Units -> Kinds]
        BY <1>0 DEF TypeOK
      <4>2. \A u \in Units : [installed EXCEPT ![u] = "old"] \in [Units -> Kinds]
        BY <4>1
      <4>3. ASSUME NEW source \in Sources
            PROVE  source[1] \in SUBSET Units /\ source[2] \in [Units -> Kinds]
        <5>1. CASE source = <<wanted, installed>>
          BY <4>1, <5>1
        <5>2. ASSUME NEW u \in Units, source = <<wanted, [installed EXCEPT ![u] = "old"]>>
              PROVE  source[1] \in SUBSET Units /\ source[2] \in [Units -> Kinds]
          <6>1. source[1] = wanted /\ source[2] = [installed EXCEPT ![u] = "old"]
            BY <5>2
          <6> QED
            BY <4>1, <4>2, <6>1
        <5>3. ASSUME NEW u \in Units,
                     source = <<wanted \cup {u}, installed>> \/ source = <<wanted \ {u}, installed>>
              PROVE  source[1] \in SUBSET Units /\ source[2] \in [Units -> Kinds]
          BY <4>1, <5>3
        <5>4. \/ source = <<wanted, installed>>
              \/ \E u \in wanted : source = <<wanted, [installed EXCEPT ![u] = "old"]>>
              \/ \E u \in Units : source = <<wanted \cup {u}, installed>>
              \/ \E u \in Units : source = <<wanted \ {u}, installed>>
          BY DEF Sources, Same
        <5> QED
          BY <4>1, <5>1, <5>2, <5>3, <5>4
      <4> QED
        BY <4>3
    <3>2. PICK source \in Sources :
            /\ IF source = Same THEN changes' = changes
               ELSE changes < MaxChanges /\ changes' = changes + 1
            /\ wanted' = source[1] /\ installed' = source[2]
            /\ todo' = Planned(source[1], source[2])
            /\ left' = {u \in Units : Planned(source[1], source[2])[u] # "none"}
      BY <1>1 DEF Begin
    <3>3. changes' \in 0..MaxChanges
      <4>1. changes \in 0..MaxChanges /\ MaxChanges \in Nat
        BY <1>0 DEF TypeOK
      <4> QED
        BY <3>2, <4>1, Counted
    <3> QED
      BY <3>1, <3>2, <3>3
  <2>2. /\ pc = "rest" /\ pc' = "apply" /\ check' = Off /\ outcome' = "running"
        /\ UNCHANGED <<systemd, unit>>
        /\ \/ UNCHANGED connection
           \/ orphans' = {} /\ stuck' = FALSE
    BY <1>1 DEF Begin
  <2>3. todo' \in [Units -> Todos]
    <3>1. \A u \in Units : todo'[u] \in Todos
      BY <2>1, PlannedTypes
    <3>2. todo' = [u \in Units |-> todo'[u]]
      BY <2>1 DEF Planned
    <3> QED
      BY <3>1, <3>2
  <2>4. TypeOK'
    BY <1>0, <2>1, <2>2, <2>3 DEF TypeOK, Off
  <2>5. JobsMove' /\ SeenRunning'
    BY <2>2 DEF ServicesInv, JobsMove, SeenRunning
  <2>6. \A u \in wanted' \ Oneshots : todo'[u] = "none" => Running(u)'
    <3> SUFFICES ASSUME NEW u \in wanted' \ Oneshots, todo'[u] = "none" PROVE Running(u)'
      OBVIOUS
    <3>1. u \in Units /\ state[u] = "active"
      BY <2>1, PlannedTypes
    <3> QED
      BY <3>1, <2>2 DEF ServicesInv, JobsMove, Running
  <2>7. \A u \in wanted' : todo'[u] # "Stop"
    BY <2>1, PlannedTypes
  <2> QED
    BY <2>1, <2>4, <2>5, <2>6, <2>7 DEF ServicesInv, LeftAlone
<1>2. ASSUME NEW u \in Units, StartJob(u) PROVE ServicesInv'
  <2>1. /\ pc = "apply" /\ u \in left /\ todo[u] # "none" /\ todo[u] \in Todos
        /\ pc' \in {"until", "callback"} /\ unit' = u /\ left' = left \ {u}
        /\ UNCHANGED <<wanted, todo, check, outcome, stuck, troubles, changes>>
    BY <1>0, <1>2 DEF StartJob, IsNext, ServicesInv, LeftAlone, TypeOK
  <2>2. \/ UNCHANGED <<state, job>>
        \/ /\ job[u] = "none" /\ ~NothingToDo(u)
           /\ job' = [job EXCEPT ![u] = JobFor(todo[u])]
           /\ state' = [state EXCEPT ![u] = Under(todo[u], @)]
    BY <1>2 DEF StartJob
  <2>3. /\ JobFor(todo[u]) \in {"start", "stop", "restart"}
        /\ Under(todo[u], state[u]) \in UnitStates
        /\ ~NothingToDo(u) /\ job[u] = "none" => Under(todo[u], state[u]) # "active"
    BY <1>0, <2>1, UnderMoves DEF JobFor, NothingToDo, TypeOK
  <2>4. /\ state' \in [Units -> UnitStates]
        /\ job' \in [Units -> {"none", "start", "stop", "restart"}]
        /\ \A v \in Units \ {u} : state'[v] = state[v] /\ job'[v] = job[v]
        /\ job'[u] # "none" => state'[u] # "active"
    BY <1>0, <2>2, <2>3 DEF TypeOK, ServicesInv, JobsMove
  <2>5. TypeOK'
    <3>1. installed' \in [Units -> {"none", "old", "current"}] /\ orphans' \subseteq Units
      BY <1>0, <1>2 DEF StartJob, Written, TypeOK
    <3> QED
      BY <1>0, <2>1, <2>4, <3>1 DEF TypeOK
  <2>6. JobsMove' /\ SeenRunning'
    BY <2>1, <2>4 DEF ServicesInv, JobsMove, SeenRunning
  <2>7. LeftAlone'
    BY <1>0, <2>1, <2>4 DEF ServicesInv, LeftAlone, Running, TypeOK
  <2> QED
    BY <2>5, <2>6, <2>7 DEF ServicesInv
<1>3. ASSUME NEW u \in Units, JobRefused(u) PROVE ServicesInv'
  <2>1. TypeOK'
    BY <1>0, <1>3 DEF JobRefused, IsNext, Return, TypeOK, NoUnit
  <2> QED
    BY <1>3, <2>1, Elsewhere DEF JobRefused, IsNext, Return
<1>4. CASE CallbackTimesOut
  <2>1. TypeOK'
    BY <1>0, <1>4 DEF CallbackTimesOut, Return, TypeOK, NoUnit
  <2> QED
    BY <1>4, <2>1, Elsewhere DEF CallbackTimesOut, Return
<1>5. CASE NoUntilState \/ UntilFails
  <2>1. TypeOK'
    BY <1>0, <1>5 DEF NoUntilState, UntilFails, Return, TypeOK, NoUnit
  <2> QED
    BY <1>5, <2>1, Elsewhere DEF NoUntilState, UntilFails, Return
<1>6. CASE StartCheck
  <2>1. /\ pc = "apply" /\ left = {} /\ pc' = "final" /\ installed' = Written
        /\ check' = [u \in Units |-> IF Checked(u) THEN "wait" ELSE "off"]
        /\ UNCHANGED <<systemd, wanted, todo, left, unit, outcome, connection, changes>>
    BY <1>6 DEF StartCheck
  <2>2. TypeOK'
    BY <1>0, <2>1 DEF TypeOK, Written
  <2>3. JobsMove' /\ LeftAlone'
    BY <1>0, <2>1 DEF ServicesInv, JobsMove, LeftAlone, Running, TypeOK
  <2>4. SeenRunning'
    BY <2>1 DEF SeenRunning, Checked
  <2> QED
    BY <2>2, <2>3, <2>4 DEF ServicesInv
<1>7. ASSUME NEW u \in Units, NEW from, NEW to, Checks(u, from, to),
             to \in {"write good", "write bad", "good", "bad"}, from # "off",
             to \in {"write good", "good"} /\ todo[u] # "Stop" => Running(u)
      PROVE  ServicesInv'
  <2>1. /\ pc = "final" /\ check[u] = from /\ check' = [check EXCEPT ![u] = to]
        /\ UNCHANGED <<systemd, wanted, installed, todo, left, pc, unit, outcome, connection, changes>>
    BY <1>7 DEF Checks
  <2>2. TypeOK'
    BY <1>0, <1>7, <2>1 DEF TypeOK
  <2>3. JobsMove' /\ LeftAlone'
    BY <1>0, <2>1 DEF ServicesInv, JobsMove, LeftAlone, Running, TypeOK
  <2>4. SeenRunning'
    BY <1>0, <1>7, <2>1 DEF ServicesInv, SeenRunning, Checked, Running, TypeOK
  <2> QED
    BY <2>2, <2>3, <2>4 DEF ServicesInv
<1>8. ASSUME NEW u \in Units, Reached(u) \/ NotReached(u) \/ Wrote(u) PROVE ServicesInv'
  <2>1. CASE Reached(u)
    <3>1. todo[u] # "Stop" => state[u] = "active"
      BY <2>1 DEF Reached, EndState
    <3>2. todo[u] # "Stop" => Running(u)
      BY <3>1 DEF ServicesInv, JobsMove, Running
    <3> QED
      BY <2>1, <3>2, <1>7 DEF Reached
  <2>2. CASE NotReached(u)
    BY <2>2, <1>7 DEF NotReached
  <2>3. CASE Checks(u, "write good", "good")
    <3>1. todo[u] # "Stop" => Running(u)
      BY <2>3 DEF Checks, ServicesInv, SeenRunning
    <3> QED
      BY <2>3, <3>1, <1>7
  <2>4. CASE Checks(u, "write bad", "bad")
    BY <2>4, <1>7
  <2> QED
    BY <1>8, <2>1, <2>2, <2>3, <2>4 DEF Wrote
<1>9. CASE ConcurrentWrites \/ Finish
  <2>1. /\ pc = "final" /\ pc' = "rest" /\ unit' = NoUnit
        /\ outcome' \in {"crash", "unhealthy", "ok"}
        /\ UNCHANGED <<systemd, wanted, installed, todo, left, check, connection, changes>>
    BY <1>9 DEF ConcurrentWrites, Finish, Return
  <2>2. TypeOK'
    BY <1>0, <2>1 DEF TypeOK, NoUnit
  <2> QED
    BY <2>1, <2>2, Elsewhere
<1>10. ASSUME NEW u \in Units, JobDone(u) PROVE ServicesInv'
  <2>1. /\ job[u] # "none" /\ job' = [job EXCEPT ![u] = "none"]
        /\ UNCHANGED <<wanted, installed, todo, left, unit, check, outcome, orphans, troubles, changes>>
        /\ pc' = pc \/ (pc = "callback" /\ pc' = "until")
    BY <1>10 DEF JobDone, Heard
  <2>2. PICK s \in UnitStates : state' = [state EXCEPT ![u] = s]
    BY <1>10 DEF JobDone, After, UnitStates
  <2>3. stuck' \in BOOLEAN
    BY <1>0, <1>10 DEF JobDone, TypeOK
  <2>4. TypeOK'
    BY <1>0, <2>1, <2>2, <2>3 DEF TypeOK
  <2>5. /\ \A v \in Units \ {u} : state'[v] = state[v] /\ job'[v] = job[v]
        /\ job'[u] = "none" /\ ~Running(u)
    BY <1>0, <2>1, <2>2 DEF TypeOK, Running
  <2> QED
    BY <2>1, <2>4, <2>5, InSystemd
<1>11. ASSUME NEW u \in Units, JobFails(u) PROVE ServicesInv'
  <2>1. /\ job[u] # "none" /\ job' = [job EXCEPT ![u] = "none"]
        /\ state' = [state EXCEPT ![u] = "failed"]
        /\ troubles < MaxTroubles /\ troubles' = troubles + 1
        /\ UNCHANGED <<wanted, installed, todo, left, check, orphans, changes>>
        /\ \/ UNCHANGED <<pc, outcome, unit>>
           \/ pc = "callback" /\ pc' = "rest" /\ outcome' = "unhealthy" /\ unit' = NoUnit
    BY <1>11 DEF JobFails, Heard, Return
  <2>2. stuck' \in BOOLEAN
    BY <1>0, <1>11 DEF JobFails, TypeOK
  <2>3. "failed" \in UnitStates /\ troubles' \in 0..MaxTroubles /\ troubles' # 0
    <3>1. troubles \in 0..MaxTroubles /\ MaxTroubles \in Nat
      BY <1>0 DEF TypeOK
    <3> QED
      BY <2>1, <3>1, Counted DEF UnitStates
  <2>4. TypeOK'
    BY <1>0, <2>1, <2>2, <2>3 DEF TypeOK, NoUnit
  <2>5. /\ \A v \in Units \ {u} : state'[v] = state[v] /\ job'[v] = job[v]
        /\ job'[u] = "none" /\ ~Running(u) /\ (troubles' = 0 => troubles = 0)
    BY <1>0, <2>1, <2>3 DEF TypeOK, Running
  <2> QED
    BY <2>1, <2>4, <2>5, InSystemd
<1>12. ASSUME NEW u \in Units, UnitDies(u) PROVE ServicesInv'
  <2>1. /\ job[u] = "none" /\ state' = [state EXCEPT ![u] = "failed"]
        /\ troubles < MaxTroubles /\ troubles' = troubles + 1
        /\ UNCHANGED <<job, wanted, installed, todo, left, pc, unit, check, outcome, connection, changes>>
    BY <1>12 DEF UnitDies
  <2>2. "failed" \in UnitStates /\ troubles' \in 0..MaxTroubles /\ troubles' # 0
    <3>1. troubles \in 0..MaxTroubles /\ MaxTroubles \in Nat
      BY <1>0 DEF TypeOK
    <3> QED
      BY <2>1, <3>1, Counted DEF UnitStates
  <2>3. TypeOK'
    BY <1>0, <2>1, <2>2 DEF TypeOK
  <2>4. /\ \A v \in Units \ {u} : state'[v] = state[v] /\ job'[v] = job[v]
        /\ job'[u] = "none" /\ state'[u] = "failed"
        /\ troubles' # 0
    BY <1>0, <2>1, <2>2 DEF TypeOK
  <2> QED
    BY <2>1, <2>3, <2>4, InSystemd
<1>13. CASE UNCHANGED vars
  <2>1. UNCHANGED vars /\ TypeOK'
    BY <1>0, <1>13 DEF vars, TypeOK
  <2> QED
    BY <2>1, Elsewhere DEF vars
<1> QED
  BY <1>1, <1>2, <1>3, <1>4, <1>5, <1>6, <1>8, <1>9, <1>10, <1>11, <1>12, <1>13 DEF Next, Step

-----------------------------------------------------------------------------
(* The theorems *)

LEMMA Invariant == Spec => []ServicesInv
<1> QED
  BY InvInit, InvStep, PTL DEF Spec

(* Every step of an execution is of a unit, in one of systemd's states.    *)
THEOREM TypeCorrect == Spec => []TypeOK
<1>1. ServicesInv => TypeOK
  BY DEF ServicesInv
<1> QED
  BY <1>1, Invariant, PTL

(* An execution that returns success leaves every service the source       *)
(* assigns running, unless it died since, for any units and any past.      *)
THEOREM OkMeansRunningHolds == Spec => OkMeansRunning
<1> DEFINE Ran ==
      Finish /\ outcome' = "ok" =>
          /\ \A u \in Units : Checked(u) => check[u] = "good"
          /\ \A u \in wanted \ Oneshots : state[u] \in {"active", "failed"}
          /\ troubles = 0 => \A u \in wanted \ Oneshots : state[u] = "active"
<1>1. ServicesInv => Ran
  <2> SUFFICES ASSUME ServicesInv, Finish, outcome' = "ok" PROVE Ran
    BY DEF Ran
  <2>1. pc = "final" /\ \A u \in Units : check[u] \in {"off", "good"}
    BY DEF Finish, Return
  <2>2. \A u \in Units : Checked(u) => check[u] = "good"
    BY <2>1 DEF ServicesInv, SeenRunning
  <2>3. \A u \in wanted \ Oneshots : u \in Units /\ Running(u)
    <3> SUFFICES ASSUME NEW u \in wanted \ Oneshots PROVE u \in Units /\ Running(u)
      OBVIOUS
    <3>1. u \in Units /\ todo[u] # "Stop" /\ (todo[u] = "none" => Running(u))
      BY <2>1 DEF ServicesInv, LeftAlone, TypeOK
    <3>2. todo[u] # "none" => check[u] = "good"
      BY <2>2, <3>1 DEF Checked
    <3> QED
      BY <2>1, <3>1, <3>2 DEF ServicesInv, SeenRunning
  <2> QED
    BY <2>2, <2>3 DEF Running
<1> QED
  BY <1>1, Invariant, PTL DEF OkMeansRunning
===============================================================================
