---------------------------- MODULE Materia_proofs ----------------------------
(***************************************************************************)
(* What `materia update` promises for every host, source and number of     *)
(* processes: the types and the lock, that a component with a manifest was *)
(* installed to the end, that cleaning up leaves no corrupt component, and *)
(* that the user's drop-ins stay; and for one process that nothing         *)
(* interrupts: that each planned step applies, that services start from    *)
(* the installed files, and that an update that ends has delivered the     *)
(* source.                                                                 *)
(***************************************************************************)
EXTENDS Planner_proofs

-----------------------------------------------------------------------------
(* Steps and their calls *)

(* The steps a plan of some revision can have.                             *)
Prescribed(s) ==
    \/ s = HostReload
    \/ \E c \in Comps, v \in Revisions :
          s \in Jobs(c) \cup Updates(c, FilesIn[v][c]) \cup Removals(c)
                \cup Installs(c, FilesIn[v][c])

ComponentOps ==
    {"mkdirData", "mkdirQuadlets", "writeManaged", "writeVersion",
     "removeVersion", "rmdirData", "removeManaged", "rmdirQuadlets"}

(* A step on a service is one job, a step on a file the calls of its kind. *)
JobStep(s) ==
    /\ s.list = "service" /\ s.comp \in Comps /\ s.path \in Paths
    /\ s.todo \in {"Start", "Stop", "Restart"}

ComponentStep(s) ==
    /\ s.list = "resource" /\ s.comp \in Comps /\ s.kind = "Component"
    /\ s.todo \in FileTodos

PathStep(s) ==
    /\ s.list = "resource" /\ s.comp \in Comps /\ s.path \in Paths
    /\ s.kind = KindOf[s.path] /\ s.kind # "Component"
    /\ s.todo \in FileTodos
    /\ s.todo # "Remove" => \E v \in Revisions : s.content = FilesIn[v][s.comp][s.path]
                            /\ s.content # Absent

LEMMA PrescribedSteps ==
  ASSUME NEW s, Prescribed(s)
  PROVE  \/ s = HostReload
         \/ s \in Changes /\ (JobStep(s) \/ ComponentStep(s) \/ PathStep(s))
<1>1. SUFFICES ASSUME NEW c \in Comps, NEW v \in Revisions,
                      s \in Jobs(c) \cup Updates(c, FilesIn[v][c]) \cup Removals(c)
                            \cup Installs(c, FilesIn[v][c])
               PROVE  s \in Changes /\ (JobStep(s) \/ ComponentStep(s) \/ PathStep(s))
  BY DEF Prescribed
<1>2. FilesIn[v][c] \in [Paths -> Nat]
  BY MateriaAssumption
<1>3. CASE s \in Jobs(c)
  BY <1>3, JobFields DEF JobStep
<1>4. CASE s \in Updates(c, FilesIn[v][c])
  BY <1>2, <1>4, UpdateFields DEF PathStep, ComponentStep, FileTodos
<1>5. CASE s \in Removals(c)
  BY <1>5, RemovalFields DEF PathStep, ComponentStep, FileTodos
<1>6. CASE s \in Installs(c, FilesIn[v][c])
  BY <1>2, <1>6, InstallFields DEF PathStep, ComponentStep, FileTodos
<1>7. QED
  BY <1>1, <1>3, <1>4, <1>5, <1>6

(* The calls of a step, and what each tells of it.                         *)
LEMMA CallsOfSteps ==
  ASSUME NEW s, Prescribed(s)
  PROVE  /\ Len(StepCalls(s)) \in Nat \ {0} /\ DOMAIN StepCalls(s) = 1..Len(StepCalls(s))
         /\ \A i \in DOMAIN StepCalls(s) :
               LET k == StepCalls(s)[i] IN
               /\ k.comp = s.comp /\ k.path = s.path
               /\ \/ s = HostReload /\ k.op = "Reload"
                  \/ JobStep(s) /\ k.op = s.todo
                  \/ ComponentStep(s) /\ k.op \in ComponentOps
                     /\ k.op = FileOps(s.kind, s.todo)[i] /\ i \in 1..4
                  \/ /\ PathStep(s) /\ k.content = s.content /\ Len(StepCalls(s)) = 1
                     /\ k.op = IF s.todo = "Remove" THEN "remove"
                               ELSE IF s.kind = "Directory" /\ s.todo = "Install"
                                    THEN "mkdir" ELSE "write"
<1> DEFINE calls == StepCalls(s)
<1>1. CASE s = HostReload
  <2>1. calls = <<Call("Reload", 0, 0, Absent)>> /\ s.comp = 0 /\ s.path = 0
    BY <1>1 DEF StepCalls, HostReload
  <2>2. QED
    BY <1>1, <2>1 DEF Call
<1>2. CASE JobStep(s)
  <2>1. calls = <<Call(s.todo, s.comp, s.path, Absent)>>
    BY <1>2 DEF StepCalls, JobStep
  <2>2. QED
    BY <1>2, <2>1 DEF Call
<1>3. CASE s \in Changes /\ (ComponentStep(s) \/ PathStep(s))
  <2> DEFINE ops == FileOps(s.kind, s.todo)
  <2>1. s.list # "service" /\ s.kind # "Host"
    BY <1>3, KindsOfFiles DEF ComponentStep, PathStep
  <2>2. calls = [i \in DOMAIN ops |-> Call(ops[i], s.comp, s.path, s.content)]
    BY <2>1 DEF StepCalls, FileCalls
  <2>3. ASSUME ComponentStep(s)
        PROVE  /\ Len(ops) \in {1, 4} /\ DOMAIN ops = 1..Len(ops)
               /\ \A i \in DOMAIN ops : ops[i] \in ComponentOps /\ i \in 1..4
    <3>1. \/ ops = <<"mkdirData", "mkdirQuadlets", "writeManaged", "writeVersion">>
          \/ ops = <<"writeVersion">>
          \/ ops = <<"removeVersion", "rmdirData", "removeManaged", "rmdirQuadlets">>
      BY <2>3 DEF FileOps, ComponentStep, FileTodos
    <3>. HIDE DEF ops
    <3>2. QED
      BY <3>1 DEF ComponentOps
  <2>4. ASSUME PathStep(s)
        PROVE  ops = IF s.todo = "Remove" THEN <<"remove">>
                     ELSE IF s.kind = "Directory" /\ s.todo = "Install"
                          THEN <<"mkdir">> ELSE <<"write">>
    BY <2>4 DEF FileOps, PathStep
  <2>5. CASE ComponentStep(s)
    <3>1. DOMAIN calls = DOMAIN ops /\ Len(calls) = Len(ops)
      BY <2>2, <2>3, <2>5
    <3>2. \A i \in DOMAIN calls :
             calls[i].op = ops[i] /\ calls[i].comp = s.comp /\ calls[i].path = s.path
      BY <2>2 DEF Call
    <3>. HIDE DEF ops, calls
    <3>3. Len(calls) \in Nat \ {0} /\ DOMAIN calls = 1..Len(calls)
      BY <2>3, <2>5, <3>1
    <3>4. \A i \in DOMAIN calls : calls[i].op \in ComponentOps /\ i \in 1..4
      BY <2>3, <2>5, <3>1, <3>2
    <3>5. QED
      BY <2>5, <3>2, <3>3, <3>4 DEF ops, calls
  <2>6. CASE PathStep(s)
    <3>1. Len(ops) = 1 /\ DOMAIN ops = 1..1
      BY <2>4, <2>6
    <3>2. DOMAIN calls = 1..1 /\ Len(calls) = 1
      BY <2>2, <3>1
    <3>3. \A i \in DOMAIN calls :
             /\ calls[i].op = ops[1] /\ calls[i].comp = s.comp /\ calls[i].path = s.path
             /\ calls[i].content = s.content
      BY <2>2, <3>1 DEF Call
    <3>4. ops[1] = IF s.todo = "Remove" THEN "remove"
                   ELSE IF s.kind = "Directory" /\ s.todo = "Install" THEN "mkdir" ELSE "write"
      BY <2>4, <2>6
    <3>. HIDE DEF ops, calls
    <3>5. QED
      BY <2>6, <3>2, <3>3, <3>4 DEF calls
  <2>7. QED
    BY <1>3, <2>5, <2>6
<1>4. QED
  BY <1>1, <1>2, <1>3, PrescribedSteps

LEMMA DirectoriesKept ==
  ASSUME NEW d \in Directories, NEW k,
         k.op \in {"mkdir", "write", "remove"} => k.path \in Paths,
         k.op = "write" => k.content \in Nat
  PROVE  /\ k.op \in ComponentOps \cup {"mkdir", "write", "remove"} => After(d, k) \in Directories
         /\ k.op \in ComponentOps \cup {"mkdir", "write", "remove"} => Torn(d, k) \in Directories
<1>1. Absent \in Nat /\ Blank \in Nat
  BY DEF Absent, Blank
<1>2. ASSUME k.op \in ComponentOps \cup {"mkdir", "write", "remove"}
      PROVE  After(d, k) \in Directories
  BY <1>1, <1>2 DEF After, Directories, ComponentOps
<1>3. Torn(d, k) \in Directories
  BY <1>1 DEF Torn, Directories
<1>4. QED
  BY <1>2, <1>3

-----------------------------------------------------------------------------
(* Types and the lock *)

AllPrescribed ==
    \A r \in Runs : \A k \in DOMAIN run[r].steps : Prescribed(run[r].steps[k])

TypeInv == TypeOK /\ AllPrescribed

FileOpNames == ComponentOps \cup {"mkdir", "write", "remove"}

(* What a process is about to do is a call of a prescribed step.           *)
LEMMA CallOfRun ==
  ASSUME TypeInv, NEW r \in Runs, Executing(r)
  PROVE  LET s == NextStep(r)
             k == NextCall(r)
         IN
         /\ Prescribed(s) /\ run[r].next \in DOMAIN run[r].steps
         /\ run[r].call \in DOMAIN StepCalls(s)
         /\ run[r].call \in 1..Len(StepCalls(s)) /\ Len(StepCalls(s)) \in Nat
         /\ k = StepCalls(s)[run[r].call]
         /\ k.op \in ServiceCalls \ {"Reload"} => k.comp \in Comps /\ k.path \in Paths
         /\ k.op \notin ServiceCalls =>
               /\ k.comp \in Comps /\ k.op \in FileOpNames
               /\ k.op \in {"mkdir", "write", "remove"} => k.path \in Paths
               /\ k.op = "write" => k.content \in Nat
<1> DEFINE s == NextStep(r)
           k == NextCall(r)
           i == run[r].call
<1>1. run[r] \in RunRecords /\ Poised(r) /\ Planned(r)
  BY DEF TypeInv, TypeOK, Executing
<1>2. run[r].next \in DOMAIN run[r].steps
  BY <1>1 DEF RunRecords, StepLists, Planned
<1>3. Prescribed(s) /\ s = NextStep(r)
  BY <1>2 DEF TypeInv, AllPrescribed, NextStep
<1>4. i \in DOMAIN StepCalls(s) /\ k = StepCalls(s)[i]
  BY <1>1 DEF Poised, NextCall
<1>. HIDE DEF s, k, i
<1>5. /\ Len(StepCalls(s)) \in Nat \ {0} /\ DOMAIN StepCalls(s) = 1..Len(StepCalls(s))
      /\ k.comp = s.comp /\ k.path = s.path
      /\ \/ s = HostReload /\ k.op = "Reload"
         \/ JobStep(s) /\ k.op = s.todo
         \/ ComponentStep(s) /\ k.op \in ComponentOps
         \/ /\ PathStep(s) /\ k.content = s.content
            /\ k.op = IF s.todo = "Remove" THEN "remove"
                      ELSE IF s.kind = "Directory" /\ s.todo = "Install"
                           THEN "mkdir" ELSE "write"
  BY <1>3, <1>4, CallsOfSteps
<1>6. ASSUME k.op \in ServiceCalls \ {"Reload"}
      PROVE  k.comp \in Comps /\ k.path \in Paths
  <2>1. JobStep(s)
    BY <1>5, <1>6 DEF ServiceCalls, ComponentOps
  <2>2. QED
    BY <1>5, <2>1 DEF JobStep
<1>7. ASSUME k.op \notin ServiceCalls
      PROVE  /\ k.comp \in Comps /\ k.op \in FileOpNames
             /\ k.op \in {"mkdir", "write", "remove"} => k.path \in Paths
             /\ k.op = "write" => k.content \in Nat
  <2>1. CASE ComponentStep(s) /\ k.op \in ComponentOps
    BY <1>5, <2>1 DEF ComponentOps, FileOpNames, ComponentStep
  <2>2. CASE PathStep(s)
    <3>1. ASSUME s.todo # "Remove" PROVE s.content \in Nat
      <4>1. PICK v \in Revisions : s.content = FilesIn[v][s.comp][s.path]
        BY <2>2, <3>1 DEF PathStep
      <4>2. s.comp \in Comps /\ s.path \in Paths
        BY <2>2 DEF PathStep
      <4>3. FilesIn[v] \in [Comps -> [Paths -> Nat]]
        BY MateriaAssumption
      <4>4. QED
        BY <4>1, <4>2, <4>3
    <3>2. /\ ~JobStep(s) /\ ~ComponentStep(s) /\ s # HostReload
          /\ s.comp \in Comps /\ s.path \in Paths
      BY <2>2, MateriaAssumption DEF PathStep, JobStep, ComponentStep, HostReload
    <3>3. /\ k.op = IF s.todo = "Remove" THEN "remove"
                    ELSE IF s.kind = "Directory" /\ s.todo = "Install" THEN "mkdir" ELSE "write"
          /\ k.content = s.content
      BY <1>5, <3>2
    <3>4. QED
      BY <1>5, <3>1, <3>2, <3>3 DEF FileOpNames
  <2>3. QED
    BY <1>5, <1>7, <2>1, <2>2 DEF ServiceCalls, JobStep
<1>8. QED
  BY <1>2, <1>3, <1>4, <1>5, <1>6, <1>7 DEF s, k, i

(* The others go on where they are.                                        *)
LEMMA OneMoves ==
  ASSUME TypeInv, NEW r \in Runs,
         run' \in [Runs -> RunRecords], \A s \in Runs \ {r} : run'[s] = run[s],
         cache # 0 => cache' # 0,
         \A s \in Runs \ {r} : holder = s => holder' = s,
         Poised(r)', \A k \in DOMAIN run'[r].steps : Prescribed(run'[r].steps[k])
  PROVE  (\A s \in Runs : Poised(s))' /\ AllPrescribed'
<1>1. ASSUME NEW s \in Runs, s # r PROVE Poised(s)'
  <2>1. Poised(s) /\ run'[s] = run[s]
    BY <1>1 DEF TypeInv, TypeOK
  <2>2. holder = s => holder' = s
    BY <1>1
  <2>3. At(s, "idle")' = At(s, "idle") /\ At(s, "executing")' = At(s, "executing")
        /\ At(s, "leaving")' = At(s, "leaving") /\ At(s, "planned")' = At(s, "planned")
        /\ Planned(s)' = Planned(s) /\ NextStep(s)' = NextStep(s)
    BY <2>1 DEF At, Planned, NextStep
  <2>4. QED
    BY <2>1, <2>2, <2>3 DEF Poised
<1>2. AllPrescribed'
  BY DEF TypeInv, AllPrescribed
<1>3. QED
  BY <1>1, <1>2

(* A process without steps is poised if it has what its phase needs.       *)
LEMMA PoisedWithoutSteps ==
  ASSUME NEW r \in Runs, run'[r].steps = <<>>, run'[r].next = 1, run'[r].call = 1,
         run'[r].pc # "idle" => cache' # 0 /\ run'[r].manifest # 0,
         run'[r].pc \in {"executing", "leaving"} => holder' = r
  PROVE  Poised(r)' /\ \A k \in DOMAIN run'[r].steps : Prescribed(run'[r].steps[k])
<1>1. Len(run'[r].steps) = 0 /\ DOMAIN run'[r].steps = {}
  OBVIOUS
<1>2. ~Planned(r)'
  BY <1>1 DEF Planned
<1>3. QED
  BY <1>1, <1>2 DEF Poised, At

LEMMA NoStepsTyped == <<>> \in StepLists
BY DEF StepLists

LEMMA RecordsTyped ==
  ASSUME NEW x \in RunRecords, NEW pc \in Phases, NEW outcome \in Outcomes
  PROVE  /\ [x EXCEPT !.call = x.call + 1] \in RunRecords
         /\ [x EXCEPT !.next = x.next + 1, !.call = 1] \in RunRecords
         /\ [x EXCEPT !.pc = pc, !.outcome = outcome, !.steps = <<>>, !.next = 1, !.call = 1]
               \in RunRecords
         /\ [x EXCEPT !.pc = pc] \in RunRecords
         /\ \A steps \in StepLists : [x EXCEPT !.pc = pc, !.steps = steps] \in RunRecords
         /\ \A S \in SUBSET Comps : [x EXCEPT !.pc = pc, !.invalid = S] \in RunRecords
         /\ \A S \in SUBSET Comps : [x EXCEPT !.invalid = S] \in RunRecords
         /\ [x EXCEPT !.pc = pc, !.rolledBack = TRUE, !.outcome = outcome] \in RunRecords
         /\ \A b \in BOOLEAN : [x EXCEPT !.rolledBack = b] \in RunRecords
         /\ \A v, w \in Revisions \cup {0} :
               [x EXCEPT !.pc = pc, !.manifest = v, !.before = w] \in RunRecords
<1>1. [x EXCEPT !.call = x.call + 1] \in RunRecords
  BY DEF RunRecords
<1>2. [x EXCEPT !.next = x.next + 1, !.call = 1] \in RunRecords
  <2>1. \A m, n \in Nat \ {0} : [x EXCEPT !.next = m, !.call = n] \in RunRecords
    BY DEF RunRecords
  <2>2. x.next + 1 \in Nat \ {0} /\ 1 \in Nat \ {0}
    BY DEF RunRecords
  <2>3. QED
    BY <2>1, <2>2
<1>3. [x EXCEPT !.pc = pc, !.outcome = outcome, !.steps = <<>>, !.next = 1, !.call = 1]
         \in RunRecords
  <2>1. \A m, n \in Nat \ {0}, steps \in StepLists :
           [x EXCEPT !.pc = pc, !.outcome = outcome, !.steps = steps, !.next = m, !.call = n]
              \in RunRecords
    BY DEF RunRecords
  <2>2. <<>> \in StepLists /\ 1 \in Nat \ {0}
    BY NoStepsTyped
  <2>3. QED
    BY <2>1, <2>2
<1>4. [x EXCEPT !.pc = pc] \in RunRecords
  BY DEF RunRecords
<1>5. \A steps \in StepLists : [x EXCEPT !.pc = pc, !.steps = steps] \in RunRecords
  BY DEF RunRecords
<1>6. \A S \in SUBSET Comps : [x EXCEPT !.pc = pc, !.invalid = S] \in RunRecords
  BY DEF RunRecords
<1>7. \A S \in SUBSET Comps : [x EXCEPT !.invalid = S] \in RunRecords
  BY DEF RunRecords
<1>8. [x EXCEPT !.pc = pc, !.rolledBack = TRUE, !.outcome = outcome] \in RunRecords
  BY DEF RunRecords
<1>9. \A b \in BOOLEAN : [x EXCEPT !.rolledBack = b] \in RunRecords
  BY DEF RunRecords
<1>10. \A v, w \in Revisions \cup {0} :
          [x EXCEPT !.pc = pc, !.manifest = v, !.before = w] \in RunRecords
  BY DEF RunRecords
<1>11. QED
  BY <1>1, <1>2, <1>3, <1>4, <1>5, <1>6, <1>7, <1>8, <1>9, <1>10

LEMMA RestingTyped ==
  ASSUME NEW outcome \in Outcomes
  PROVE  Resting(outcome) \in RunRecords
BY NoStepsTyped DEF Resting, RunRecords, Phases

(* The next call of the plan, or its next step.                            *)
LEMMA ProceedTyped ==
  ASSUME TypeInv, NEW r \in Runs, Executing(r), Proceed(r),
         cache' = cache, holder' = holder
  PROVE  /\ run' \in [Runs -> RunRecords] /\ \A s \in Runs \ {r} : run'[s] = run[s]
         /\ Poised(r)' /\ \A k \in DOMAIN run'[r].steps : Prescribed(run'[r].steps[k])
         /\ run'[r].steps = run[r].steps /\ run'[r].pc = run[r].pc
<1> DEFINE s == NextStep(r)
           n == Len(StepCalls(s))
<1>1. /\ run \in [Runs -> RunRecords] /\ run[r] \in RunRecords /\ Poised(r)
      /\ run[r].pc = "executing" /\ Planned(r)
  BY DEF TypeInv, TypeOK, Executing, At
<1>2. /\ run[r].call \in Nat \ {0} /\ run[r].next \in Nat \ {0}
      /\ run[r].steps \in Seq(Changes \cup {HostReload})
  BY <1>1 DEF RunRecords, StepLists
<1>3. n \in Nat /\ run[r].call \in 1..n /\ DOMAIN StepCalls(s) = 1..n
  BY CallOfRun, CallsOfSteps
<1>4. /\ cache # 0 /\ run[r].manifest # 0 /\ holder = r
  BY <1>1 DEF Poised, At
<1>5. run[r].steps # <<>> /\ run[r].next \in DOMAIN run[r].steps
  BY <1>1, <1>2 DEF Planned
<1>6. CASE run[r].call < n
  <2>1. run' = [run EXCEPT ![r].call = @ + 1]
    BY <1>6 DEF Proceed
  <2>2. /\ run'[r].call = run[r].call + 1 /\ run'[r].next = run[r].next
        /\ run'[r].pc = run[r].pc /\ run'[r].manifest = run[r].manifest
        /\ run'[r].steps = run[r].steps
    BY <1>1, <2>1 DEF RunRecords
  <2>3. run' \in [Runs -> RunRecords] /\ \A t \in Runs \ {r} : run'[t] = run[t]
    <3>1. [run[r] EXCEPT !.call = run[r].call + 1] \in RunRecords
      BY <1>1, RecordsTyped DEF Phases, Outcomes
    <3>2. run' = [run EXCEPT ![r] = [run[r] EXCEPT !.call = run[r].call + 1]]
      BY <2>1
    <3>3. QED
      BY <1>1, <3>1, <3>2
  <2>4. NextStep(r)' = s /\ run'[r].call \in 1..n
    BY <1>2, <1>3, <1>6, <2>2 DEF NextStep
  <2>5. Poised(r)'
    BY <1>1, <1>3, <1>4, <1>5, <2>2, <2>4 DEF Poised, At
  <2>6. QED
    BY <2>2, <2>3, <2>5 DEF TypeInv, AllPrescribed
<1>7. CASE ~(run[r].call < n)
  <2>1. run' = [run EXCEPT ![r].next = @ + 1, ![r].call = 1]
    BY <1>7 DEF Proceed
  <2>2. /\ run'[r].call = 1 /\ run'[r].next = run[r].next + 1
        /\ run'[r].pc = run[r].pc /\ run'[r].manifest = run[r].manifest
        /\ run'[r].steps = run[r].steps
    BY <1>1, <2>1 DEF RunRecords
  <2>3. run' \in [Runs -> RunRecords] /\ \A t \in Runs \ {r} : run'[t] = run[t]
    <3>1. [run[r] EXCEPT !.next = run[r].next + 1, !.call = 1] \in RunRecords
      BY <1>1, RecordsTyped DEF Phases, Outcomes
    <3>2. run' = [run EXCEPT ![r] = [run[r] EXCEPT !.next = run[r].next + 1, !.call = 1]]
      BY <1>1, <2>1
    <3>3. QED
      BY <1>1, <3>1, <3>2
  <2>4. ASSUME Planned(r)' PROVE run'[r].call \in DOMAIN StepCalls(NextStep(r)')
    <3>1. run'[r].next \in DOMAIN run[r].steps
      BY <1>2, <2>2, <2>4 DEF Planned
    <3>2. Prescribed(NextStep(r)')
      BY <2>2, <3>1 DEF TypeInv, AllPrescribed, NextStep
    <3>3. QED
      BY <2>2, <3>2, CallsOfSteps
  <2>5. Poised(r)'
    BY <1>1, <1>4, <1>5, <2>2, <2>4 DEF Poised, At
  <2>6. QED
    BY <2>2, <2>3, <2>5 DEF TypeInv, AllPrescribed
<1>8. QED
  BY <1>6, <1>7

LEMMA StoppedTyped ==
  ASSUME TypeInv, NEW r \in Runs, At(r, "executing"), NEW outcome \in Outcomes, Stopped(r, outcome),
         cache' = cache, holder' = holder
  PROVE  /\ run' \in [Runs -> RunRecords] /\ \A s \in Runs \ {r} : run'[s] = run[s]
         /\ Poised(r)' /\ \A k \in DOMAIN run'[r].steps : Prescribed(run'[r].steps[k])
         /\ run'[r].steps = <<>> /\ run'[r].pc = "leaving"
<1>1. /\ run \in [Runs -> RunRecords] /\ run[r] \in RunRecords /\ Poised(r)
      /\ run[r].pc = "executing"
  BY DEF TypeInv, TypeOK, At
<1>2. /\ cache # 0 /\ run[r].manifest # 0 /\ holder = r
  BY <1>1 DEF Poised, At
<1>3. /\ run'[r].call = 1 /\ run'[r].next = 1 /\ run'[r].steps = <<>> /\ run'[r].pc = "leaving"
      /\ run'[r].manifest = run[r].manifest
  BY <1>1 DEF Stopped, RunRecords
<1>4. run' \in [Runs -> RunRecords] /\ \A t \in Runs \ {r} : run'[t] = run[t]
  <2> DEFINE rec == [run[r] EXCEPT !.pc = "leaving", !.outcome = outcome,
                                  !.steps = <<>>, !.next = 1, !.call = 1]
  <2>1. rec \in RunRecords
    BY <1>1, RecordsTyped DEF Phases
  <2>2. run' = [run EXCEPT ![r] = rec]
    BY <1>1 DEF Stopped
  <2>. HIDE DEF rec
  <2>3. QED
    BY <1>1, <2>1, <2>2
<1>5. QED
  BY <1>2, <1>3, <1>4, PoisedWithoutSteps

LEMMA TypesInitial == Init => TypeInv
<1> SUFFICES ASSUME Init PROVE TypeInv
  OBVIOUS
<1>1. 1 \in Revisions
  BY MateriaAssumption DEF Revisions
<1>2. Absent \in Nat
  BY DEF Absent
<1>3. disk \in [Comps -> Directories]
  BY <1>2 DEF Init, NoComponent, Directories
<1>4. live \in [Comps -> [loaded : [Paths -> Nat], running : [Paths -> Nat]]]
  BY <1>2 DEF Init
<1>5. Resting("none") \in RunRecords
  BY RestingTyped DEF Outcomes
<1>6. run \in [Runs -> RunRecords] /\ \A r \in Runs : run[r] = Resting("none")
  BY <1>5 DEF Init
<1>7. ASSUME NEW r \in Runs
      PROVE  Poised(r) /\ \A k \in DOMAIN run[r].steps : Prescribed(run[r].steps[k])
  <2>1. /\ run[r].steps = <<>> /\ run[r].next = 1 /\ run[r].call = 1 /\ run[r].pc = "idle"
        /\ Len(run[r].steps) = 0 /\ DOMAIN run[r].steps = {}
    BY <1>6 DEF Resting
  <2>2. QED
    BY <2>1 DEF Poised, At, Planned
<1>8. QED
  BY <1>1, <1>3, <1>4, <1>6, <1>7 DEF Init, TypeInv, TypeOK, AllPrescribed

(* What most actions leave alone.                                          *)
LEMMA OnlyRuns ==
  ASSUME TypeInv, NEW r \in Runs,
         run' \in [Runs -> RunRecords], \A s \in Runs \ {r} : run'[s] = run[s],
         Poised(r)', \A k \in DOMAIN run'[r].steps : Prescribed(run'[r].steps[k]),
         \A s \in Runs \ {r} : holder = s => holder' = s,
         holder' \in Runs \cup {NoRun}, remote' = remote,
         cache' \in Revisions \cup {0}, cache # 0 => cache' # 0,
         disk' \in [Comps -> Directories],
         live' \in [Comps -> [loaded : [Paths -> Nat], running : [Paths -> Nat]]],
         faults' \in Nat, crashes' \in Nat
  PROVE  TypeInv'
BY OneMoves DEF TypeInv, TypeOK

LEMMA SetupTyped ==
  ASSUME TypeInv, NEW r \in Runs, Setup(r)
  PROVE  TypeInv'
<1> DEFINE rec == [Resting("none") EXCEPT !.pc = "start", !.manifest = remote, !.before = cache]
<1>1. /\ remote \in Revisions /\ cache \in Revisions \cup {0} /\ remote # 0
      /\ run \in [Runs -> RunRecords]
  BY MateriaAssumption DEF TypeInv, TypeOK, Revisions
<1>2. rec \in RunRecords
  <2>1. /\ Resting("none") \in RunRecords /\ "start" \in Phases /\ "none" \in Outcomes
        /\ remote \in Revisions \cup {0}
    BY <1>1, RestingTyped DEF Phases, Outcomes
  <2>2. QED
    BY <1>1, <2>1, RecordsTyped
<1>3. run' = [run EXCEPT ![r] = rec] /\ cache' = remote
  BY DEF Setup
<1>4. /\ rec.steps = <<>> /\ rec.next = 1 /\ rec.call = 1 /\ rec.pc = "start" /\ rec.manifest = remote
  BY DEF Resting
<1>. HIDE DEF rec
<1>5. run' \in [Runs -> RunRecords] /\ run'[r] = rec /\ \A s \in Runs \ {r} : run'[s] = run[s]
  BY <1>1, <1>2, <1>3
<1>6. Poised(r)' /\ \A k \in DOMAIN run'[r].steps : Prescribed(run'[r].steps[k])
  BY <1>1, <1>3, <1>4, <1>5, PoisedWithoutSteps
<1>7. QED
  BY <1>1, <1>3, <1>5, <1>6, OnlyRuns DEF Setup, TypeInv, TypeOK

(* The plan Plan makes, of the revision checked out, for the components of *)
(* the manifest it has loaded.                                             *)
PlanOf(r) == PlanHost(disk, FilesIn[cache], live, AssignedIn[run[r].manifest])

LEMMA PlanOfRun ==
  ASSUME TypeInv, NEW r \in Runs, At(r, "start")
  PROVE  /\ cache \in Revisions /\ run[r].manifest \in Revisions
         /\ disk \in [Comps -> Directories] /\ FilesIn[cache] \in [Comps -> [Paths -> Nat]]
         /\ AssignedIn[run[r].manifest] \in SUBSET Comps
         /\ PlanOf(r).steps \in StepLists
         /\ \A k \in DOMAIN PlanOf(r).steps :
               /\ Prescribed(PlanOf(r).steps[k])
               /\ \/ PlanOf(r).steps[k] = HostReload
                  \/ \E c \in Comps :
                        PlanOf(r).steps[k] \in ChangesTo(c, disk[c], FilesIn[cache][c],
                                                         c \in AssignedIn[run[r].manifest])
         /\ PlanOf(r).ok =>
               /\ \A c \in Comps : disk[c].data => Loads(disk[c])
               /\ \A c \in AssignedIn[run[r].manifest] :
                     /\ FilesIn[cache][c][Manifest] # Absent
                     /\ ~disk[c].data => InstallsWhole(c, FilesIn[cache][c], PlanOf(r).steps)
<1>1. cache \in Revisions /\ run[r].manifest \in Revisions
  BY DEF TypeInv, TypeOK, Poised, At, RunRecords
<1>2. /\ disk \in [Comps -> Directories] /\ FilesIn[cache] \in [Comps -> [Paths -> Nat]]
      /\ AssignedIn[run[r].manifest] \in SUBSET Comps
  BY <1>1, MateriaAssumption DEF TypeInv, TypeOK
<1>3. LET plan == PlanOf(r)
          files == FilesIn[cache]
          assigned == AssignedIn[run[r].manifest]
      IN
      /\ plan.steps \in Seq(Changes \cup {HostReload})
      /\ \A k \in DOMAIN plan.steps :
            \/ plan.steps[k] = HostReload
            \/ \E c \in Comps : plan.steps[k] \in ChangesTo(c, disk[c], files[c], c \in assigned)
      /\ plan.ok =>
            /\ \A c \in Comps : disk[c].data => Loads(disk[c])
            /\ \A c \in assigned : files[c][Manifest] # Absent
            /\ \A c \in assigned : ~disk[c].data => InstallsWhole(c, files[c], plan.steps)
  BY <1>2, HostPlan DEF PlanOf
<1>4. ASSUME NEW c \in Comps, NEW s,
             s \in ChangesTo(c, disk[c], FilesIn[cache][c], c \in AssignedIn[run[r].manifest])
      PROVE  Prescribed(s)
  <2>1. s \in Jobs(c) \cup Updates(c, FilesIn[cache][c]) \cup Removals(c)
              \cup Installs(c, FilesIn[cache][c])
    BY <1>4 DEF ChangesTo
  <2>2. QED
    BY <1>1, <2>1 DEF Prescribed
<1>5. Prescribed(HostReload)
  BY DEF Prescribed
<1>6. QED
  BY <1>1, <1>2, <1>3, <1>4, <1>5 DEF StepLists

LEMMA PlanTyped ==
  ASSUME TypeInv, NEW r \in Runs, Plan(r)
  PROVE  /\ TypeInv'
         /\ \A s \in Runs \ {r} : run'[s] = run[s]
         /\ \/ PlanOf(r).ok /\ run'[r].steps = PlanOf(r).steps /\ run'[r].pc = "planned"
               /\ run'[r].next = 1 /\ run'[r].call = 1 /\ run'[r].manifest = run[r].manifest
            \/ run'[r].steps = <<>> /\ run'[r].pc = "idle"
<1> DEFINE plan == PlanOf(r)
<1>1. /\ run \in [Runs -> RunRecords] /\ run[r] \in RunRecords /\ Poised(r)
      /\ run[r].pc = "start" /\ run[r].steps = <<>> /\ run[r].next = 1 /\ run[r].call = 1
      /\ cache # 0 /\ run[r].manifest # 0 /\ run[r].rolledBack \in BOOLEAN
  BY DEF TypeInv, TypeOK, Plan, At, Poised, RunRecords
<1>2. /\ plan.steps \in StepLists /\ \A k \in DOMAIN plan.steps : Prescribed(plan.steps[k])
  BY PlanOfRun DEF Plan
<1>3. CASE plan.ok
  <2> DEFINE rec == [run[r] EXCEPT !.pc = "planned", !.steps = plan.steps]
  <2>1. run' = [run EXCEPT ![r].pc = "planned", ![r].steps = plan.steps]
    BY <1>3 DEF Plan, PlanOf
  <2>2. run' = [run EXCEPT ![r] = rec]
    BY <1>1, <2>1
  <2>. HIDE DEF plan
  <2>3. rec \in RunRecords
    BY <1>1, <1>2, RecordsTyped DEF Phases, Outcomes
  <2>4. /\ rec.pc = "planned" /\ rec.steps = plan.steps /\ rec.next = 1 /\ rec.call = 1
        /\ rec.manifest = run[r].manifest
    BY <1>1 DEF RunRecords
  <2>. HIDE DEF rec
  <2>5. run' \in [Runs -> RunRecords] /\ run'[r] = rec /\ \A s \in Runs \ {r} : run'[s] = run[s]
    BY <1>1, <2>2, <2>3
  <2>6. ASSUME Planned(r)' PROVE run'[r].call \in DOMAIN StepCalls(NextStep(r)')
    <3>1. run'[r].next \in DOMAIN plan.steps
      BY <1>2, <2>4, <2>5, <2>6 DEF Planned, StepLists
    <3>2. Prescribed(NextStep(r)')
      BY <1>2, <2>4, <2>5, <3>1 DEF NextStep
    <3>3. Len(StepCalls(NextStep(r)')) \in Nat \ {0}
          /\ DOMAIN StepCalls(NextStep(r)') = 1..Len(StepCalls(NextStep(r)'))
      BY <3>2, CallsOfSteps
    <3>4. QED
      BY <2>4, <2>5, <3>3
  <2>7. cache' = cache
    BY DEF Plan
  <2>8. Poised(r)'
    BY <1>1, <2>4, <2>5, <2>6, <2>7 DEF Poised, At
  <2>9. \A k \in DOMAIN run'[r].steps : Prescribed(run'[r].steps[k])
    BY <1>2, <2>4, <2>5
  <2>10. TypeInv'
    BY <2>5, <2>7, <2>8, <2>9, OnlyRuns DEF Plan, TypeInv, TypeOK
  <2>11. QED
    BY <1>3, <2>4, <2>5, <2>10 DEF plan
<1>4. CASE ~plan.ok
  <2> DEFINE rec == [Resting("planFailed") EXCEPT !.rolledBack = run[r].rolledBack]
  <2>1. run' = [run EXCEPT ![r] = rec]
    BY <1>4 DEF Plan, PlanOf
  <2>2. rec \in RunRecords
    BY <1>1, RecordsTyped, RestingTyped DEF Phases, Outcomes
  <2>3. rec.pc = "idle" /\ rec.steps = <<>> /\ rec.next = 1 /\ rec.call = 1
    BY DEF Resting
  <2>. HIDE DEF plan, rec
  <2>4. run' \in [Runs -> RunRecords] /\ run'[r] = rec /\ \A s \in Runs \ {r} : run'[s] = run[s]
    BY <1>1, <2>1, <2>2
  <2>5. Poised(r)' /\ \A k \in DOMAIN run'[r].steps : Prescribed(run'[r].steps[k])
    BY <2>3, <2>4, PoisedWithoutSteps
  <2>6. TypeInv'
    BY <2>4, <2>5, OnlyRuns DEF Plan, TypeInv, TypeOK
  <2>7. QED
    BY <2>3, <2>4, <2>6
<1>5. QED
  BY <1>3, <1>4

LEMMA BeginTyped ==
  ASSUME TypeInv, NEW r \in Runs, BeginExecute(r)
  PROVE  TypeInv'
<1> DEFINE rec == [run[r] EXCEPT !.pc = "executing"]
<1>1. /\ run \in [Runs -> RunRecords] /\ run[r] \in RunRecords /\ Poised(r)
      /\ run[r].pc = "planned" /\ cache # 0 /\ run[r].manifest # 0 /\ NoRun \notin Runs
      /\ holder = NoRun /\ holder' = r /\ cache' = cache
  BY MateriaAssumption DEF TypeInv, TypeOK, BeginExecute, At, Poised
<1>2. run' = [run EXCEPT ![r] = rec]
  BY <1>1 DEF BeginExecute
<1>3. rec \in RunRecords
  BY <1>1, RecordsTyped DEF Phases, Outcomes
<1>4. /\ rec.pc = "executing" /\ rec.steps = run[r].steps /\ rec.next = run[r].next
      /\ rec.call = run[r].call /\ rec.manifest = run[r].manifest
  BY <1>1 DEF RunRecords
<1>. HIDE DEF rec
<1>5. run' \in [Runs -> RunRecords] /\ run'[r] = rec /\ \A s \in Runs \ {r} : run'[s] = run[s]
  BY <1>1, <1>2, <1>3
<1>6. Planned(r)' = Planned(r) /\ NextStep(r)' = NextStep(r)
  BY <1>4, <1>5 DEF Planned, NextStep
<1>7. Poised(r)'
  BY <1>1, <1>4, <1>5, <1>6 DEF Poised, At
<1>8. \A k \in DOMAIN run'[r].steps : Prescribed(run'[r].steps[k])
  BY <1>4, <1>5 DEF TypeInv, AllPrescribed
<1>9. QED
  BY <1>1, <1>5, <1>7, <1>8, OnlyRuns DEF BeginExecute, TypeInv, TypeOK

(* A step of an execution: the process goes on with its plan or stops.     *)
LEMMA ExecutionTyped ==
  ASSUME TypeInv, NEW r \in Runs, At(r, "executing"),
         \/ Executing(r) /\ Proceed(r)
         \/ \E outcome \in Outcomes : Stopped(r, outcome),
         UNCHANGED <<remote, cache, holder>>,
         disk' \in [Comps -> Directories],
         live' \in [Comps -> [loaded : [Paths -> Nat], running : [Paths -> Nat]]],
         faults' \in Nat, crashes' \in Nat
  PROVE  TypeInv'
<1>1. /\ run' \in [Runs -> RunRecords] /\ \A s \in Runs \ {r} : run'[s] = run[s]
      /\ Poised(r)' /\ \A k \in DOMAIN run'[r].steps : Prescribed(run'[r].steps[k])
  BY ProceedTyped, StoppedTyped
<1>2. QED
  BY <1>1, OnlyRuns DEF TypeInv, TypeOK

LEMMA FileStepTyped ==
  ASSUME TypeInv, NEW r \in Runs, FileStep(r)
  PROVE  TypeInv'
<1> DEFINE k == NextCall(r)
<1>1. /\ k.op \notin ServiceCalls /\ Executing(r) /\ k.comp \in Comps /\ k.op \in FileOpNames
      /\ k.op \in {"mkdir", "write", "remove"} => k.path \in Paths
      /\ k.op = "write" => k.content \in Nat
  BY CallOfRun DEF FileStep
<1>2. disk \in [Comps -> Directories] /\ disk[k.comp] \in Directories
  BY <1>1 DEF TypeInv, TypeOK
<1>3. After(disk[k.comp], k) \in Directories
  BY <1>1, <1>2, DirectoriesKept DEF FileOpNames
<1>4. disk' \in [Comps -> Directories]
  <2>1. disk' = disk \/ disk' = [disk EXCEPT ![k.comp] = After(disk[k.comp], k)]
    BY <1>1, <1>2 DEF FileStep
  <2>. HIDE DEF k
  <2>2. QED
    BY <1>2, <1>3, <2>1
<1>5. \/ Proceed(r) 
      \/ \E outcome \in Outcomes : Stopped(r, outcome)
  BY DEF FileStep, Outcomes
<1>6. At(r, "executing")
  BY <1>1 DEF Executing
<1>7. QED
  BY <1>1, <1>4, <1>5, <1>6, ExecutionTyped DEF FileStep, TypeInv, TypeOK

LEMMA ReloadTyped ==
  ASSUME TypeInv, NEW r \in Runs, ReloadUnits(r)
  PROVE  TypeInv'
<1>1. At(r, "executing")
  BY DEF ReloadUnits, Executing
<1>2. live' \in [Comps -> [loaded : [Paths -> Nat], running : [Paths -> Nat]]]
  <2>1. ASSUME NEW c \in Comps, NEW f \in [Paths -> Nat]
        PROVE  [live[c] EXCEPT !.loaded = f]
                  \in [loaded : [Paths -> Nat], running : [Paths -> Nat]]
    BY DEF TypeInv, TypeOK
  <2>2. ASSUME NEW c \in Comps
        PROVE  [p \in Paths |-> IF p \in Containers THEN disk[c].at[p] ELSE Absent] \in [Paths -> Nat]
    BY DEF TypeInv, TypeOK, Directories, Absent
  <2>3. live' = [c \in Comps |-> [live[c] EXCEPT
                    !.loaded = [p \in Paths |-> IF p \in Containers THEN disk[c].at[p] ELSE Absent]]]
    BY DEF ReloadUnits
  <2>4. QED
    BY <2>1, <2>2, <2>3
<1>3. QED
  BY <1>1, <1>2, ExecutionTyped DEF ReloadUnits, TypeInv, TypeOK

LEMMA ServiceTyped ==
  ASSUME TypeInv, NEW r \in Runs, ServiceStep(r)
  PROVE  TypeInv'
<1> DEFINE k == NextCall(r)
           unit == live[k.comp].loaded[k.path]
           Units == [loaded : [Paths -> Nat], running : [Paths -> Nat]]
           becomes(content) == [live EXCEPT ![k.comp].running[k.path] = content]
<1>1. At(r, "executing") /\ Executing(r)
  BY DEF ServiceStep, Executing
<1>2. k.comp \in Comps /\ k.path \in Paths
  BY <1>1, CallOfRun DEF ServiceStep
<1>3. live \in [Comps -> Units] /\ unit \in Nat /\ Absent \in Nat
  BY <1>2 DEF TypeInv, TypeOK, Absent
<1>4. ASSUME NEW content \in Nat PROVE becomes(content) \in [Comps -> Units]
  <2>. HIDE DEF k
  <2>1. [live[k.comp] EXCEPT !.running[k.path] = content] \in Units
    BY <1>2, <1>3
  <2>2. becomes(content) = [live EXCEPT ![k.comp] = [live[k.comp] EXCEPT !.running[k.path] = content]]
    OBVIOUS
  <2>3. QED
    BY <1>2, <1>3, <2>1, <2>2
<1>5. live' = live \/ live' = becomes(Absent) \/ live' = becomes(unit)
  BY DEF ServiceStep
<1>6. live' \in [Comps -> Units]
  BY <1>3, <1>4, <1>5
<1>7. Proceed(r) \/ \E outcome \in Outcomes : Stopped(r, outcome)
  BY DEF ServiceStep, Outcomes
<1>8. QED
  BY <1>1, <1>6, <1>7, ExecutionTyped DEF ServiceStep, TypeInv, TypeOK

LEMMA TornTyped ==
  ASSUME TypeInv, NEW r \in Runs, Executing(r), NextCall(r).op \notin ServiceCalls
  PROVE  [disk EXCEPT ![NextCall(r).comp] = Torn(disk[NextCall(r).comp], NextCall(r))]
            \in [Comps -> Directories]
<1> DEFINE k == NextCall(r)
<1>1. /\ k.comp \in Comps /\ k.op \in FileOpNames
      /\ k.op \in {"mkdir", "write", "remove"} => k.path \in Paths
      /\ k.op = "write" => k.content \in Nat
  BY CallOfRun
<1>2. disk \in [Comps -> Directories] /\ disk[k.comp] \in Directories
  BY <1>1 DEF TypeInv, TypeOK
<1>3. Torn(disk[k.comp], k) \in Directories
  BY <1>1, <1>2, DirectoriesKept DEF FileOpNames
<1>. HIDE DEF k
<1>4. [disk EXCEPT ![k.comp] = Torn(disk[k.comp], k)] \in [Comps -> Directories]
  BY <1>2, <1>3
<1>5. QED
  BY <1>4 DEF k

LEMMA FaultTyped ==
  ASSUME TypeInv, NEW r \in Runs, Fault(r)
  PROVE  TypeInv'
<1>1. At(r, "executing") /\ Executing(r)
  BY DEF Fault, Executing
<1>2. disk' \in [Comps -> Directories]
  <2>1. disk' = disk \/ /\ NextCall(r).op \notin ServiceCalls
                        /\ disk' = [disk EXCEPT ![NextCall(r).comp]
                                       = Torn(disk[NextCall(r).comp], NextCall(r))]
    BY DEF Fault
  <2>2. QED
    BY <1>1, <2>1, TornTyped DEF TypeInv, TypeOK
<1>3. \E outcome \in Outcomes : Stopped(r, outcome)
  BY DEF Fault, Outcomes
<1>4. faults' \in Nat
  BY DEF Fault, TypeInv, TypeOK
<1>5. QED
  BY <1>1, <1>2, <1>3, <1>4, ExecutionTyped DEF Fault, TypeInv, TypeOK

LEMMA CompletedTyped ==
  ASSUME TypeInv, NEW r \in Runs, Completed(r)
  PROVE  TypeInv'
BY ExecutionTyped DEF Completed, Outcomes, TypeInv, TypeOK

LEMMA ReturnedTyped ==
  ASSUME TypeInv, NEW r \in Runs, run[r].steps = <<>>
  PROVE  /\ Returned(r) \in RunRecords
         /\ Returned(r).steps = <<>> /\ Returned(r).next = 1 /\ Returned(r).call = 1
         /\ Returned(r).pc \in {"idle", "rollback"}
         /\ Returned(r).pc = "rollback" => Returned(r).manifest = run[r].manifest
<1>1. /\ run[r] \in RunRecords /\ run[r].next = 1 /\ run[r].call = 1 /\ run[r].steps = <<>>
      /\ run[r].rolledBack \in BOOLEAN /\ run[r].outcome \in Outcomes
  BY DEF TypeInv, TypeOK, Poised, RunRecords
<1>2. CASE Returned(r) = [run[r] EXCEPT !.pc = "rollback"]
  <2>1. [run[r] EXCEPT !.pc = "rollback"] \in RunRecords
    BY <1>1, RecordsTyped DEF Phases
  <2>2. QED
    BY <1>1, <1>2, <2>1 DEF RunRecords
<1>3. CASE Returned(r) = [Resting(run[r].outcome) EXCEPT !.rolledBack = run[r].rolledBack]
  <2>1. Resting(run[r].outcome) \in RunRecords /\ "idle" \in Phases
    BY <1>1, RestingTyped DEF Phases
  <2>2. Returned(r) \in RunRecords
    BY <1>1, <1>3, <2>1, RecordsTyped
  <2>3. Returned(r).steps = <<>> /\ Returned(r).next = 1 /\ Returned(r).call = 1
        /\ Returned(r).pc = "idle"
    BY <1>3 DEF Resting
  <2>4. QED
    BY <2>2, <2>3
<1>4. QED
  BY <1>2, <1>3 DEF Returned

(* The phases after an execution, where a process has no steps: only its   *)
(* record, the lock and the disk change.                                   *)
LEMMA AfterExecutionTyped ==
  ASSUME TypeInv, NEW r \in Runs, NEW rec \in RunRecords, run' = [run EXCEPT ![r] = rec],
         rec.steps = <<>>, rec.next = 1, rec.call = 1,
         rec.pc \notin {"executing", "leaving"},
         rec.pc # "idle" => cache' # 0 /\ rec.manifest # 0,
         remote' = remote, cache' \in Revisions \cup {0}, cache # 0 => cache' # 0,
         disk' \in [Comps -> Directories], live' = live,
         holder' \in Runs \cup {NoRun}, \A s \in Runs \ {r} : holder = s => holder' = s,
         faults' \in Nat, crashes' \in Nat
  PROVE  TypeInv' /\ run'[r] = rec /\ \A s \in Runs \ {r} : run'[s] = run[s]
<1>1. run' \in [Runs -> RunRecords] /\ run'[r] = rec /\ \A s \in Runs \ {r} : run'[s] = run[s]
  BY DEF TypeInv, TypeOK
<1>2. Poised(r)' /\ \A k \in DOMAIN run'[r].steps : Prescribed(run'[r].steps[k])
  BY <1>1, PoisedWithoutSteps
<1>3. live' \in [Comps -> [loaded : [Paths -> Nat], running : [Paths -> Nat]]]
  BY DEF TypeInv, TypeOK
<1>4. QED
  BY <1>1, <1>2, <1>3, OnlyRuns

LEMMA WithoutSteps ==
  ASSUME TypeInv, NEW r \in Runs, run[r].pc \notin {"idle", "planned", "executing"}
  PROVE  /\ run[r] \in RunRecords /\ run[r].steps = <<>> /\ run[r].next = 1 /\ run[r].call = 1
         /\ cache # 0 /\ run[r].manifest # 0
         /\ run[r].pc = "leaving" => holder = r
BY DEF TypeInv, TypeOK, Poised, At

LEMMA UnlockTyped ==
  ASSUME TypeInv, NEW r \in Runs, Unlock(r)
  PROVE  TypeInv'
<1> DEFINE rec == IF CleanupComponents THEN [run[r] EXCEPT !.pc = "validating"] ELSE Returned(r)
<1>1. /\ run[r] \in RunRecords /\ run[r].steps = <<>> /\ run[r].next = 1 /\ run[r].call = 1
      /\ cache # 0 /\ run[r].manifest # 0 /\ holder = r
  BY WithoutSteps DEF Unlock, At
<1>2. /\ rec \in RunRecords /\ rec.steps = <<>> /\ rec.next = 1 /\ rec.call = 1
      /\ rec.pc \notin {"executing", "leaving"}
      /\ rec.pc # "idle" => rec.manifest # 0
  <2>1. CASE CleanupComponents
    <3>1. [run[r] EXCEPT !.pc = "validating"] \in RunRecords
      BY <1>1, RecordsTyped DEF Phases, Outcomes
    <3>2. QED
      BY <1>1, <2>1, <3>1 DEF RunRecords
  <2>2. CASE ~CleanupComponents
    BY <1>1, <2>2, ReturnedTyped
  <2>3. QED
    BY <2>1, <2>2
<1>3. run' = [run EXCEPT ![r] = rec]
  BY DEF Unlock
<1>. HIDE DEF rec
<1>4. QED
  BY <1>1, <1>2, <1>3, AfterExecutionTyped DEF Unlock, TypeInv, TypeOK

LEMMA ValidateTyped ==
  ASSUME TypeInv, NEW r \in Runs, ValidateComponents(r)
  PROVE  /\ TypeInv' /\ \A s \in Runs \ {r} : run'[s] = run[s]
         /\ run'[r].invalid = {c \in Comps : Corrupt(disk[c])} /\ run'[r].pc = "purging"
         /\ run'[r].steps = <<>>
<1> DEFINE S == {c \in Comps : Corrupt(disk[c])}
           rec == [run[r] EXCEPT !.pc = "purging", !.invalid = S]
<1>1. /\ run[r] \in RunRecords /\ run[r].steps = <<>> /\ run[r].next = 1 /\ run[r].call = 1
      /\ cache # 0 /\ run[r].manifest # 0 /\ run \in [Runs -> RunRecords]
  BY WithoutSteps DEF ValidateComponents, At, TypeInv, TypeOK
<1>2. run' = [run EXCEPT ![r] = rec]
  BY <1>1 DEF ValidateComponents
<1>3. S \in SUBSET Comps
  OBVIOUS
<1>. HIDE DEF S
<1>4. rec \in RunRecords
  BY <1>1, <1>3, RecordsTyped DEF Phases, Outcomes
<1>5. /\ rec.steps = <<>> /\ rec.next = 1 /\ rec.call = 1 /\ rec.pc = "purging"
      /\ rec.manifest # 0 /\ rec.invalid = S
  BY <1>1 DEF RunRecords
<1>. HIDE DEF rec
<1>6. TypeInv' /\ run'[r] = rec /\ \A s \in Runs \ {r} : run'[s] = run[s]
  BY <1>1, <1>2, <1>4, <1>5, AfterExecutionTyped DEF ValidateComponents, TypeInv, TypeOK
<1>7. QED
  BY <1>5, <1>6 DEF S

LEMMA NoComponentTyped == NoComponent \in Directories
BY DEF NoComponent, Directories, Absent

LEMMA PurgeTyped ==
  ASSUME TypeInv, NEW r \in Runs, NEW c \in Comps, Purge(r, c)
  PROVE  /\ TypeInv' /\ \A s \in Runs \ {r} : run'[s] = run[s]
         /\ run'[r].invalid = run[r].invalid \ {c} /\ run'[r].pc = "purging"
         /\ run'[r].steps = <<>>
<1> DEFINE S == run[r].invalid \ {c}
           rec == [run[r] EXCEPT !.invalid = S]
<1>1. /\ run[r] \in RunRecords /\ run[r].steps = <<>> /\ run[r].next = 1 /\ run[r].call = 1
      /\ cache # 0 /\ run[r].manifest # 0 /\ run[r].pc = "purging" /\ run \in [Runs -> RunRecords]
  BY WithoutSteps DEF Purge, At, TypeInv, TypeOK
<1>2. run' = [run EXCEPT ![r] = rec]
  BY <1>1 DEF Purge
<1>3. S \in SUBSET Comps
  BY <1>1 DEF RunRecords
<1>. HIDE DEF S
<1>4. rec \in RunRecords
  BY <1>1, <1>3, RecordsTyped DEF Phases, Outcomes
<1>5. /\ rec.steps = <<>> /\ rec.next = 1 /\ rec.call = 1 /\ rec.pc = "purging"
      /\ rec.manifest # 0 /\ rec.invalid = S
  BY <1>1 DEF RunRecords
<1>. HIDE DEF rec
<1>6. disk' \in [Comps -> Directories]
  BY NoComponentTyped DEF Purge, TypeInv, TypeOK
<1>7. TypeInv' /\ run'[r] = rec /\ \A s \in Runs \ {r} : run'[s] = run[s]
  BY <1>1, <1>2, <1>4, <1>5, <1>6, AfterExecutionTyped DEF Purge, TypeInv, TypeOK
<1>8. QED
  BY <1>5, <1>7 DEF S

LEMMA ReturnTyped ==
  ASSUME TypeInv, NEW r \in Runs, Return(r)
  PROVE  TypeInv'
<1>1. /\ run[r].steps = <<>> /\ cache # 0 /\ run[r].manifest # 0
  BY WithoutSteps DEF Return, At
<1>2. run' = [run EXCEPT ![r] = Returned(r)]
  BY DEF Return
<1>3. QED
  BY <1>1, <1>2, ReturnedTyped, AfterExecutionTyped DEF Return, TypeInv, TypeOK

LEMMA RollbackTyped ==
  ASSUME TypeInv, NEW r \in Runs, RollbackSource(r)
  PROVE  TypeInv' /\ run'[r].steps = <<>>
<1>1. /\ run[r] \in RunRecords /\ run[r].steps = <<>> /\ run[r].next = 1 /\ run[r].call = 1
      /\ cache # 0 /\ run[r].manifest # 0 /\ run \in [Runs -> RunRecords]
      /\ run[r].before \in Revisions \cup {0}
  BY WithoutSteps DEF RollbackSource, At, TypeInv, TypeOK, RunRecords
<1>2. CASE run[r].before = 0
  <2>1. Resting("noRollback") \in RunRecords
    BY RestingTyped DEF Outcomes
  <2>2. LET rec == Resting("noRollback") IN
        rec.steps = <<>> /\ rec.next = 1 /\ rec.call = 1 /\ rec.pc = "idle"
    BY DEF Resting
  <2>3. run' = [run EXCEPT ![r] = Resting("noRollback")] /\ cache' = cache
    BY <1>2 DEF RollbackSource
  <2>4. QED
    BY <1>1, <2>1, <2>2, <2>3, AfterExecutionTyped DEF RollbackSource, TypeInv, TypeOK
<1>3. CASE run[r].before # 0
  <2> DEFINE rec == [run[r] EXCEPT !.pc = "start", !.rolledBack = TRUE, !.outcome = "none"]
  <2>1. run' = [run EXCEPT ![r] = rec] /\ cache' = run[r].before
    BY <1>1, <1>3 DEF RollbackSource
  <2>2. rec \in RunRecords
    BY <1>1, RecordsTyped DEF Phases, Outcomes
  <2>3. /\ rec.steps = <<>> /\ rec.next = 1 /\ rec.call = 1 /\ rec.pc = "start" /\ rec.manifest # 0
    BY <1>1 DEF RunRecords
  <2>. HIDE DEF rec
  <2>4. QED
    BY <1>1, <1>3, <2>1, <2>2, <2>3, AfterExecutionTyped DEF RollbackSource, TypeInv, TypeOK
<1>4. QED
  BY <1>2, <1>3

LEMMA CrashTyped ==
  ASSUME TypeInv, NEW r \in Runs, Crash(r)
  PROVE  TypeInv' /\ run'[r].steps = <<>> /\ run'[r].pc = "idle"
         /\ \A s \in Runs \ {r} : run'[s] = run[s]
<1> DEFINE rec == Resting("crashed")
<1>1. rec \in RunRecords
  BY RestingTyped DEF Outcomes
<1>2. rec.steps = <<>> /\ rec.next = 1 /\ rec.call = 1 /\ rec.pc = "idle"
  BY DEF Resting
<1>3. run' = [run EXCEPT ![r] = rec]
  BY DEF Crash
<1>. HIDE DEF rec
<1>4. disk' \in [Comps -> Directories]
  <2>1. disk' = disk \/ /\ Executing(r) /\ NextCall(r).op \notin ServiceCalls
                        /\ disk' = [disk EXCEPT ![NextCall(r).comp]
                                       = Torn(disk[NextCall(r).comp], NextCall(r))]
    BY DEF Crash
  <2>2. QED
    BY <2>1, TornTyped DEF TypeInv, TypeOK
<1>5. /\ holder' \in Runs \cup {NoRun} /\ \A s \in Runs \ {r} : holder = s => holder' = s
      /\ crashes' \in Nat
  BY DEF Crash, TypeInv, TypeOK
<1>6. QED
  BY <1>1, <1>2, <1>3, <1>4, <1>5, AfterExecutionTyped DEF Crash, TypeInv, TypeOK

(* Steps of the environment, and stuttering, leave the processes alone.    *)
LEMMA RunsStay ==
  ASSUME TypeInv, UNCHANGED <<holder, run, cache>>
  PROVE  (\A s \in Runs : Poised(s))' /\ AllPrescribed'
<1>1. ASSUME NEW s \in Runs PROVE Poised(s)'
  BY DEF TypeInv, TypeOK, Poised, At, Planned, NextStep
<1>2. QED
  BY <1>1 DEF TypeInv, AllPrescribed

LEMMA EnvironmentTyped ==
  ASSUME TypeInv, (\E c \in Comps : RunDoctor(c) \/ WriteDropin(c)) \/ Commit \/ UNCHANGED vars
  PROVE  TypeInv' /\ run' = run /\ holder' = holder /\ cache' = cache
<1>1. CASE \E c \in Comps : RunDoctor(c)
  <2>1. disk' \in [Comps -> Directories]
    BY <1>1, NoComponentTyped DEF RunDoctor, TypeInv, TypeOK
  <2>2. QED
    BY <1>1, <2>1, RunsStay DEF RunDoctor, TypeInv, TypeOK
<1>2. CASE \E c \in Comps : WriteDropin(c)
  <2>1. PICK c \in Comps : WriteDropin(c)
    BY <1>2
  <2>2. PICK p \in Paths : disk' = [disk EXCEPT ![c] = WithDropin(disk[c], p)]
    BY <2>1 DEF WriteDropin
  <2>3. disk[c] \in Directories /\ disk \in [Comps -> Directories]
    BY DEF TypeInv, TypeOK
  <2>4. WithDropin(disk[c], p) \in Directories
    BY <2>3 DEF WithDropin, Directories, Blank
  <2>5. disk' \in [Comps -> Directories]
    BY <2>2, <2>3, <2>4
  <2>6. QED
    BY <2>1, <2>5, RunsStay DEF WriteDropin, TypeInv, TypeOK
<1>3. CASE Commit
  <2>1. remote' \in Revisions
    BY <1>3, MateriaAssumption DEF Commit, Revisions, TypeInv, TypeOK
  <2>2. QED
    BY <1>3, <2>1, RunsStay DEF Commit, TypeInv, TypeOK
<1>4. CASE UNCHANGED vars
  BY <1>4, RunsStay DEF vars, TypeInv, TypeOK
<1>5. QED
  BY <1>1, <1>2, <1>3, <1>4

LEMMA TypesKept == TypeInv /\ [Next]_vars => TypeInv'
<1>1. ASSUME TypeInv, NEW r \in Runs,
             \/ Setup(r) \/ Plan(r) \/ BeginExecute(r) \/ Execute(r)
             \/ CleanUp(r) \/ Fault(r) \/ Crash(r)
      PROVE  TypeInv'
  BY <1>1, SetupTyped, PlanTyped, BeginTyped, FileStepTyped, ReloadTyped, ServiceTyped,
     CompletedTyped, UnlockTyped, ValidateTyped, PurgeTyped, ReturnTyped, RollbackTyped,
     FaultTyped, CrashTyped DEF Execute, CleanUp
<1>2. QED
  BY <1>1, EnvironmentTyped DEF Next

LEMMA TypeInvHolds == Spec => []TypeInv
BY TypesInitial, TypesKept, PTL DEF Spec

(* Whatever fails or is interrupted, a process works on a source it has    *)
(* synced, executes under the lock, and is at a call its plan has.         *)
THEOREM TypeCorrect == Spec => []TypeOK
<1>1. TypeInv => TypeOK
  BY DEF TypeInv
<1>2. QED
  BY <1>1, TypeInvHolds, PTL

-----------------------------------------------------------------------------
(* One process: cleaning up *)

LEMMA DropinLoads ==
  ASSUME NEW d \in Directories, Loads(d), NEW p
  PROVE  Loads(WithDropin(d, p))
<1>1. Manifest \in Paths
  BY RepositoryAssumption
<1>2. /\ WithDropin(d, p).data = d.data /\ WithDropin(d, p).quadlets = d.quadlets
      /\ WithDropin(d, p).at[Manifest] \in {Blank, d.at[Manifest]}
  BY <1>1 DEF WithDropin, Directories
<1>3. QED
  BY <1>2 DEF Loads, Blank, Absent

(* While it purges, a process knows every corrupt component.               *)
KnowsCorrupt ==
    \A r \in Runs : At(r, "purging") => \A c \in Comps : Corrupt(disk[c]) => c \in run[r].invalid

(* What the environment does to a component leaves no other one corrupt.   *)
LEMMA EnvironmentCorruptsNone ==
  ASSUME TypeInv, (\E c \in Comps : RunDoctor(c) \/ WriteDropin(c)) \/ Commit \/ UNCHANGED vars,
         NEW c \in Comps, Corrupt(disk'[c])
  PROVE  Corrupt(disk[c])
<1>1. disk \in [Comps -> Directories]
  BY DEF TypeInv, TypeOK
<1>2. ASSUME NEW e \in Comps, RunDoctor(e) PROVE Corrupt(disk[c])
  <2>1. disk' = [disk EXCEPT ![e] = NoComponent]
    BY <1>2 DEF RunDoctor
  <2>2. ~Corrupt(NoComponent)
    BY DEF Corrupt, NoComponent
  <2>3. QED
    BY <1>1, <2>1, <2>2
<1>3. ASSUME NEW e \in Comps, WriteDropin(e) PROVE Corrupt(disk[c])
  <2>1. PICK p \in Paths : disk' = [disk EXCEPT ![e] = WithDropin(disk[e], p)]
    BY <1>3 DEF WriteDropin
  <2>2. Loads(WithDropin(disk[e], p))
    BY <1>1, <1>3, DropinLoads DEF WriteDropin
  <2>3. QED
    BY <1>1, <2>1, <2>2 DEF Corrupt
<1>4. CASE Commit \/ UNCHANGED vars
  BY <1>4 DEF Commit, vars
<1>5. QED
  BY <1>2, <1>3, <1>4

StepOf(r) ==
    \/ Setup(r) \/ Plan(r) \/ BeginExecute(r) \/ Execute(r)
    \/ CleanUp(r) \/ Fault(r) \/ Crash(r)

(* How a process comes to look for corrupt components, and to purge them.  *)
LEMMA PhasesOfCleanUp ==
  ASSUME TypeInv, NEW r \in Runs, StepOf(r)
  PROVE  /\ run'[r].pc = "validating" => CleanupComponents
         /\ run'[r].pc = "purging" => ValidateComponents(r) \/ \E c \in Comps : Purge(r, c)
<1> DEFINE Other == run'[r].pc \notin {"validating", "purging"}
<1>1. run \in [Runs -> RunRecords] /\ run[r] \in RunRecords
  BY DEF TypeInv, TypeOK
<1>2. ASSUME Setup(r) \/ BeginExecute(r) PROVE Other
  <2>1. CASE BeginExecute(r)
    BY <1>1, <2>1 DEF BeginExecute, RunRecords
  <2>2. CASE Setup(r)
    <3> DEFINE rec == [Resting("none") EXCEPT !.pc = "start", !.manifest = remote, !.before = cache]
    <3>1. run'[r] = rec
      BY <1>1, <2>2 DEF Setup
    <3>2. rec.pc = "start"
      BY DEF Resting
    <3>3. QED
      BY <3>1, <3>2
  <2>3. QED
    BY <1>2, <2>1, <2>2
<1>3. ASSUME Plan(r) PROVE Other
  BY <1>3, PlanTyped
<1>4. ASSUME Proceed(r) /\ Executing(r) PROVE Other
  <2>1. run[r].pc = "executing"
    BY <1>4 DEF Executing, At
  <2>2. run'[r].pc = run[r].pc
    BY <1>1, <1>4 DEF Proceed, RunRecords
  <2>3. QED
    BY <2>1, <2>2
<1>5. ASSUME NEW outcome, Stopped(r, outcome) PROVE Other
  BY <1>1, <1>5 DEF Stopped, RunRecords
<1>6. ASSUME FileStep(r) \/ ReloadUnits(r) \/ ServiceStep(r)
      PROVE  Other
  BY <1>4, <1>5, <1>6 DEF FileStep, ReloadUnits, ServiceStep
<1>7. ASSUME Completed(r) \/ Fault(r) \/ Crash(r) PROVE Other
  BY <1>5, <1>7, CrashTyped DEF Completed, Fault
<1>8. Returned(r).pc \notin {"validating", "purging"}
  BY <1>1 DEF Returned, Resting, RunRecords
<1>9. ASSUME Return(r) PROVE Other
  BY <1>1, <1>8, <1>9 DEF Return
<1>10. ASSUME RollbackSource(r) PROVE Other
  BY <1>1, <1>10 DEF RollbackSource, Resting, RunRecords
<1>11. ASSUME Unlock(r) PROVE Other \/ (CleanupComponents /\ run'[r].pc = "validating")
  BY <1>1, <1>8, <1>11 DEF Unlock, RunRecords
<1>12. ASSUME ValidateComponents(r) PROVE run'[r].pc = "purging"
  BY <1>12, ValidateTyped
<1>13. ASSUME NEW c \in Comps, Purge(r, c) PROVE run'[r].pc = "purging"
  BY <1>13, PurgeTyped
<1>14. QED
  BY <1>2, <1>3, <1>6, <1>7, <1>9, <1>10, <1>11, <1>12, <1>13 DEF StepOf, Execute, CleanUp

LEMMA KnowsCorruptKept ==
  ASSUME \A r, s \in Runs : r = s, TypeInv, KnowsCorrupt, [Next]_vars
  PROVE  KnowsCorrupt'
<1>1. ASSUME NEW r \in Runs, run'[r].pc # "purging" PROVE KnowsCorrupt'
  BY <1>1 DEF KnowsCorrupt, At
<1>2. ASSUME NEW r \in Runs, ValidateComponents(r) PROVE KnowsCorrupt'
  <2>1. disk' = disk /\ run'[r].invalid = {c \in Comps : Corrupt(disk[c])}
    BY <1>2, ValidateTyped DEF ValidateComponents
  <2>2. QED
    BY <2>1 DEF KnowsCorrupt
<1>3. ASSUME NEW r \in Runs, NEW c \in Comps, Purge(r, c) PROVE KnowsCorrupt'
  <2>1. /\ disk' = [disk EXCEPT ![c] = NoComponent] /\ disk \in [Comps -> Directories]
        /\ run'[r].invalid = run[r].invalid \ {c} /\ At(r, "purging")
    BY <1>3, PurgeTyped DEF Purge, TypeInv, TypeOK
  <2>2. ~Corrupt(NoComponent)
    BY DEF Corrupt, NoComponent
  <2>3. ASSUME NEW e \in Comps, Corrupt(disk'[e]) PROVE e \in run'[r].invalid
    BY <2>1, <2>2, <2>3 DEF KnowsCorrupt
  <2>4. QED
    BY <2>3 DEF KnowsCorrupt
<1>4. ASSUME NEW r \in Runs, StepOf(r) PROVE KnowsCorrupt'
  BY <1>1, <1>2, <1>3, <1>4, PhasesOfCleanUp
<1>5. CASE (\E c \in Comps : RunDoctor(c) \/ WriteDropin(c)) \/ Commit \/ UNCHANGED vars
  BY <1>5, EnvironmentTyped, EnvironmentCorruptsNone DEF KnowsCorrupt, At
<1>6. QED
  BY <1>4, <1>5 DEF Next, StepOf

(* cleanup_components, for every host and source with one process at work: *)
(* it looks at every component, so when it returns none is corrupt.        *)
THEOREM PurgedAll ==
  ASSUME \A r, s \in Runs : r = s
  PROVE  Spec => NothingCorruptLeft
<1>1. Init => KnowsCorrupt
  BY DEF Init, KnowsCorrupt, At, Resting
<1>2. TypeInv /\ KnowsCorrupt /\ [Next]_vars => KnowsCorrupt'
  BY KnowsCorruptKept
<1>3. TypeInv /\ KnowsCorrupt /\ [Next]_vars
        => [\A r \in Runs : Return(r) => \A c \in Comps : ~Corrupt(disk[c])]_vars
  BY DEF Return, KnowsCorrupt
<1>4. QED
  BY <1>1, <1>2, <1>3, TypeInvHolds, PTL DEF Spec, NothingCorruptLeft

-----------------------------------------------------------------------------
(* What a step of a process does to its plan and to the disk               *)

(* It gets a plan; it goes on without a call on a file; it makes one; it   *)
(* ends without a plan, its last write perhaps half done.                  *)
GetsPlan(r) ==
    /\ Plan(r) /\ PlanOf(r).ok /\ run'[r].steps = PlanOf(r).steps
    /\ run'[r].next = 1 /\ run'[r].call = 1 /\ run'[r].manifest = run[r].manifest
    /\ disk' = disk /\ cache' = cache

KeepsPlan(r) ==
    /\ run'[r].steps = run[r].steps /\ run'[r].manifest = run[r].manifest
    /\ cache' = cache

GoesOn(r) ==
    /\ KeepsPlan(r) /\ disk' = disk
    /\ \/ run'[r].next = run[r].next /\ run'[r].call = run[r].call
       \/ Executing(r) /\ Proceed(r) /\ NextCall(r).op \in ServiceCalls

MakesCall(r) ==
    LET k == NextCall(r) IN
    /\ KeepsPlan(r) /\ Executing(r) /\ Proceed(r)
    /\ k.op \notin ServiceCalls /\ Applies(disk[k.comp], k)
    /\ disk' = [disk EXCEPT ![k.comp] = After(disk[k.comp], k)]

TearsWrite(r) ==
    LET k == NextCall(r) IN
    /\ Executing(r) /\ k.op \notin ServiceCalls
    /\ disk' = [disk EXCEPT ![k.comp] = Torn(disk[k.comp], k)]

EndsPlan(r) ==
    /\ run'[r].steps = <<>> /\ run'[r].manifest \in {0, run[r].manifest, remote}
    /\ disk' = disk \/ TearsWrite(r) \/ \E c \in Comps : Purge(r, c)

LEMMA ProceedKeeps ==
  ASSUME TypeInv, NEW r \in Runs, Proceed(r), cache' = cache
  PROVE  KeepsPlan(r) /\ \A s \in Runs \ {r} : run'[s] = run[s]
<1>1. run \in [Runs -> RunRecords] /\ run[r] \in RunRecords
  BY DEF TypeInv, TypeOK
<1>2. run'[r].steps = run[r].steps /\ run'[r].manifest = run[r].manifest
  BY <1>1 DEF Proceed, RunRecords
<1>3. \A s \in Runs \ {r} : run'[s] = run[s]
  BY <1>1 DEF Proceed
<1>4. QED
  BY <1>2, <1>3 DEF KeepsPlan

LEMMA StoppedEnds ==
  ASSUME TypeInv, NEW r \in Runs, NEW outcome, Stopped(r, outcome)
  PROVE  /\ run'[r].steps = <<>> /\ run'[r].manifest = run[r].manifest
         /\ \A s \in Runs \ {r} : run'[s] = run[s]
<1>1. run \in [Runs -> RunRecords] /\ run[r] \in RunRecords
  BY DEF TypeInv, TypeOK
<1>2. run'[r].steps = <<>> /\ run'[r].manifest = run[r].manifest
  BY <1>1 DEF Stopped, RunRecords
<1>3. \A s \in Runs \ {r} : run'[s] = run[s]
  BY <1>1 DEF Stopped
<1>4. QED
  BY <1>2, <1>3

LEMMA ReturnedEnds ==
  ASSUME TypeInv, NEW r \in Runs, run[r].steps = <<>>
  PROVE  Returned(r).steps = <<>> /\ Returned(r).manifest \in {0, run[r].manifest}
<1>1. run[r] \in RunRecords
  BY DEF TypeInv, TypeOK
<1>2. QED
  BY <1>1 DEF Returned, Resting, RunRecords

LEMMA ExecutionCases ==
  ASSUME TypeInv, NEW r \in Runs,
         FileStep(r) \/ ReloadUnits(r) \/ ServiceStep(r) \/ Completed(r) \/ Fault(r)
  PROVE  /\ \A s \in Runs \ {r} : run'[s] = run[s]
         /\ GoesOn(r) \/ MakesCall(r) \/ EndsPlan(r)
<1>1. CASE FileStep(r)
  <2>1. CASE Applies(disk[NextCall(r).comp], NextCall(r))
    BY <1>1, <2>1, ProceedKeeps DEF FileStep, MakesCall
  <2>2. CASE ~Applies(disk[NextCall(r).comp], NextCall(r))
    BY <1>1, <2>2, StoppedEnds DEF FileStep, EndsPlan
  <2>3. QED
    BY <2>1, <2>2
<1>2. CASE ReloadUnits(r)
  BY <1>2, ProceedKeeps DEF ReloadUnits, GoesOn, ServiceCalls
<1>3. CASE ServiceStep(r)
  <2>1. CASE Proceed(r)
    BY <1>3, <2>1, ProceedKeeps DEF ServiceStep, GoesOn
  <2>2. CASE \E outcome \in Outcomes : Stopped(r, outcome)
    BY <1>3, <2>2, StoppedEnds DEF ServiceStep, EndsPlan
  <2>3. QED
    BY <1>3, <2>1, <2>2 DEF ServiceStep, Outcomes
<1>4. CASE Completed(r)
  BY <1>4, StoppedEnds DEF Completed, EndsPlan
<1>5. CASE Fault(r)
  <2>1. disk' = disk \/ TearsWrite(r)
    BY <1>5 DEF Fault, TearsWrite
  <2>2. QED
    BY <1>5, <2>1, StoppedEnds DEF Fault, EndsPlan
<1>6. QED
  BY <1>1, <1>2, <1>3, <1>4, <1>5

LEMMA StepCases ==
  ASSUME TypeInv, NEW r \in Runs, StepOf(r)
  PROVE  /\ \A s \in Runs \ {r} : run'[s] = run[s]
         /\ remote' = remote
         /\ GetsPlan(r) \/ GoesOn(r) \/ MakesCall(r) \/ EndsPlan(r)
<1>1. run \in [Runs -> RunRecords] /\ run[r] \in RunRecords
  BY DEF TypeInv, TypeOK
<1>2. remote' = remote
  BY DEF StepOf, Setup, Plan, BeginExecute, Execute, FileStep, ReloadUnits, ServiceStep,
         Completed, Unlock, CleanUp, ValidateComponents, Purge, Return, RollbackSource, Fault, Crash
<1>3. CASE Setup(r)
  <2> DEFINE rec == [Resting("none") EXCEPT !.pc = "start", !.manifest = remote, !.before = cache]
  <2>1. run'[r] = rec /\ disk' = disk /\ \A s \in Runs \ {r} : run'[s] = run[s]
    BY <1>1, <1>3 DEF Setup
  <2>2. rec.steps = <<>> /\ rec.manifest = remote
    BY DEF Resting
  <2>. HIDE DEF rec
  <2>3. QED
    BY <1>2, <2>1, <2>2 DEF EndsPlan
<1>4. CASE Plan(r)
  <2>1. CASE PlanOf(r).ok /\ run'[r].steps = PlanOf(r).steps /\ run'[r].pc = "planned"
             /\ run'[r].next = 1 /\ run'[r].call = 1 /\ run'[r].manifest = run[r].manifest
    BY <1>2, <1>4, <2>1, PlanTyped DEF GetsPlan, Plan
  <2>2. CASE ~PlanOf(r).ok
    <3> DEFINE rec == [Resting("planFailed") EXCEPT !.rolledBack = run[r].rolledBack]
    <3>1. run'[r] = rec /\ disk' = disk /\ \A s \in Runs \ {r} : run'[s] = run[s]
      BY <1>1, <1>4, <2>2 DEF Plan, PlanOf
    <3>2. rec.steps = <<>> /\ rec.manifest = 0
      BY DEF Resting
    <3>. HIDE DEF rec
    <3>3. QED
      BY <1>2, <3>1, <3>2 DEF EndsPlan
  <2>3. CASE PlanOf(r).ok /\ run'[r].steps = <<>> /\ run'[r].pc = "idle"
    <3>1. run'[r].pc = "planned"
      BY <1>1, <1>4, <2>3 DEF Plan, PlanOf, RunRecords
    <3>2. QED
      BY <2>3, <3>1
  <2>4. QED
    BY <1>4, <2>1, <2>2, <2>3, PlanTyped
<1>5. CASE BeginExecute(r)
  <2>1. /\ run'[r].steps = run[r].steps /\ run'[r].manifest = run[r].manifest
        /\ run'[r].next = run[r].next /\ run'[r].call = run[r].call
        /\ \A s \in Runs \ {r} : run'[s] = run[s]
    BY <1>1, <1>5 DEF BeginExecute, RunRecords
  <2>2. QED
    BY <1>2, <1>5, <2>1 DEF GoesOn, KeepsPlan, BeginExecute
<1>6. CASE FileStep(r) \/ ReloadUnits(r) \/ ServiceStep(r) \/ Completed(r) \/ Fault(r)
  BY <1>2, <1>6, ExecutionCases
<1>7. CASE Unlock(r)
  <2>1. run[r].steps = <<>>
    BY <1>7, WithoutSteps DEF Unlock, At
  <2>2. CASE CleanupComponents
    BY <1>1, <1>2, <1>7, <2>1, <2>2 DEF Unlock, EndsPlan, RunRecords
  <2>3. CASE ~CleanupComponents
    BY <1>1, <1>2, <1>7, <2>1, <2>3, ReturnedEnds DEF Unlock, EndsPlan
  <2>4. QED
    BY <2>2, <2>3
<1>8. CASE ValidateComponents(r)
  <2>1. run[r].steps = <<>>
    BY <1>8, WithoutSteps DEF ValidateComponents, At
  <2>2. QED
    BY <1>1, <1>2, <1>8, <2>1 DEF ValidateComponents, EndsPlan, RunRecords
<1>9. CASE \E c \in Comps : Purge(r, c)
  <2>1. run[r].steps = <<>>
    BY <1>9, WithoutSteps DEF Purge, At
  <2>2. run'[r].steps = <<>> /\ run'[r].manifest = run[r].manifest
        /\ \A s \in Runs \ {r} : run'[s] = run[s]
    BY <1>1, <1>9, <2>1 DEF Purge, RunRecords
  <2>3. QED
    BY <1>2, <1>9, <2>2 DEF EndsPlan
<1>10. CASE Return(r)
  <2>1. run[r].steps = <<>>
    BY <1>10, WithoutSteps DEF Return, At
  <2>2. QED
    BY <1>1, <1>2, <1>10, <2>1, ReturnedEnds DEF Return, EndsPlan
<1>11. CASE RollbackSource(r)
  <2>1. run[r].steps = <<>>
    BY <1>11, WithoutSteps DEF RollbackSource, At
  <2>2. run'[r].steps = <<>> /\ run'[r].manifest \in {0, run[r].manifest}
        /\ \A s \in Runs \ {r} : run'[s] = run[s]
    BY <1>1, <1>11, <2>1 DEF RollbackSource, Resting, RunRecords
  <2>3. QED
    BY <1>2, <1>11, <2>2 DEF EndsPlan, RollbackSource
<1>12. CASE Crash(r)
  <2>1. run'[r].steps = <<>> /\ run'[r].manifest = 0 /\ \A s \in Runs \ {r} : run'[s] = run[s]
    BY <1>1, <1>12 DEF Crash, Resting
  <2>2. disk' = disk \/ TearsWrite(r)
    BY <1>12 DEF Crash, TearsWrite
  <2>3. QED
    BY <1>2, <2>1, <2>2 DEF EndsPlan
<1>13. QED
  BY <1>3, <1>4, <1>5, <1>6, <1>7, <1>8, <1>9, <1>10, <1>11, <1>12 DEF StepOf, Execute, CleanUp

(* What a call does to the component it is for.                            *)
LEMMA CallEffects ==
  ASSUME TypeInv, NEW r \in Runs, Executing(r), NextCall(r).op \notin ServiceCalls
  PROVE  LET s == NextStep(r)
             k == NextCall(r)
             d == disk[s.comp]
         IN
         /\ s.list = "resource" /\ s.comp \in Comps /\ k.comp = s.comp /\ d \in Directories
         /\ run[r].next \in DOMAIN run[r].steps
         /\ run[r].call \in 1..Len(StepCalls(s))
         /\ \/ /\ ComponentStep(s) /\ k.op \in ComponentOps /\ run[r].call \in 1..4
               /\ k.op = FileOps(s.kind, s.todo)[run[r].call]
               /\ After(d, k).at = d.at /\ Torn(d, k).at = d.at
            \/ /\ PathStep(s) /\ k.path = s.path /\ k.content = s.content /\ Len(StepCalls(s)) = 1
               /\ k.op = IF s.todo = "Remove" THEN "remove"
                         ELSE IF s.kind = "Directory" /\ s.todo = "Install"
                              THEN "mkdir" ELSE "write"
               /\ After(d, k) = [d EXCEPT !.at[s.path] =
                                    IF k.op = "remove" THEN Absent
                                    ELSE IF k.op = "mkdir" THEN Blank ELSE s.content]
               /\ \/ Torn(d, k) = d
                  \/ /\ k.op = "write" /\ Applies(d, k)
                     /\ Torn(d, k) = [d EXCEPT !.at[s.path] = Blank]
<1> DEFINE s == NextStep(r)
           k == NextCall(r)
           d == disk[s.comp]
           i == run[r].call
<1>1. /\ Prescribed(s) /\ run[r].next \in DOMAIN run[r].steps
      /\ i \in DOMAIN StepCalls(s) /\ i \in 1..Len(StepCalls(s))
      /\ k = StepCalls(s)[i]
      /\ k.op \notin ServiceCalls
  BY CallOfRun
<1>2. disk \in [Comps -> Directories]
  BY DEF TypeInv, TypeOK
<1>. HIDE DEF s, k, i
<1>3. /\ k.comp = s.comp /\ k.path = s.path
      /\ \/ s = HostReload /\ k.op = "Reload"
         \/ JobStep(s) /\ k.op = s.todo
         \/ ComponentStep(s) /\ k.op \in ComponentOps
            /\ k.op = FileOps(s.kind, s.todo)[i] /\ i \in 1..4
         \/ /\ PathStep(s) /\ k.content = s.content /\ Len(StepCalls(s)) = 1
            /\ k.op = IF s.todo = "Remove" THEN "remove"
                      ELSE IF s.kind = "Directory" /\ s.todo = "Install"
                           THEN "mkdir" ELSE "write"
  BY <1>1, CallsOfSteps
<1>4. ASSUME ComponentStep(s), k.op \in ComponentOps, s.comp \in Comps
      PROVE  After(d, k).at = d.at /\ Torn(d, k).at = d.at
  <2>1. d \in Directories
    BY <1>2, <1>4
  <2>. HIDE DEF d
  <2>2. QED
    BY <1>4, <2>1 DEF ComponentOps, After, Torn, Directories
<1>5. ASSUME PathStep(s), k.op \in {"remove", "mkdir", "write"}, k.path = s.path,
             k.content = s.content
      PROVE  /\ After(d, k) = [d EXCEPT !.at[s.path] =
                                  IF k.op = "remove" THEN Absent
                                  ELSE IF k.op = "mkdir" THEN Blank ELSE s.content]
             /\ \/ Torn(d, k) = d
                \/ /\ k.op = "write" /\ Applies(d, k)
                   /\ Torn(d, k) = [d EXCEPT !.at[s.path] = Blank]
  <2>. HIDE DEF d
  <2>1. After(d, k) = [d EXCEPT !.at[s.path] =
                          IF k.op = "remove" THEN Absent
                          ELSE IF k.op = "mkdir" THEN Blank ELSE s.content]
    BY <1>5 DEF After
  <2>2. \/ Torn(d, k) = d
        \/ /\ k.op = "write" /\ Applies(d, k)
           /\ Torn(d, k) = [d EXCEPT !.at[s.path] = Blank]
    BY <1>5 DEF Torn
  <2>3. QED
    BY <2>1, <2>2
<1>6. CASE ComponentStep(s) /\ k.op \in ComponentOps
           /\ k.op = FileOps(s.kind, s.todo)[i] /\ i \in 1..4
  <2>1. s.comp \in Comps /\ s.list = "resource"
    BY <1>6 DEF ComponentStep
  <2>2. QED
    BY <1>1, <1>2, <1>3, <1>4, <1>6, <2>1 DEF s, k, i, d
<1>7. CASE /\ PathStep(s) /\ k.content = s.content /\ Len(StepCalls(s)) = 1
           /\ k.op = IF s.todo = "Remove" THEN "remove"
                     ELSE IF s.kind = "Directory" /\ s.todo = "Install"
                          THEN "mkdir" ELSE "write"
  <2>1. s.comp \in Comps /\ s.list = "resource"
    BY <1>7 DEF PathStep
  <2>2. k.op \in {"remove", "mkdir", "write"}
    BY <1>7
  <2>3. QED
    BY <1>1, <1>2, <1>3, <1>5, <1>7, <2>1, <2>2 DEF s, k, i, d
<1>8. QED
  BY <1>1, <1>3, <1>6, <1>7 DEF ServiceCalls, JobStep

-----------------------------------------------------------------------------
(* The user's drop-ins *)

(* A component the user writes drop-ins for stays assigned, if only one     *)
(* process is at work from one revision to the next ones.                  *)
Unwavering ==
    \A c \in UserDropins, v, w \in Revisions :
        c \in AssignedIn[v] /\ (v <= w \/ \E r, s \in Runs : r # s) => c \in AssignedIn[w]

NeverPurges == \A r \in Runs : run[r].pc \notin {"validating", "purging"}

DropinsOfUser ==
    \A c \in Comps, p \in Dropins :
        disk[c].at[p] # Absent => c \in UserDropins /\ disk[c].at[p] = Blank

UserStays ==
    \A c \in UserDropins : disk[c].data =>
        /\ c \in AssignedIn[remote]
        /\ \A r \in Runs : run[r].manifest # 0 => c \in AssignedIn[run[r].manifest]

ManifestSynced == \A r \in Runs : run[r].manifest <= remote

(* No plan unassigns such a component or removes a drop-in of it.          *)
SparesDropins(s, v) ==
    s.list = "resource" /\ s.comp \in UserDropins => s.comp \in AssignedIn[v] /\ s.path \notin Dropins

PlansSpareDropins ==
    \A r \in Runs : \A k \in DOMAIN run[r].steps : SparesDropins(run[r].steps[k], run[r].manifest)

DropinInv ==
    TypeInv /\ DropinsOfUser /\ UserStays /\ ManifestSynced /\ PlansSpareDropins

LEMMA PlanSparesDropins ==
  ASSUME DropinInv, NEW r \in Runs, At(r, "start"), NEW k \in DOMAIN PlanOf(r).steps
  PROVE  SparesDropins(PlanOf(r).steps[k], run[r].manifest)
<1> DEFINE s == PlanOf(r).steps[k]
           v == run[r].manifest
<1>0. TypeInv
  BY DEF DropinInv
<1>1. /\ cache \in Revisions /\ v \in Revisions
      /\ \/ s = HostReload
         \/ \E c \in Comps : s \in ChangesTo(c, disk[c], FilesIn[cache][c], c \in AssignedIn[v])
  BY <1>0, PlanOfRun
<1>2. v # 0
  BY <1>1 DEF Revisions
<1>3. CASE s = HostReload
  <2>1. s.comp = 0 /\ 0 \notin UserDropins
    BY <1>3, MateriaAssumption DEF HostReload
  <2>2. QED
    BY <2>1 DEF SparesDropins
<1>4. ASSUME NEW c \in Comps, s \in ChangesTo(c, disk[c], FilesIn[cache][c], c \in AssignedIn[v]),
             s.list = "resource", s.comp \in UserDropins
      PROVE  s.comp \in AssignedIn[v] /\ s.path \notin Dropins
  <2> DEFINE F == FilesIn[cache][c]
  <2>1. F \in [Paths -> Nat] /\ \A p \in Dropins : F[p] = Absent
    BY <1>1, MateriaAssumption DEF Dropins
  <2>2. s.comp = c
    BY <1>4, <2>1, ChangesAreEntries
  <2>3. disk[c].data \in BOOLEAN
    BY <1>0 DEF TypeInv, TypeOK, Directories
  <2>4. s \notin Jobs(c)
    BY <1>4, JobFields
  <2>5. disk[c].data => c \in AssignedIn[v]
    BY <1>2, <1>4, <2>2 DEF DropinInv, UserStays
  <2>6. c \in AssignedIn[v] /\ s \in Updates(c, F) \cup Installs(c, F)
    BY <1>4, <2>3, <2>4, <2>5 DEF ChangesTo
  <2>7. 0 \notin Dropins
    BY RepositoryAssumption DEF Dropins
  <2>. HIDE DEF F, s
  <2>8. s \in Updates(c, F) => s.path \notin Dropins
    <3>1. ASSUME s = OnComponent("Update", c) PROVE s.path \notin Dropins
      BY <2>7, <3>1, ComponentChange DEF FileTodos
    <3>2. ASSUME NEW todo \in {"Install", "Update", "Remove"}, NEW p \in Paths, NEW content \in Nat,
                 p \notin Dropins, s = OnResource(todo, c, p, content)
          PROVE  s.path \notin Dropins
      BY <3>2, ResourceChange DEF Todos
    <3>3. Absent \in Nat
      BY DEF Absent
    <3>4. QED
      BY <2>1, <3>1, <3>2, <3>3 DEF Updates
  <2>9. s \in Installs(c, F) => s.path \notin Dropins
    <3>1. ASSUME s = OnComponent("Install", c) PROVE s.path \notin Dropins
      BY <2>7, <3>1, ComponentChange DEF FileTodos
    <3>2. ASSUME NEW p \in Paths, p \notin Dropins, s = OnResource("Install", c, p, F[p])
          PROVE  s.path \notin Dropins
      BY <2>1, <3>2, ResourceChange DEF Todos
    <3>3. QED
      BY <2>1, <3>1, <3>2 DEF Installs
  <2>10. QED
    BY <2>2, <2>6, <2>8, <2>9
<1>5. QED
  BY <1>1, <1>3, <1>4 DEF SparesDropins

(* The only calls on a drop-in are those that remove one.                  *)
LEMMA CallsSpareDropins ==
  ASSUME DropinInv, NEW r \in Runs, Executing(r), NextCall(r).op \notin ServiceCalls,
         NEW e \in {After(disk[NextCall(r).comp], NextCall(r)), Torn(disk[NextCall(r).comp], NextCall(r))},
         NEW p \in Dropins
  PROVE  LET d == disk[NextCall(r).comp] IN
         \/ e.at[p] = d.at[p]
         \/ e.at[p] = Absent /\ NextCall(r).comp \notin UserDropins
<1> DEFINE s == NextStep(r)
           k == NextCall(r)
           d == disk[k.comp]
<1>1. /\ s.list = "resource" /\ s.comp \in Comps /\ k.comp = s.comp /\ d \in Directories
      /\ run[r].next \in DOMAIN run[r].steps
      /\ \/ ComponentStep(s) /\ After(d, k).at = d.at /\ Torn(d, k).at = d.at
         \/ /\ PathStep(s) /\ k.path = s.path /\ k.content = s.content
            /\ k.op = IF s.todo = "Remove" THEN "remove"
                      ELSE IF s.kind = "Directory" /\ s.todo = "Install"
                           THEN "mkdir" ELSE "write"
            /\ After(d, k) = [d EXCEPT !.at[s.path] =
                                 IF k.op = "remove" THEN Absent
                                 ELSE IF k.op = "mkdir" THEN Blank ELSE s.content]
            /\ \/ Torn(d, k) = d
               \/ /\ k.op = "write" /\ Applies(d, k)
                  /\ Torn(d, k) = [d EXCEPT !.at[s.path] = Blank]
  BY CallEffects DEF DropinInv
<1>2. SparesDropins(s, run[r].manifest)
  BY <1>1 DEF DropinInv, PlansSpareDropins, NextStep
<1>3. p \in Paths
  BY DEF Dropins
<1>. HIDE DEF s, k, d
<1>4. CASE ComponentStep(s) /\ After(d, k).at = d.at /\ Torn(d, k).at = d.at
  BY <1>4 DEF k, d
<1>5. CASE /\ PathStep(s) /\ k.path = s.path /\ k.content = s.content
           /\ k.op = IF s.todo = "Remove" THEN "remove"
                     ELSE IF s.kind = "Directory" /\ s.todo = "Install"
                          THEN "mkdir" ELSE "write"
           /\ After(d, k) = [d EXCEPT !.at[s.path] =
                                IF k.op = "remove" THEN Absent
                                ELSE IF k.op = "mkdir" THEN Blank ELSE s.content]
           /\ \/ Torn(d, k) = d
              \/ /\ k.op = "write" /\ Applies(d, k)
                 /\ Torn(d, k) = [d EXCEPT !.at[s.path] = Blank]
  <2>1. e = After(d, k) \/ e = Torn(d, k)
    BY DEF d, k
  <2>2. CASE p # s.path
    BY <1>1, <1>3, <1>5, <2>1, <2>2 DEF Directories, d, k
  <2>3. CASE p = s.path
    <3>1. s.todo = "Remove"
      <4>1. ASSUME NEW v \in Revisions PROVE FilesIn[v][s.comp][p] = Absent
        BY <1>1, <1>3, MateriaAssumption DEF Dropins
      <4>2. QED
        BY <1>5, <2>3, <4>1 DEF PathStep
    <3>2. k.op = "remove" /\ Torn(d, k) = d
      BY <1>5, <3>1
    <3>3. s.comp \notin UserDropins
      BY <1>1, <1>2, <2>3 DEF SparesDropins
    <3>4. e.at[p] = d.at[p] \/ e.at[p] = Absent
      BY <1>1, <1>3, <1>5, <2>1, <2>3, <3>2 DEF Directories
    <3>5. QED
      BY <1>1, <3>3, <3>4 DEF d, k
  <2>4. QED
    BY <2>2, <2>3
<1>6. QED
  BY <1>1, <1>4, <1>5

(* A component arrives only because the process assigns it.                *)
LEMMA CallsOnlyAssigned ==
  ASSUME DropinInv, NEW r \in Runs, Executing(r), NextCall(r).op \notin ServiceCalls,
         NextCall(r).comp \in UserDropins
  PROVE  NextCall(r).comp \in AssignedIn[run[r].manifest]
<1>1. /\ NextStep(r).list = "resource" /\ NextCall(r).comp = NextStep(r).comp
      /\ run[r].next \in DOMAIN run[r].steps
  BY CallEffects DEF DropinInv
<1>2. QED
  BY <1>1 DEF DropinInv, PlansSpareDropins, SparesDropins, NextStep

LEMMA DropinsStepByRun ==
  ASSUME Unwavering, DropinInv, NEW r \in Runs, StepOf(r)
  PROVE  /\ DropinInv'
         /\ (\A c \in Comps : ~Purge(r, c)) =>
               \A c \in Comps, p \in Dropins :
                  disk[c].at[p] # Absent => disk'[c].at[p] = disk[c].at[p]
<1>1. /\ \A s \in Runs \ {r} : run'[s] = run[s]
      /\ remote' = remote
      /\ GetsPlan(r) \/ GoesOn(r) \/ MakesCall(r) \/ EndsPlan(r)
  BY StepCases DEF DropinInv
<1>2. TypeInv' /\ TypeInv
  BY TypesKept DEF DropinInv, StepOf, Next
<1>3. /\ disk \in [Comps -> Directories] /\ remote \in Revisions
      /\ \A t \in Runs : run[t].manifest \in Revisions \cup {0}
  BY <1>2 DEF TypeInv, TypeOK, RunRecords
<1>5. \A t \in Runs : run'[t].manifest = run[t].manifest \/ run'[t].manifest \in {0, remote}
  BY <1>1 DEF GetsPlan, GoesOn, KeepsPlan, MakesCall, EndsPlan
<1>6. ManifestSynced'
  BY <1>1, <1>3, <1>5 DEF DropinInv, ManifestSynced, Revisions
<1>7. PlansSpareDropins'
  <2>1. CASE GetsPlan(r)
    <3>1. At(r, "start")
      BY <2>1 DEF GetsPlan, Plan
    <3>2. \A k \in DOMAIN run'[r].steps : SparesDropins(run'[r].steps[k], run'[r].manifest)
      BY <2>1, <3>1, PlanSparesDropins DEF GetsPlan
    <3>3. QED
      BY <1>1, <3>2 DEF DropinInv, PlansSpareDropins
  <2>2. CASE GoesOn(r) \/ MakesCall(r)
    BY <1>1, <2>2 DEF DropinInv, PlansSpareDropins, GoesOn, MakesCall, KeepsPlan
  <2>3. CASE EndsPlan(r)
    <3>1. DOMAIN run'[r].steps = {}
      BY <2>3 DEF EndsPlan
    <3>2. QED
      BY <1>1, <3>1 DEF DropinInv, PlansSpareDropins
  <2>4. QED
    BY <1>1, <2>1, <2>2, <2>3
<1>9. \/ disk' = disk
      \/ \E b \in Comps : Purge(r, b) /\ disk' = [disk EXCEPT ![b] = NoComponent]
      \/ LET k == NextCall(r) IN
         /\ Executing(r) /\ k.op \notin ServiceCalls
         /\ \/ /\ disk' = [disk EXCEPT ![k.comp] = After(disk[k.comp], k)]
               /\ run'[r].manifest = run[r].manifest
            \/ disk' = [disk EXCEPT ![k.comp] = Torn(disk[k.comp], k)]
  BY <1>1 DEF GetsPlan, GoesOn, MakesCall, KeepsPlan, EndsPlan, TearsWrite, Purge
<1>10. ASSUME NEW c \in Comps, NEW p \in Dropins
       PROVE  /\ disk'[c].at[p] = disk[c].at[p] \/ disk'[c].at[p] = Absent
              /\ (\A b \in Comps : ~Purge(r, b)) =>
                    (disk[c].at[p] # Absent => disk'[c].at[p] = disk[c].at[p])
  <2>1. CASE disk' = disk
    BY <2>1
  <2>4. CASE \E b \in Comps : Purge(r, b) /\ disk' = [disk EXCEPT ![b] = NoComponent]
    <3>1. NoComponent.at[p] = Absent
      BY DEF NoComponent, Dropins
    <3>2. QED
      BY <1>3, <2>4, <3>1
  <2>2. CASE /\ disk' # disk
             /\ ~ \E b \in Comps : Purge(r, b) /\ disk' = [disk EXCEPT ![b] = NoComponent]
    <3> DEFINE k == NextCall(r)
    <3>1. /\ Executing(r) /\ k.op \notin ServiceCalls
          /\ \E e \in {After(disk[k.comp], k), Torn(disk[k.comp], k)} :
                disk' = [disk EXCEPT ![k.comp] = e]
      BY <1>9, <2>2
    <3>2. PICK e \in {After(disk[k.comp], k), Torn(disk[k.comp], k)} :
             disk' = [disk EXCEPT ![k.comp] = e]
      BY <3>1
    <3>3. \/ e.at[p] = disk[k.comp].at[p]
          \/ e.at[p] = Absent /\ k.comp \notin UserDropins
      BY <3>1, CallsSpareDropins
    <3>4. disk[c].at[p] # Absent => c \in UserDropins
      BY DEF DropinInv, DropinsOfUser
    <3>. HIDE DEF k
    <3>5. QED
      BY <1>3, <3>2, <3>3, <3>4
  <2>3. QED
    BY <2>1, <2>2, <2>4
<1>11. DropinsOfUser'
  BY <1>10 DEF DropinInv, DropinsOfUser
<1>12. UserStays'
  <2>1. SUFFICES ASSUME NEW c \in UserDropins, disk'[c].data
                 PROVE  /\ c \in AssignedIn[remote]
                        /\ \A t \in Runs : run'[t].manifest # 0 => c \in AssignedIn[run'[t].manifest]
    BY <1>1 DEF UserStays
  <2>2. CASE disk[c].data
    BY <1>5, <2>2 DEF DropinInv, UserStays
  <2>3. CASE ~disk[c].data
    <3> DEFINE k == NextCall(r)
    <3>1. c \in Comps
      BY MateriaAssumption
    <3>2. /\ disk' # disk
          /\ ~ \E b \in Comps : Purge(r, b) /\ disk' = [disk EXCEPT ![b] = NoComponent]
      <4>1. ~NoComponent.data
        BY DEF NoComponent
      <4>2. QED
        BY <1>3, <2>1, <2>3, <3>1, <4>1
    <3>3. /\ Executing(r) /\ k.op \notin ServiceCalls
          /\ \/ /\ disk' = [disk EXCEPT ![k.comp] = After(disk[k.comp], k)]
                /\ run'[r].manifest = run[r].manifest
             \/ disk' = [disk EXCEPT ![k.comp] = Torn(disk[k.comp], k)]
      BY <1>9, <3>2
    <3>4. Torn(disk[k.comp], k).data = disk[k.comp].data
      <4>1. k.comp \in Comps
        BY <1>2, <3>3, CallOfRun
      <4>2. disk[k.comp] \in Directories
        BY <1>3, <4>1
      <4>3. QED
        BY <4>2 DEF Torn, Directories
    <3>5. k.comp = c
      BY <1>3, <2>1, <2>3, <3>1, <3>3
    <3>6. run'[r].manifest = run[r].manifest
      BY <1>3, <2>1, <2>3, <3>1, <3>3, <3>4, <3>5
    <3>7. c \in AssignedIn[run[r].manifest]
      BY <3>3, <3>5, CallsOnlyAssigned
    <3>8. run[r].manifest \in Revisions /\ run[r].manifest <= remote
      <4>1. run[r].manifest # 0
        BY <1>2, <3>3 DEF TypeInv, TypeOK, Poised, Executing, At
      <4>2. QED
        BY <1>3, <4>1 DEF DropinInv, ManifestSynced
    <3>9. c \in AssignedIn[remote]
      BY <1>3, <3>7, <3>8 DEF Unwavering
    <3>10. ASSUME NEW t \in Runs, t # r, run'[t].manifest # 0
           PROVE  c \in AssignedIn[run'[t].manifest]
      <4>1. run'[t].manifest \in Revisions
        BY <1>1, <1>3, <3>10
      <4>2. QED
        BY <3>7, <3>8, <3>10, <4>1 DEF Unwavering
    <3>11. QED
      BY <3>6, <3>7, <3>9, <3>10
  <2>4. QED
    BY <2>2, <2>3
<1>13. QED
  BY <1>2, <1>6, <1>7, <1>10, <1>11, <1>12 DEF DropinInv

LEMMA DropinsStepByEnvironment ==
  ASSUME Unwavering, DropinInv,
         (\E c \in Comps : RunDoctor(c) \/ WriteDropin(c)) \/ Commit \/ UNCHANGED vars
  PROVE  /\ DropinInv'
         /\ ~Doctor => \A c \in Comps, p \in Dropins :
               disk[c].at[p] # Absent => disk'[c].at[p] = disk[c].at[p]
<1>1. /\ TypeInv' /\ TypeInv /\ run' = run /\ disk \in [Comps -> Directories]
      /\ remote \in Revisions
      /\ \A t \in Runs : run[t].manifest \in Revisions \cup {0}
  BY EnvironmentTyped DEF DropinInv, TypeInv, TypeOK, RunRecords
<1>2. PlansSpareDropins'
  BY <1>1 DEF DropinInv, PlansSpareDropins
<1>3. CASE \E c \in Comps : WriteDropin(c)
  <2>1. PICK c \in Comps : WriteDropin(c)
    BY <1>3
  <2>2. PICK p \in Paths : /\ KindOf[p] = "Dropin"
                           /\ disk' = [disk EXCEPT ![c] = WithDropin(disk[c], p)]
    BY <2>1 DEF WriteDropin
  <2>3. /\ c \in UserDropins /\ remote' = remote
        /\ WithDropin(disk[c], p).data = disk[c].data
        /\ \A q \in Paths : WithDropin(disk[c], p).at[q] =
              IF q \in {p, Within[p]} THEN Blank ELSE disk[c].at[q]
    BY <1>1, <2>1 DEF WriteDropin, WithDropin, Directories
  <2>4. \A q \in Dropins : q \in Paths
    BY DEF Dropins
  <2>5. ASSUME NEW b \in Comps, NEW q \in Dropins
        PROVE  /\ disk'[b].at[q] # Absent => b \in UserDropins /\ disk'[b].at[q] = Blank
               /\ disk[b].at[q] # Absent => disk'[b].at[q] = disk[b].at[q]
    BY <1>1, <2>2, <2>3, <2>4 DEF DropinInv, DropinsOfUser
  <2>6. \A b \in Comps : disk'[b].data = disk[b].data
    BY <1>1, <2>2, <2>3
  <2>7. UserStays' /\ ManifestSynced'
    BY <1>1, <2>3, <2>6, MateriaAssumption DEF DropinInv, UserStays, ManifestSynced
  <2>8. QED
    BY <1>1, <1>2, <2>5, <2>7 DEF DropinInv, DropinsOfUser
<1>4. CASE Commit
  <2>1. disk' = disk /\ remote' = remote + 1
    BY <1>4 DEF Commit
  <2>2. remote' \in Revisions /\ remote <= remote'
    BY <1>1, <2>1 DEF TypeInv, TypeOK, Revisions
  <2>3. ManifestSynced'
    BY <1>1, <2>1 DEF DropinInv, ManifestSynced, Revisions
  <2>4. UserStays'
    BY <1>1, <2>1, <2>2 DEF DropinInv, UserStays, Unwavering
  <2>5. QED
    BY <1>1, <1>2, <2>1, <2>3, <2>4 DEF DropinInv, DropinsOfUser
<1>5. CASE UNCHANGED vars
  BY <1>1, <1>2, <1>5 DEF DropinInv, DropinsOfUser, UserStays, ManifestSynced, vars
<1>6. CASE \E c \in Comps : RunDoctor(c)
  <2>1. PICK c \in Comps : RunDoctor(c)
    BY <1>6
  <2>2. disk' = [disk EXCEPT ![c] = NoComponent] /\ remote' = remote /\ Doctor
    BY <2>1 DEF RunDoctor
  <2>3. ~NoComponent.data /\ \A p \in Dropins : NoComponent.at[p] = Absent
    BY DEF NoComponent, Dropins
  <2>4. DropinsOfUser' /\ UserStays' /\ ManifestSynced'
    BY <1>1, <2>2, <2>3, MateriaAssumption
       DEF DropinInv, DropinsOfUser, UserStays, ManifestSynced
  <2>5. QED
    BY <1>1, <1>2, <2>2, <2>4 DEF DropinInv
<1>7. QED
  BY <1>3, <1>4, <1>5, <1>6

LEMMA PurgesNever ==
  ASSUME ~CleanupComponents, TypeInv, NeverPurges, NEW r \in Runs, StepOf(r)
  PROVE  NeverPurges' /\ \A c \in Comps : ~Purge(r, c)
<1>1. \A s \in Runs \ {r} : run'[s] = run[s]
  BY StepCases
<1>2. run[r].pc \notin {"validating", "purging"}
  BY DEF NeverPurges
<1>3. ~ValidateComponents(r) /\ \A c \in Comps : ~Purge(r, c)
  BY <1>2 DEF ValidateComponents, Purge, At
<1>4. run'[r].pc \notin {"validating", "purging"}
  BY <1>3, PhasesOfCleanUp
<1>5. QED
  BY <1>1, <1>3, <1>4 DEF NeverPurges

LEMMA DropinsInitial == Init => DropinInv /\ NeverPurges
<1> SUFFICES ASSUME Init PROVE DropinInv /\ NeverPurges
  OBVIOUS
<1>1. /\ TypeInv /\ \A c \in Comps : disk[c] = NoComponent
      /\ \A r \in Runs : run[r] = Resting("none")
  BY TypesInitial DEF Init
<1>2. NeverPurges /\ PlansSpareDropins
  BY <1>1 DEF NeverPurges, PlansSpareDropins, Resting
<1>3. DropinsOfUser /\ UserStays
  BY <1>1, MateriaAssumption DEF DropinsOfUser, UserStays, NoComponent, Dropins
<1>4. ManifestSynced
  BY <1>1 DEF Init, ManifestSynced, Resting
<1>5. QED
  BY <1>1, <1>2, <1>3, <1>4 DEF DropinInv

(* An update, interrupted or not, never touches what the user has put next *)
(* to a quadlet, as long as nobody asks Materia to clean up: its component *)
(* stays assigned, and of a component that stays only what the source had  *)
(* is dropped.                                                             *)
THEOREM UserDropinsKept ==
  ASSUME ~CleanupComponents, ~Doctor, Unwavering
  PROVE  Spec => DropinsKept
<1> DEFINE Untouched == \A c \in Comps, p \in Dropins :
                      disk[c].at[p] # Absent => disk'[c].at[p] = disk[c].at[p]
<1> DEFINE Inv == DropinInv /\ NeverPurges
<1>1. Init => Inv
  BY DropinsInitial
<1>2. ASSUME DropinInv, NeverPurges, [Next]_vars PROVE DropinInv' /\ NeverPurges' /\ Untouched
  <2>1. CASE \E r \in Runs : StepOf(r)
    BY <1>2, <2>1, DropinsStepByRun, PurgesNever DEF DropinInv
  <2>2. CASE (\E c \in Comps : RunDoctor(c) \/ WriteDropin(c)) \/ Commit \/ UNCHANGED vars
    <3>1. run' = run
      BY <2>2, EnvironmentTyped, <1>2 DEF DropinInv
    <3>2. QED
      BY <1>2, <2>2, <3>1, DropinsStepByEnvironment DEF NeverPurges
  <2>3. QED
    BY <1>2, <2>1, <2>2 DEF Next, StepOf
<1>3. Inv /\ [Next]_vars => Inv' /\ [Untouched]_vars
  BY <1>2
<1>. HIDE DEF Untouched, Inv
<1>4. Spec => [][Untouched]_vars
  BY <1>1, <1>3, PTL DEF Spec
<1>5. QED
  BY <1>4 DEF DropinsKept, Untouched

-----------------------------------------------------------------------------
(* One process: the manifest comes last                                    *)

(* Without its data directory a component holds what is in its quadlet     *)
(* directory, and that only if there is one.                               *)
Sound(d) ==
    /\ ~d.data => \A p \in Held(d) : InQuadlets(p)
    /\ (\E p \in Held(d) : InQuadlets(p)) => d.quadlets

(* The steps on the files of a component that are not done yet.            *)
Ahead(x, c) ==
    {k \in DOMAIN x.steps :
        k >= x.next /\ x.steps[k].comp = c /\ x.steps[k].list = "resource"}

Comes(x, c, p) ==
    \E k \in Ahead(x, c) : x.steps[k].kind # "Component" /\ x.steps[k].path = p

QuadletsCome(x, c) ==
    \E k \in Ahead(x, c) : x.steps[k].kind = "Component" /\ (k = x.next => x.call <= 2)

ManifestLast(x, c) ==
    \E m \in Ahead(x, c) :
        /\ x.steps[m].kind # "Component" /\ x.steps[m].path = Manifest
        /\ \A k \in Ahead(x, c) : k <= m /\ (x.steps[k].path = Manifest => k = m)

(* A component leaves, stays with its manifest, or arrives: then what it   *)
(* does not hold as the source has it is still to come, and a quadlet      *)
(* directory that is there from before stops its installation.             *)
Leaving(x, c) == \A k \in Ahead(x, c) : x.steps[k].todo = "Remove"

Staying(x, c, d) ==
    /\ Loads(d)
    /\ \A k \in Ahead(x, c) :
          /\ x.steps[k].kind = "Component" => x.steps[k].todo = "Update"
          /\ x.steps[k].todo = "Remove" => x.steps[k].path # Manifest

Arriving(x, c, d, files) ==
    /\ d.at[Manifest] = Absent
    /\ ManifestLast(x, c)
    /\ \A k \in Ahead(x, c) :
          /\ x.steps[k].todo = "Install"
          /\ x.steps[k].kind # "Component" => x.steps[k].content = files[x.steps[k].path]
    /\ \A p \in Paths \ {Manifest} :
          \/ d.at[p] = files[p] \/ Comes(x, c, p)
          \/ InQuadlets(p) /\ QuadletsCome(x, c)
    /\ QuadletsCome(x, c) /\ ~d.quadlets =>
          \A p \in Paths : InQuadlets(p) /\ files[p] # Absent => Comes(x, c, p)

(* All the source has for the component but its manifest.                  *)
HoldsFiles(d, files) == \A p \in Paths \ {Manifest} : d.at[p] = files[p]

Sealed(x, c, d, files) ==
    Sound(d) /\ (Leaving(x, c) \/ Staying(x, c, d) \/ Arriving(x, c, d, files))

Sealing == \A r \in Runs, c \in Comps : Sealed(run[r], c, disk[c], FilesIn[cache][c])

SealInv == TypeInv /\ Sealing

(* The disk stays sound.                                                   *)
LEMMA SoundAt ==
  ASSUME NEW d \in Directories, Sound(d), NEW p \in Paths, HomeExists(d, p), NEW x
  PROVE  Sound([d EXCEPT !.at[p] = x])
<1> DEFINE e == [d EXCEPT !.at[p] = x]
<1>1. /\ e.data = d.data /\ e.quadlets = d.quadlets
      /\ \A q \in Paths : q # p => e.at[q] = d.at[q]
  BY DEF Directories
<1>2. Within[p] # 0 => /\ Within[p] \in Paths
                       /\ InQuadlets(p) <=> KindOf[p] = "Dropin"
                       /\ InQuadlets(Within[p]) <=> KindOf[p] = "Dropin"
  BY RepositoryAssumption DEF InQuadlets, IsQuadlet, QuadletKinds
<1>3. ~d.data => InQuadlets(p)
  BY <1>2 DEF HomeExists, Sound, Held
<1>4. InQuadlets(p) => d.quadlets
  BY <1>2 DEF HomeExists, Sound, Held
<1>. HIDE DEF e
<1>5. Sound(e)
  BY <1>1, <1>3, <1>4 DEF Sound, Held
<1>6. QED
  BY <1>5 DEF e

LEMMA SoundAfter ==
  ASSUME NEW d \in Directories, Sound(d), NEW k, k.op \in FileOpNames, Applies(d, k),
         k.op \in {"mkdir", "write", "remove"} => k.path \in Paths
  PROVE  Sound(After(d, k))
<1>1. CASE k.op \in {"mkdir", "write"}
  <2>1. HomeExists(d, k.path)
    BY <1>1 DEF Applies
  <2>2. \/ After(d, k) = [d EXCEPT !.at[k.path] = Blank]
        \/ After(d, k) = [d EXCEPT !.at[k.path] = k.content]
    BY <1>1 DEF After
  <2>3. QED
    BY <1>1, <2>1, <2>2, SoundAt
<1>2. CASE k.op = "remove"
  <2>1. After(d, k) = [d EXCEPT !.at[k.path] = Absent]
    BY <1>2 DEF After
  <2>2. QED
    BY <1>2, <2>1 DEF Sound, Held, Directories
<1>3. CASE k.op \in ComponentOps
  BY <1>3 DEF ComponentOps, Applies, After, Sound, Held, Directories
<1>4. QED
  BY <1>1, <1>2, <1>3 DEF FileOpNames

LEMMA SoundTorn ==
  ASSUME NEW d \in Directories, Sound(d), NEW k, k.op = "write" => k.path \in Paths
  PROVE  Sound(Torn(d, k))
<1>1. CASE k.op = "write" /\ Applies(d, k)
  BY <1>1, SoundAt DEF Torn, Applies
<1>2. CASE ~(k.op = "write" /\ Applies(d, k))
  BY <1>2 DEF Torn, Sound, Held, Directories
<1>3. QED
  BY <1>1, <1>2

LEMMA SoundNoComponent == Sound(NoComponent) /\ ~Loads(NoComponent)
BY DEF Sound, Held, NoComponent, Loads

LEMMA SoundWithDropin ==
  ASSUME NEW d \in Directories, Loads(d), NEW p
  PROVE  Sound(WithDropin(d, p))
<1>1. WithDropin(d, p).data = d.data /\ WithDropin(d, p).quadlets = d.quadlets
  BY DEF WithDropin, Directories
<1>2. QED
  BY <1>1 DEF Loads, Sound

(* The steps ahead of a process that goes on.                              *)
LEMMA AheadShrinks ==
  ASSUME NEW x, NEW y, NEW c, y.steps = x.steps, DOMAIN x.steps \subseteq Nat, x.next \in Nat,
         y.next \in {x.next, x.next + 1}
  PROVE  /\ y.next = x.next => Ahead(y, c) = Ahead(x, c)
         /\ y.next = x.next + 1 => Ahead(y, c) = Ahead(x, c) \ {x.next}
         /\ \A k \in Ahead(x, c) : k \in Nat /\ k >= x.next
BY DEF Ahead

(* What is ahead for a component stays when the step passed is not on its  *)
(* files.                                                                  *)
LEMMA AheadElsewhere ==
  ASSUME NEW x, NEW y, NEW c, y.steps = x.steps, DOMAIN x.steps \subseteq Nat, x.next \in Nat,
         \/ y.next = x.next /\ y.call = x.call
         \/ y.next = x.next /\ x.next \notin Ahead(x, c)
         \/ y.next = x.next + 1 /\ y.call = 1 /\ x.next \notin Ahead(x, c),
         NEW d, NEW files, Sealed(x, c, d, files)
  PROVE  Sealed(y, c, d, files)
<1>1. Ahead(y, c) = Ahead(x, c) /\ \A k \in Ahead(x, c) : k \in Nat /\ k >= x.next
  BY AheadShrinks
<1>2. QuadletsCome(y, c) <=> QuadletsCome(x, c)
  BY <1>1 DEF QuadletsCome
<1>3. ManifestLast(y, c) <=> ManifestLast(x, c)
  BY <1>1 DEF ManifestLast
<1>4. \A p : Comes(y, c, p) <=> Comes(x, c, p)
  BY <1>1 DEF Comes
<1>5. Leaving(x, c) => Leaving(y, c)
  BY <1>1 DEF Leaving
<1>6. Staying(x, c, d) => Staying(y, c, d)
  BY <1>1 DEF Staying
<1>7. Arriving(x, c, d, files) => Arriving(y, c, d, files)
  BY <1>1, <1>2, <1>3, <1>4 DEF Arriving
<1>8. QED
  BY <1>5, <1>6, <1>7 DEF Sealed

(* The calls of a step of a plan, and how a process goes on to the next.   *)
IsCallOf(k, s, i) ==
    \/ /\ ComponentStep(s) /\ k.op \in ComponentOps
       /\ i \in 1..Len(StepCalls(s)) /\ k.op = FileOps(s.kind, s.todo)[i]
    \/ /\ PathStep(s) /\ k.path = s.path /\ k.content = s.content /\ Len(StepCalls(s)) = 1
       /\ i \in 1..Len(StepCalls(s))
       /\ k.op = IF s.todo = "Remove" THEN "remove"
                 ELSE IF s.kind = "Directory" /\ s.todo = "Install" THEN "mkdir" ELSE "write"

Advances(x, y) ==
    /\ y.steps = x.steps
    /\ IF x.call < Len(StepCalls(x.steps[x.next]))
       THEN y.next = x.next /\ y.call = x.call + 1
       ELSE y.next = x.next + 1 /\ y.call = 1

IsSource(files) ==
    /\ files \in [Paths -> Nat]
    /\ \A p \in Paths : /\ KindOf[p] \in {"Dropin", "DropinDir"} => files[p] = Absent
                        /\ KindOf[p] = "Directory" => files[p] \in {Absent, Blank}

LEMMA ComponentCalls ==
  ASSUME NEW s, ComponentStep(s), NEW i \in 1..Len(StepCalls(s))
  PROVE  LET op == FileOps(s.kind, s.todo)[i] IN
         /\ s.todo = "Install" =>
               /\ Len(StepCalls(s)) = 4
               /\ op \in {"mkdirData", "mkdirQuadlets", "writeManaged", "writeVersion"}
               /\ op = "mkdirQuadlets" <=> i = 2
         /\ s.todo = "Update" => op = "writeVersion"
         /\ s.todo = "Remove" => op \in {"removeVersion", "rmdirData", "removeManaged", "rmdirQuadlets"}
<1> DEFINE ops == FileOps(s.kind, s.todo)
<1>1. StepCalls(s) = [j \in DOMAIN ops |-> Call(ops[j], s.comp, s.path, s.content)]
  BY DEF StepCalls, FileCalls, ComponentStep
<1>2. /\ s.todo = "Install" => ops = <<"mkdirData", "mkdirQuadlets", "writeManaged", "writeVersion">>
      /\ s.todo = "Update" => ops = <<"writeVersion">>
      /\ s.todo = "Remove" => ops = <<"removeVersion", "rmdirData", "removeManaged", "rmdirQuadlets">>
  BY DEF FileOps, ComponentStep
<1>. HIDE DEF ops
<1>3. CASE s.todo = "Install"
  <2>1. ops = <<"mkdirData", "mkdirQuadlets", "writeManaged", "writeVersion">>
    BY <1>2, <1>3
  <2>2. DOMAIN StepCalls(s) = 1..4 /\ Len(StepCalls(s)) = 4
    BY <1>1, <2>1
  <2>3. QED
    BY <1>3, <2>1, <2>2 DEF ops
<1>4. CASE s.todo = "Update"
  <2>1. DOMAIN StepCalls(s) = 1..1 /\ Len(StepCalls(s)) = 1
    BY <1>1, <1>2, <1>4
  <2>2. QED
    BY <1>2, <1>4, <2>1 DEF ops
<1>5. CASE s.todo = "Remove"
  <2>1. ops = <<"removeVersion", "rmdirData", "removeManaged", "rmdirQuadlets">>
    BY <1>2, <1>5
  <2>2. DOMAIN StepCalls(s) = 1..4 /\ Len(StepCalls(s)) = 4
    BY <1>1, <2>1
  <2>3. QED
    BY <1>5, <2>1, <2>2 DEF ops
<1>6. QED
  BY <1>3, <1>4, <1>5 DEF ComponentStep, FileTodos

(* A removal makes nothing that can be loaded, ...                         *)
LEMMA RemovalLoadsNothing ==
  ASSUME NEW d \in Directories, NEW s, NEW k, NEW i, IsCallOf(k, s, i), s.todo = "Remove"
  PROVE  (Loads(After(d, k)) => Loads(d)) /\ Torn(d, k) = d
<1>1. k.op \in {"remove", "removeVersion", "rmdirData", "removeManaged", "rmdirQuadlets"}
  BY ComponentCalls DEF IsCallOf
<1>2. k.op = "remove" => k.path \in Paths /\ After(d, k) = [d EXCEPT !.at[k.path] = Absent]
  BY DEF IsCallOf, PathStep, ComponentOps, After
<1>3. Loads(After(d, k)) => Loads(d)
  <2>1. CASE k.op = "remove"
    <3>1. Manifest \in Paths
      BY RepositoryAssumption
    <3>2. QED
      BY <1>2, <2>1, <3>1 DEF Loads, Directories
  <2>2. CASE k.op # "remove"
    BY <1>1, <2>2 DEF Loads, Directories, After
  <2>3. QED
    BY <2>1, <2>2
<1>4. QED
  BY <1>1, <1>3 DEF Torn

(* ... and an update leaves what can be.                                   *)
LEMMA UpdateStillLoads ==
  ASSUME NEW d \in Directories, Loads(d), NEW s, NEW k, NEW i, IsCallOf(k, s, i),
         s.kind = "Component" => s.todo = "Update",
         s.todo = "Remove" => s.path # Manifest
  PROVE  Loads(After(d, k))
<1>1. Manifest \in Paths
  BY RepositoryAssumption
<1>2. CASE ComponentStep(s)
  <2>1. k.op = "writeVersion"
    BY <1>2, ComponentCalls DEF IsCallOf, ComponentStep, PathStep
  <2>2. QED
    BY <2>1 DEF After, Loads, Directories
<1>3. CASE PathStep(s)
  <2>1. /\ s.path \in Paths /\ k.path = s.path /\ k.content = s.content
        /\ k.op = IF s.todo = "Remove" THEN "remove"
                  ELSE IF s.kind = "Directory" /\ s.todo = "Install" THEN "mkdir" ELSE "write"
        /\ s.todo # "Remove" => s.content # Absent
    BY <1>3 DEF IsCallOf, PathStep, ComponentStep
  <2>2. CASE s.todo = "Remove"
    <3>1. After(d, k) = [d EXCEPT !.at[s.path] = Absent]
      BY <2>1, <2>2 DEF After
    <3>2. QED
      BY <1>1, <2>1, <2>2, <3>1 DEF Loads, Directories
  <2>3. CASE s.todo # "Remove"
    <3>1. \/ After(d, k) = [d EXCEPT !.at[s.path] = Blank]
          \/ After(d, k) = [d EXCEPT !.at[s.path] = s.content]
      BY <2>1, <2>3 DEF After
    <3>2. Blank # Absent /\ s.content # Absent
      BY <2>1, <2>3 DEF Blank, Absent
    <3>3. QED
      BY <1>1, <2>1, <3>1, <3>2 DEF Loads, Directories
  <2>4. QED
    BY <2>2, <2>3
<1>4. QED
  BY <1>2, <1>3 DEF IsCallOf

(* A component that arrives: its directories are made, ...                 *)
LEMMA DirectoriesArrive ==
  ASSUME NEW x, NEW y, NEW c, NEW d \in Directories, NEW files, Sound(d),
         Arriving(x, c, d, files), DOMAIN x.steps \subseteq Nat, x.next \in Ahead(x, c),
         ComponentStep(x.steps[x.next]), x.call \in 1..Len(StepCalls(x.steps[x.next])),
         Advances(x, y),
         NEW k, k.op = FileOps(x.steps[x.next].kind, x.steps[x.next].todo)[x.call], Applies(d, k)
  PROVE  Arriving(y, c, After(d, k), files)
<1> DEFINE s == x.steps[x.next]
           e == After(d, k)
<1>1. s.todo = "Install" /\ s.kind = "Component"
  BY DEF Arriving, ComponentStep
<1>2. /\ Len(StepCalls(s)) = 4 /\ x.call \in 1..4
      /\ k.op \in {"mkdirData", "mkdirQuadlets", "writeManaged", "writeVersion"}
      /\ k.op = "mkdirQuadlets" <=> x.call = 2
  BY <1>1, ComponentCalls
<1>3. /\ e.at = d.at
      /\ x.call # 2 => e.quadlets = d.quadlets
      /\ x.call = 2 => e.quadlets /\ ~d.quadlets
  BY <1>2 DEF After, Applies, Directories
<1>4. /\ y.steps = x.steps /\ x.next \in Nat
      /\ x.call < 4 => y.next = x.next /\ y.call = x.call + 1
      /\ x.call = 4 => y.next = x.next + 1 /\ y.call = 1
  BY <1>2 DEF Advances, Ahead
<1>. HIDE DEF s, e
<1>5. /\ Ahead(y, c) \subseteq Ahead(x, c)
      /\ \A j \in Ahead(x, c) : /\ j \in Nat /\ j >= x.next
                                /\ x.steps[j].kind # "Component" => j \in Ahead(y, c)
                                /\ j # x.next => j \in Ahead(y, c)
      /\ x.call = 4 => x.next \notin Ahead(y, c)
      /\ x.call < 4 => x.next \in Ahead(y, c)
  <2>1. CASE x.call < 4
    BY <1>4, <2>1, AheadShrinks DEF Ahead
  <2>2. CASE x.call = 4
    BY <1>1, <1>4, <2>2, AheadShrinks DEF s
  <2>3. QED
    BY <1>2, <2>1, <2>2
<1>6. \A p : Comes(y, c, p) <=> Comes(x, c, p)
  BY <1>4, <1>5 DEF Comes
<1>7. ManifestLast(y, c)
  <2>1. ManifestLast(x, c)
    BY DEF Arriving
  <2>2. QED
    BY <1>4, <1>5, <2>1 DEF ManifestLast
<1>8. \A j \in Ahead(y, c) :
         /\ y.steps[j].todo = "Install"
         /\ y.steps[j].kind # "Component" => y.steps[j].content = files[y.steps[j].path]
  BY <1>4, <1>5 DEF Arriving
<1>9. e.at[Manifest] = Absent
  BY <1>3 DEF Arriving
<1>10. CASE x.call = 2
  <2>1. ASSUME NEW p \in Paths \ {Manifest} PROVE e.at[p] = files[p] \/ Comes(y, c, p)
    <3>1. CASE InQuadlets(p)
      <4>1. d.at[p] = Absent
        BY <1>3, <1>10, <3>1 DEF Sound, Held
      <4>2. CASE files[p] = Absent
        BY <1>3, <4>1, <4>2
      <4>3. CASE files[p] # Absent
        BY <1>3, <1>6, <1>10, <3>1, <4>1, <4>3 DEF Arriving
      <4>4. QED
        BY <4>2, <4>3
    <3>2. CASE ~InQuadlets(p)
      BY <1>3, <1>6, <3>2 DEF Arriving
    <3>3. QED
      BY <3>1, <3>2
  <2>2. e.quadlets
    BY <1>3, <1>10
  <2>3. QED
    BY <1>7, <1>8, <1>9, <2>1, <2>2 DEF Arriving, e
<1>11. CASE x.call # 2
  <2>1. QuadletsCome(y, c) <=> QuadletsCome(x, c)
    <3>1. CASE x.call = 1
      <4>1. y.next = x.next /\ y.call = 2 /\ x.call <= 2
        BY <1>4, <3>1
      <4>2. QED
        BY <1>1, <1>4, <1>5, <3>1, <4>1 DEF QuadletsCome, s
    <3>2. CASE x.call = 3
      <4>1. y.next = x.next /\ ~(y.call <= 2) /\ ~(x.call <= 2)
        BY <1>4, <3>2
      <4>2. QED
        BY <1>4, <1>5, <4>1 DEF QuadletsCome
    <3>3. CASE x.call = 4
      <4>1. y.next = x.next + 1 /\ y.call = 1 /\ y.call <= 2 /\ ~(x.call <= 2)
        BY <1>4, <3>3
      <4>2. QED
        BY <1>4, <1>5, <3>3, <4>1 DEF QuadletsCome
    <3>4. QED
      BY <1>2, <1>11, <3>1, <3>2, <3>3
  <2>2. e.quadlets = d.quadlets
    BY <1>3, <1>11
  <2>3. QED
    BY <1>3, <1>6, <1>7, <1>8, <1>9, <2>1, <2>2 DEF Arriving, e
<1>12. QED
  BY <1>10, <1>11

(* ... then its files, ...                                                 *)
LEMMA FilesArrive ==
  ASSUME NEW x, NEW y, NEW c, NEW d \in Directories, NEW files, IsSource(files), Sound(d),
         Arriving(x, c, d, files), DOMAIN x.steps \subseteq Nat, x.next \in Ahead(x, c),
         PathStep(x.steps[x.next]), x.steps[x.next].path # Manifest,
         y.steps = x.steps, y.next = x.next + 1, y.call = 1,
         HomeExists(d, x.steps[x.next].path)
  PROVE  LET p == x.steps[x.next].path IN
         Arriving(y, c, [d EXCEPT !.at[p] = files[p]], files)
<1> DEFINE s == x.steps[x.next]
           e == [d EXCEPT !.at[s.path] = files[s.path]]
<1>1. /\ s.kind # "Component" /\ s.path \in Paths /\ s.kind = KindOf[s.path]
      /\ s.path # Manifest /\ Manifest \in Paths
      /\ s.content = files[s.path] /\ s.content # Absent
  BY RepositoryAssumption DEF Arriving, PathStep
<1>2. /\ e.quadlets = d.quadlets /\ e.at[s.path] = files[s.path] /\ e.at[Manifest] = d.at[Manifest]
      /\ \A p \in Paths : p # s.path => e.at[p] = d.at[p]
  BY <1>1 DEF Directories
<1>3. x.next \in Nat /\ Ahead(y, c) = Ahead(x, c) \ {x.next}
      /\ \A j \in Ahead(x, c) : j \in Nat /\ j >= x.next
  <2>1. x.next \in Nat
    BY DEF Ahead
  <2>2. QED
    BY <2>1, AheadShrinks
<1>. HIDE DEF e
<1>4. \A p \in Paths : p # s.path => (Comes(y, c, p) <=> Comes(x, c, p))
  BY <1>3 DEF Comes
<1>5. QuadletsCome(y, c) <=> QuadletsCome(x, c)
  <2>1. y.call <= 2
    OBVIOUS
  <2>2. QED
    BY <1>1, <1>3, <2>1 DEF QuadletsCome
<1>6. ManifestLast(y, c)
  <2>1. ManifestLast(x, c)
    BY DEF Arriving
  <2>2. QED
    BY <1>1, <1>3, <2>1 DEF ManifestLast
<1>7. InQuadlets(s.path) => d.quadlets
  <2>1. SUFFICES ASSUME InQuadlets(s.path) PROVE Within[s.path] = 0
    BY DEF HomeExists
  <2>2. KindOf[s.path] \notin {"Dropin", "DropinDir"}
    BY <1>1 DEF IsSource
  <2>3. QED
    BY <1>1, <2>1, <2>2, RepositoryAssumption DEF InQuadlets, IsQuadlet, QuadletKinds
<1>8. /\ \A p \in Paths \ {Manifest} :
            \/ e.at[p] = files[p] \/ Comes(y, c, p)
            \/ InQuadlets(p) /\ QuadletsCome(y, c)
      /\ QuadletsCome(y, c) /\ ~e.quadlets =>
            \A p \in Paths : InQuadlets(p) /\ files[p] # Absent => Comes(y, c, p)
  BY <1>2, <1>4, <1>5, <1>7 DEF Arriving
<1>9. \A j \in Ahead(y, c) :
         /\ y.steps[j].todo = "Install"
         /\ y.steps[j].kind # "Component" => y.steps[j].content = files[y.steps[j].path]
  BY <1>3 DEF Arriving
<1>10. e.at[Manifest] = Absent
  BY <1>2 DEF Arriving
<1>11. QED
  BY <1>6, <1>8, <1>9, <1>10 DEF Arriving, e

(* ... and the manifest when all the others are there.                     *)
LEMMA ManifestArrives ==
  ASSUME NEW x, NEW c, NEW d, NEW files, Arriving(x, c, d, files),
         DOMAIN x.steps \subseteq Nat, x.next \in Ahead(x, c), x.steps[x.next].path = Manifest,
         x.steps[x.next].kind # "Component"
  PROVE  /\ Ahead(x, c) = {x.next}
         /\ HoldsFiles(d, files)
<1>1. x.next \in Nat /\ \A j \in Ahead(x, c) : j \in Nat /\ j >= x.next /\ j <= x.next
  BY DEF Arriving, ManifestLast, Ahead
<1>2. Ahead(x, c) = {x.next}
  BY <1>1
<1>3. ~QuadletsCome(x, c) /\ \A p \in Paths \ {Manifest} : ~Comes(x, c, p)
  BY <1>2 DEF QuadletsCome, Comes
<1>4. QED
  BY <1>2, <1>3 DEF Arriving, HoldsFiles

(* What a call does to a sealed component, made or torn.                   *)
LEMMA CallSeals ==
  ASSUME NEW x, NEW y, NEW c, NEW d \in Directories, NEW files, IsSource(files),
         Sealed(x, c, d, files), DOMAIN x.steps \subseteq Nat, x.next \in Ahead(x, c),
         NEW k, IsCallOf(k, x.steps[x.next], x.call), Applies(d, k), Advances(x, y)
  PROVE  /\ Sealed(y, c, After(d, k), files)
         /\ ~Loads(d) /\ Loads(After(d, k)) => HoldsFiles(After(d, k), files)
<1> DEFINE s == x.steps[x.next]
           e == After(d, k)
<1>1. Sound(e)
  <2>1. k.op \in FileOpNames /\ (k.op \in {"mkdir", "write", "remove"} => k.path \in Paths)
    BY DEF IsCallOf, FileOpNames, ComponentOps, PathStep
  <2>2. QED
    BY <2>1, SoundAfter DEF Sealed
<1>2. /\ y.steps = x.steps /\ x.next \in Nat /\ y.next \in {x.next, x.next + 1}
      /\ Ahead(y, c) \subseteq Ahead(x, c)
  <2>1. y.steps = x.steps /\ x.next \in Nat /\ y.next \in {x.next, x.next + 1}
    BY DEF Advances, Ahead
  <2>2. QED
    BY <2>1, AheadShrinks
<1>3. CASE Leaving(x, c)
  <2>1. s.todo = "Remove" /\ Leaving(y, c)
    BY <1>2, <1>3 DEF Leaving
  <2>2. Loads(e) => Loads(d)
    BY <2>1, RemovalLoadsNothing
  <2>3. QED
    BY <1>1, <2>1, <2>2 DEF Sealed
<1>4. CASE Staying(x, c, d)
  <2>1. Loads(d) /\ (s.kind = "Component" => s.todo = "Update")
        /\ (s.todo = "Remove" => s.path # Manifest)
    BY <1>4 DEF Staying
  <2>2. Loads(e)
    BY <2>1, UpdateStillLoads
  <2>3. Staying(y, c, e)
    BY <1>2, <1>4, <2>2 DEF Staying
  <2>4. QED
    BY <1>1, <2>1, <2>3 DEF Sealed
<1>5. CASE Arriving(x, c, d, files)
  <2>1. CASE ComponentStep(s)
    <3>1. k.op = FileOps(s.kind, s.todo)[x.call] /\ x.call \in 1..Len(StepCalls(s))
      BY <2>1 DEF IsCallOf, ComponentStep, PathStep
    <3>2. Arriving(y, c, e, files)
      BY <1>5, <2>1, <3>1, DirectoriesArrive DEF Sealed
    <3>3. ~Loads(e)
      BY <3>2 DEF Arriving, Loads
    <3>4. QED
      BY <1>1, <3>2, <3>3 DEF Sealed
  <2>2. CASE PathStep(s)
    <3>1. /\ s.path \in Paths /\ s.kind = KindOf[s.path] /\ s.todo = "Install"
          /\ s.kind # "Component" /\ s.content = files[s.path] /\ s.content # Absent
      BY <1>5, <2>2 DEF Arriving, PathStep
    <3>2. /\ k.path = s.path /\ k.content = s.content /\ Len(StepCalls(s)) = 1
          /\ x.call \in 1..Len(StepCalls(s))
          /\ k.op = IF s.kind = "Directory" THEN "mkdir" ELSE "write"
      BY <2>2, <3>1 DEF IsCallOf, ComponentStep
    <3>3. HomeExists(d, s.path)
      BY <3>2 DEF Applies
    <3>4. e = [d EXCEPT !.at[s.path] = files[s.path]]
      <4>1. CASE s.kind = "Directory"
        <5>1. files[s.path] = Blank
          BY <3>1, <4>1 DEF IsSource
        <5>2. QED
          BY <3>2, <4>1, <5>1 DEF After
      <4>2. CASE s.kind # "Directory"
        BY <3>1, <3>2, <4>2 DEF After
      <4>3. QED
        BY <4>1, <4>2
    <3>5. y.next = x.next + 1 /\ y.call = 1
      <4>1. x.call = 1 /\ ~(x.call < Len(StepCalls(s)))
        BY <3>2
      <4>2. QED
        BY <4>1 DEF Advances
    <3>6. CASE s.path # Manifest
      <4>1. Arriving(y, c, e, files)
        BY <1>2, <1>5, <2>2, <3>3, <3>4, <3>5, <3>6, FilesArrive DEF Sealed
      <4>2. ~Loads(e)
        BY <4>1 DEF Arriving, Loads
      <4>3. QED
        BY <1>1, <4>1, <4>2 DEF Sealed
    <3>7. CASE s.path = Manifest
      <4>1. Ahead(x, c) = {x.next} /\ HoldsFiles(d, files)
        BY <1>5, <3>1, <3>7, ManifestArrives
      <4>2. Ahead(y, c) = {}
        BY <1>2, <3>5, <4>1, AheadShrinks
      <4>3. HoldsFiles(e, files)
        BY <3>4, <3>7, <4>1 DEF Directories, HoldsFiles
      <4>4. Leaving(y, c)
        BY <4>2 DEF Leaving
      <4>5. QED
        BY <1>1, <4>3, <4>4 DEF Sealed
    <3>8. QED
      BY <3>6, <3>7
  <2>3. QED
    BY <2>1, <2>2 DEF IsCallOf
<1>6. QED
  BY <1>3, <1>4, <1>5 DEF Sealed

LEMMA TornSeals ==
  ASSUME NEW x, NEW c, NEW d \in Directories, NEW files,
         Sealed(x, c, d, files), DOMAIN x.steps \subseteq Nat, x.next \in Ahead(x, c),
         NEW s, s = x.steps[x.next], NEW i, NEW k, IsCallOf(k, s, i)
  PROVE  /\ Sound(Torn(d, k))
         /\ ~Loads(d) /\ Loads(Torn(d, k)) => HoldsFiles(Torn(d, k), files)
<1> DEFINE e == Torn(d, k)
<1>1. Sound(e)
  <2>1. k.op = "write" => k.path \in Paths
    BY DEF IsCallOf, ComponentOps, PathStep
  <2>2. QED
    BY <2>1, SoundTorn DEF Sealed
<1>2. CASE Leaving(x, c)
  <2>1. s.todo = "Remove"
    BY <1>2 DEF Leaving
  <2>2. e = d
    BY <2>1, RemovalLoadsNothing
  <2>3. QED
    BY <1>1, <2>2
<1>3. CASE Staying(x, c, d)
  BY <1>1, <1>3 DEF Staying
<1>4. CASE Arriving(x, c, d, files)
  <2>1. CASE k.op = "write" /\ Applies(d, k)
    <3>1. /\ k.path = s.path /\ s.path \in Paths /\ s.kind # "Component"
          /\ e = [d EXCEPT !.at[s.path] = Blank]
      BY <2>1 DEF IsCallOf, ComponentOps, PathStep, Torn
    <3>2. CASE s.path = Manifest
      <4>1. HoldsFiles(d, files)
        BY <1>4, <3>1, <3>2, ManifestArrives
      <4>2. QED
        BY <1>1, <3>1, <3>2, <4>1 DEF Directories, HoldsFiles
    <3>3. CASE s.path # Manifest
      <4>1. Manifest \in Paths
        BY RepositoryAssumption
      <4>2. e.at[Manifest] = Absent
        BY <1>4, <3>1, <3>3, <4>1 DEF Arriving, Directories
      <4>3. QED
        BY <1>1, <4>2 DEF Loads
    <3>4. QED
      BY <3>2, <3>3
  <2>2. CASE ~(k.op = "write" /\ Applies(d, k))
    <3>1. e.at = d.at
      BY <2>2 DEF Torn, Directories
    <3>2. e.at[Manifest] = Absent
      BY <1>4, <3>1 DEF Arriving
    <3>3. QED
      BY <1>1, <3>2 DEF Loads
  <2>3. QED
    BY <2>1, <2>2
<1>5. QED
  BY <1>2, <1>3, <1>4 DEF Sealed

(* Plan seals every component: what it does not find it installs whole.    *)
LEMMA PlanSeals ==
  ASSUME SealInv, NEW r \in Runs, GetsPlan(r), NEW c \in Comps
  PROVE  Sealed(run'[r], c, disk[c], FilesIn[cache][c])
<1> DEFINE x == run'[r]
           d == disk[c]
           files == FilesIn[cache][c]
           assigned == c \in AssignedIn[run[r].manifest]
<1>1. /\ x.steps = PlanOf(r).steps /\ x.next = 1 /\ x.call = 1 /\ PlanOf(r).ok
      /\ TypeInv /\ At(r, "start")
  BY DEF GetsPlan, SealInv, Plan
<1>2. /\ d \in Directories /\ files \in [Paths -> Nat] /\ assigned \in BOOLEAN
      /\ x.steps \in StepLists
      /\ d.data => Loads(d)
      /\ assigned => files[Manifest] # Absent
      /\ assigned /\ ~d.data => InstallsWhole(c, files, x.steps)
  BY <1>1, PlanOfRun
<1>3. \A k \in DOMAIN x.steps :
         \/ x.steps[k] = HostReload
         \/ \E b \in Comps : x.steps[k] \in ChangesTo(b, disk[b], FilesIn[cache][b],
                                                      b \in AssignedIn[run[r].manifest])
  BY <1>1, PlanOfRun
<1>4. FilesIn[cache] \in [Comps -> [Paths -> Nat]]
  BY <1>1, PlanOfRun
<1>5. Sound(d)
  BY DEF SealInv, Sealing, Sealed
<1>6. ASSUME NEW k \in Ahead(x, c)
      PROVE  x.steps[k] \in ChangesTo(c, d, files, assigned)
  <2>1. k \in DOMAIN x.steps /\ x.steps[k].comp = c
    BY DEF Ahead
  <2>2. x.steps[k] # HostReload
    BY <2>1, MateriaAssumption DEF HostReload
  <2>3. PICK b \in Comps : x.steps[k] \in ChangesTo(b, disk[b], FilesIn[cache][b],
                                                    b \in AssignedIn[run[r].manifest])
    BY <1>3, <2>1, <2>2
  <2>4. x.steps[k].comp = b
    BY <1>4, <2>3, ChangesAreEntries
  <2>5. QED
    BY <2>1, <2>3, <2>4
<1>. HIDE DEF x, d, files, assigned
<1>7. ASSUME NEW k \in Ahead(x, c)
      PROVE  x.steps[k].list = "resource" /\ x.steps[k] \notin Jobs(c)
  <2>1. x.steps[k].list = "resource"
    BY DEF Ahead
  <2>2. QED
    BY <2>1, JobFields
<1>8. CASE d.data /\ assigned
  <2>1. ASSUME NEW k \in Ahead(x, c)
        PROVE  /\ x.steps[k].kind = "Component" => x.steps[k].todo = "Update"
               /\ x.steps[k].todo = "Remove" => x.steps[k].path # Manifest
    <3>1. x.steps[k] \in Updates(c, files)
      BY <1>6, <1>7, <1>8 DEF ChangesTo
    <3>2. QED
      BY <1>2, <1>8, <3>1, UpdateFields
  <2>2. QED
    BY <1>2, <1>5, <1>8, <2>1 DEF Sealed, Staying, x, d, files
<1>9. CASE d.data /\ ~assigned
  <2>1. ASSUME NEW k \in Ahead(x, c) PROVE x.steps[k].todo = "Remove"
    <3>1. x.steps[k] \in Removals(c)
      BY <1>6, <1>7, <1>9 DEF ChangesTo
    <3>2. QED
      BY <3>1, RemovalFields
  <2>2. QED
    BY <1>5, <2>1 DEF Sealed, Leaving, x, d, files
<1>10. CASE ~d.data /\ ~assigned
  <2>1. Ahead(x, c) = {}
    BY <1>6, <1>7, <1>10 DEF ChangesTo
  <2>2. QED
    BY <1>5, <2>1 DEF Sealed, Leaving, x, d, files
<1>11. CASE ~d.data /\ assigned
  <2>1. ASSUME NEW k \in Ahead(x, c)
        PROVE  /\ x.steps[k].todo = "Install"
               /\ x.steps[k].kind # "Component" => x.steps[k].content = files[x.steps[k].path]
    <3>1. x.steps[k] \in Installs(c, files)
      BY <1>6, <1>7, <1>11 DEF ChangesTo
    <3>2. QED
      BY <1>2, <3>1, InstallFields
  <2>2. PICK m \in DOMAIN x.steps :
           /\ x.steps[m] = OnResource("Install", c, Manifest, files[Manifest])
           /\ \E k \in DOMAIN x.steps : x.steps[k] = OnComponent("Install", c)
           /\ \A k \in DOMAIN x.steps : x.steps[k].comp = c /\ x.steps[k].list = "resource" =>
                 k <= m /\ (x.steps[k].path = Manifest => k = m)
           /\ \A p \in Paths : files[p] # Absent =>
                 \E k \in DOMAIN x.steps : x.steps[k] = OnResource("Install", c, p, files[p])
    BY <1>2, <1>11 DEF InstallsWhole
  <2>3. /\ Manifest \in Paths /\ ~InQuadlets(Manifest)
    BY RepositoryAssumption DEF InQuadlets, IsQuadlet, QuadletKinds
  <2>4. "Install" \in Todos /\ "Install" \in FileTodos /\ ~IsServiceAction("Install")
    BY DEF Todos, FileTodos, IsServiceAction
  <2>5. \A k \in DOMAIN x.steps : k \in Nat /\ k >= x.next
    BY <1>1, <1>2 DEF StepLists, x
  <2>6. ASSUME NEW p \in Paths, NEW k \in DOMAIN x.steps,
               x.steps[k] = OnResource("Install", c, p, files[p])
        PROVE  k \in Ahead(x, c) /\ x.steps[k].kind # "Component" /\ x.steps[k].path = p
    <3>1. files[p] \in Nat
      BY <1>2
    <3>2. /\ x.steps[k].comp = c /\ x.steps[k].list = "resource"
          /\ x.steps[k].kind = KindOf[p] /\ x.steps[k].path = p
      BY <2>4, <2>6, <3>1, ResourceChange
    <3>3. QED
      BY <2>5, <3>2, KindsOfFiles DEF Ahead
  <2>7. \A p \in Paths : files[p] # Absent => Comes(x, c, p)
    BY <2>2, <2>6 DEF Comes
  <2>8. QuadletsCome(x, c)
    <3>1. PICK k \in DOMAIN x.steps : x.steps[k] = OnComponent("Install", c)
      BY <2>2
    <3>2. k \in Ahead(x, c) /\ x.steps[k].kind = "Component"
      BY <2>4, <2>5, <3>1, ComponentChange DEF Ahead
    <3>3. x.call <= 2
      BY <1>1 DEF x
    <3>4. QED
      BY <3>2, <3>3 DEF QuadletsCome
  <2>9. ManifestLast(x, c)
    <3>1. m \in Ahead(x, c) /\ x.steps[m].kind # "Component" /\ x.steps[m].path = Manifest
      BY <2>2, <2>3, <2>6
    <3>2. \A k \in Ahead(x, c) : k <= m /\ (x.steps[k].path = Manifest => k = m)
      BY <2>2 DEF Ahead
    <3>3. QED
      BY <3>1, <3>2 DEF ManifestLast
  <2>10. \A p \in Paths : d.at[p] # Absent => InQuadlets(p)
    BY <1>5, <1>11 DEF Sound, Held
  <2>11. d.at[Manifest] = Absent
    BY <2>3, <2>10
  <2>12. \A p \in Paths \ {Manifest} :
            \/ d.at[p] = files[p] \/ Comes(x, c, p)
            \/ InQuadlets(p) /\ QuadletsCome(x, c)
    BY <2>7, <2>8, <2>10
  <2>13. Arriving(x, c, d, files)
    BY <2>1, <2>7, <2>9, <2>11, <2>12 DEF Arriving
  <2>14. QED
    BY <1>5, <2>13 DEF Sealed, x, d, files
<1>12. QED
  BY <1>2, <1>8, <1>9, <1>10, <1>11 DEF Directories

LEMMA WithoutStepsLeaves ==
  ASSUME NEW x, NEW c, x.steps = <<>>
  PROVE  Leaving(x, c)
BY DEF Leaving, Ahead

(* The plan a process goes on with.                                        *)
LEMMA ProceedAdvances ==
  ASSUME TypeInv, NEW r \in Runs, Executing(r), Proceed(r)
  PROVE  /\ Advances(run[r], run'[r])
         /\ DOMAIN run[r].steps \subseteq Nat /\ run[r].next \in Nat
         /\ run[r].call \in 1..Len(StepCalls(NextStep(r))) /\ Len(StepCalls(NextStep(r))) \in Nat
         /\ run[r].next \in DOMAIN run[r].steps
<1>1. run \in [Runs -> RunRecords] /\ run[r] \in RunRecords
  BY DEF TypeInv, TypeOK
<1>2. DOMAIN run[r].steps \subseteq Nat /\ run[r].next \in Nat
  BY <1>1 DEF RunRecords, StepLists
<1>3. run[r].call \in 1..Len(StepCalls(NextStep(r))) /\ Len(StepCalls(NextStep(r))) \in Nat
      /\ run[r].next \in DOMAIN run[r].steps
  BY CallOfRun
<1>4. IF run[r].call < Len(StepCalls(NextStep(r)))
      THEN run'[r] = [run[r] EXCEPT !.call = run[r].call + 1]
      ELSE run'[r] = [run[r] EXCEPT !.next = run[r].next + 1, !.call = 1]
  BY <1>1 DEF Proceed
<1>5. Advances(run[r], run'[r])
  BY <1>1, <1>4 DEF Advances, RunRecords, NextStep
<1>6. QED
  BY <1>2, <1>3, <1>5

LEMMA CallOnFiles ==
  ASSUME TypeInv, NEW r \in Runs, Executing(r)
  PROVE  LET x == run[r]
             s == NextStep(r)
             k == NextCall(r)
         IN
         /\ DOMAIN x.steps \subseteq Nat /\ x.next \in Nat
         /\ k.op \in ServiceCalls => \A c \in Comps : x.next \notin Ahead(x, c)
         /\ k.op \notin ServiceCalls =>
               /\ k.comp = s.comp /\ s.comp \in Comps /\ IsCallOf(k, s, x.call)
               /\ x.next \in Ahead(x, s.comp)
               /\ \A c \in Comps \ {s.comp} : x.next \notin Ahead(x, c)
<1> DEFINE x == run[r]
           s == NextStep(r)
           k == NextCall(r)
<1>1. x \in RunRecords /\ s = x.steps[x.next]
  BY DEF TypeInv, TypeOK, NextStep
<1>2. DOMAIN x.steps \subseteq Nat /\ x.next \in Nat
  BY <1>1 DEF RunRecords, StepLists
<1>3. /\ Prescribed(s) /\ x.next \in DOMAIN x.steps /\ k = StepCalls(s)[x.call]
      /\ x.call \in DOMAIN StepCalls(s) /\ x.call \in 1..Len(StepCalls(s))
  BY CallOfRun
<1>. HIDE DEF x, s, k
<1>4. ASSUME k.op \in ServiceCalls, NEW c \in Comps PROVE x.next \notin Ahead(x, c)
  <2>1. s = HostReload \/ JobStep(s)
    BY <1>3, <1>4, CallsOfSteps DEF ServiceCalls, ComponentOps
  <2>2. s.comp = 0 \/ s.list = "service"
    BY <2>1 DEF HostReload, JobStep
  <2>3. QED
    BY <1>1, <2>2, MateriaAssumption DEF Ahead
<1>5. ASSUME k.op \notin ServiceCalls
      PROVE  /\ k.comp = s.comp /\ s.comp \in Comps /\ IsCallOf(k, s, x.call)
             /\ x.next \in Ahead(x, s.comp)
             /\ \A c \in Comps \ {s.comp} : x.next \notin Ahead(x, c)
  <2>1. /\ s.list = "resource" /\ s.comp \in Comps /\ k.comp = s.comp
        /\ \/ ComponentStep(s) /\ k.op \in ComponentOps /\ k.op = FileOps(s.kind, s.todo)[x.call]
           \/ /\ PathStep(s) /\ k.path = s.path /\ k.content = s.content /\ Len(StepCalls(s)) = 1
              /\ k.op = IF s.todo = "Remove" THEN "remove"
                        ELSE IF s.kind = "Directory" /\ s.todo = "Install" THEN "mkdir" ELSE "write"
    BY <1>5, CallEffects DEF s, k, x
  <2>2. IsCallOf(k, s, x.call)
    BY <1>3, <2>1 DEF IsCallOf
  <2>3. x.next >= x.next
    BY <1>2
  <2>4. QED
    BY <1>1, <1>3, <2>1, <2>2, <2>3 DEF Ahead
<1>6. QED
  BY <1>2, <1>4, <1>5 DEF x, s, k

LEMMA SourcesOfRevisions ==
  ASSUME NEW v \in Revisions, NEW c \in Comps
  PROVE  IsSource(FilesIn[v][c])
BY MateriaAssumption DEF IsSource

ArrivedWhole(c) ==
    ~Loads(disk[c]) /\ Loads(disk'[c]) =>
        \E v \in Revisions : HoldsFiles(disk'[c], FilesIn[v][c])

LEMMA SealedByRun ==
  ASSUME SealInv, NEW r \in Runs, StepOf(r), NEW c \in Comps
  PROVE  /\ Sealed(run'[r], c, disk'[c], FilesIn[cache'][c])
         /\ ArrivedWhole(c)
<1> DEFINE x == run[r]
           y == run'[r]
           d == disk[c]
           files == FilesIn[cache][c]
           s == NextStep(r)
           k == NextCall(r)
<1>1. TypeInv /\ d \in Directories /\ disk \in [Comps -> Directories] /\ Sealed(x, c, d, files)
  BY DEF SealInv, Sealing, TypeInv, TypeOK
<1>2. GetsPlan(r) \/ GoesOn(r) \/ MakesCall(r) \/ EndsPlan(r)
  BY <1>1, StepCases
<1>3. ASSUME Executing(r) PROVE cache \in Revisions /\ IsSource(files)
  <2>1. cache \in Revisions
    BY <1>1, <1>3 DEF Executing, At, TypeInv, TypeOK, Poised
  <2>2. QED
    BY <2>1, SourcesOfRevisions
<1>4. s = x.steps[x.next]
  BY DEF NextStep
<1>5. CASE GetsPlan(r)
  BY <1>5, PlanSeals DEF GetsPlan, ArrivedWhole
<1>6. CASE GoesOn(r)
  <2>1. disk' = disk /\ cache' = cache /\ y.steps = x.steps
    BY <1>6 DEF GoesOn, KeepsPlan
  <2>2. CASE y.next = x.next /\ y.call = x.call
    <3>1. DOMAIN x.steps \subseteq Nat /\ x.next \in Nat
      BY <1>1 DEF TypeInv, TypeOK, RunRecords, StepLists
    <3>. HIDE DEF x, y
    <3>2. Sealed(y, c, d, files)
      BY <1>1, <2>1, <2>2, <3>1, AheadElsewhere
    <3>3. QED
      BY <2>1, <3>2 DEF y, ArrivedWhole
  <2>3. CASE Executing(r) /\ Proceed(r) /\ k.op \in ServiceCalls
    <3>1. DOMAIN x.steps \subseteq Nat /\ x.next \in Nat /\ x.next \notin Ahead(x, c)
      BY <1>1, <2>3, CallOnFiles
    <3>2. Advances(x, y)
      BY <1>1, <2>3, ProceedAdvances
    <3>. HIDE DEF x, y
    <3>3. Sealed(y, c, d, files)
      BY <1>1, <2>1, <3>1, <3>2, AheadElsewhere DEF Advances
    <3>4. QED
      BY <2>1, <3>3 DEF y, ArrivedWhole
  <2>4. QED
    BY <1>6, <2>2, <2>3 DEF GoesOn
<1>7. CASE MakesCall(r)
  <2>1. /\ Executing(r) /\ Proceed(r) /\ k.op \notin ServiceCalls /\ cache' = cache
        /\ Applies(disk[k.comp], k) /\ disk' = [disk EXCEPT ![k.comp] = After(disk[k.comp], k)]
    BY <1>7 DEF MakesCall, KeepsPlan
  <2>2. /\ DOMAIN x.steps \subseteq Nat /\ x.next \in Nat
        /\ k.comp = s.comp /\ s.comp \in Comps /\ IsCallOf(k, s, x.call)
        /\ x.next \in Ahead(x, s.comp)
        /\ \A b \in Comps \ {s.comp} : x.next \notin Ahead(x, b)
    BY <1>1, <2>1, CallOnFiles
  <2>3. Advances(x, y)
    BY <1>1, <2>1, ProceedAdvances
  <2>4. CASE c = s.comp
    <3>1. disk'[c] = After(d, k) /\ Applies(d, k)
      BY <1>1, <2>1, <2>2, <2>4
    <3>2. IsSource(files) /\ cache \in Revisions
      BY <1>3, <2>1
    <3>. HIDE DEF x, y, d, files, s, k
    <3>3. x.next \in Ahead(x, c) /\ IsCallOf(k, x.steps[x.next], x.call)
      BY <1>4, <2>2, <2>4
    <3>4. /\ Sealed(y, c, After(d, k), files)
          /\ ~Loads(d) /\ Loads(After(d, k)) => HoldsFiles(After(d, k), files)
      BY <1>1, <2>2, <2>3, <3>1, <3>2, <3>3, CallSeals
    <3>5. QED
      BY <2>1, <3>1, <3>2, <3>4 DEF y, d, files, ArrivedWhole
  <2>5. CASE c # s.comp
    <3>1. disk'[c] = d /\ x.next \notin Ahead(x, c)
      BY <1>1, <2>1, <2>2, <2>5
    <3>. HIDE DEF x, y
    <3>2. Sealed(y, c, d, files)
      BY <1>1, <2>2, <2>3, <3>1, AheadElsewhere DEF Advances
    <3>3. QED
      BY <2>1, <3>1, <3>2 DEF y, ArrivedWhole
  <2>6. QED
    BY <2>4, <2>5
<1>8. CASE EndsPlan(r)
  <2>1. Leaving(y, c)
    BY <1>8, WithoutStepsLeaves DEF EndsPlan
  <2>2. SUFFICES Sound(disk'[c]) /\ ArrivedWhole(c)
    BY <2>1 DEF Sealed
  <2>3. CASE disk' = disk
    BY <1>1, <2>3 DEF Sealed, ArrivedWhole
  <2>4. CASE \E b \in Comps : Purge(r, b)
    <3>1. disk'[c] \in {d, NoComponent}
      BY <1>1, <2>4 DEF Purge
    <3>2. QED
      BY <1>1, <3>1, SoundNoComponent DEF Sealed, ArrivedWhole
  <2>5. CASE TearsWrite(r)
    <3>1. Executing(r) /\ k.op \notin ServiceCalls
          /\ disk' = [disk EXCEPT ![k.comp] = Torn(disk[k.comp], k)]
      BY <2>5 DEF TearsWrite
    <3>2. /\ DOMAIN x.steps \subseteq Nat /\ x.next \in Nat
          /\ k.comp = s.comp /\ s.comp \in Comps /\ IsCallOf(k, s, x.call)
          /\ x.next \in Ahead(x, s.comp)
      BY <1>1, <3>1, CallOnFiles
    <3>3. CASE c = s.comp
      <4>1. disk'[c] = Torn(d, k)
        BY <1>1, <3>1, <3>2, <3>3
      <4>2. cache \in Revisions
        BY <1>3, <3>1
      <4>. HIDE DEF x, y, d, files, s, k
      <4>3. /\ d \in Directories /\ Sealed(x, c, d, files) /\ DOMAIN x.steps \subseteq Nat
            /\ x.next \in Ahead(x, c) /\ s = x.steps[x.next] /\ IsCallOf(k, s, x.call)
        BY <1>1, <1>4, <3>2, <3>3
      <4>4. /\ Sound(Torn(d, k))
            /\ ~Loads(d) /\ Loads(Torn(d, k)) => HoldsFiles(Torn(d, k), files)
        BY <4>3, TornSeals
      <4>5. QED
        BY <4>1, <4>2, <4>4 DEF d, files, ArrivedWhole
    <3>4. CASE c # s.comp
      <4>1. disk'[c] = d
        BY <1>1, <3>1, <3>2, <3>4
      <4>2. QED
        BY <1>1, <4>1 DEF Sealed, ArrivedWhole
    <3>5. QED
      BY <3>3, <3>4
  <2>6. QED
    BY <1>8, <2>3, <2>4, <2>5 DEF EndsPlan
<1>9. QED
  BY <1>2, <1>5, <1>6, <1>7, <1>8

(* The doctor waits for the process to end; a drop-in is only written for  *)
(* a component that has its manifest.                                      *)
LEMMA EnvironmentArrivesNone ==
  ASSUME TypeInv, NEW c \in Comps,
         (\E b \in Comps : RunDoctor(b) \/ WriteDropin(b)) \/ Commit \/ UNCHANGED vars
  PROVE  \/ disk'[c] = disk[c]
         \/ disk'[c] = NoComponent /\ \E r \in Runs : At(r, "idle")
         \/ Loads(disk[c]) /\ \E p \in Paths : disk'[c] = WithDropin(disk[c], p)
<1>1. disk \in [Comps -> Directories]
  BY DEF TypeInv, TypeOK
<1>2. ASSUME NEW b \in Comps, RunDoctor(b)
      PROVE  disk'[c] = disk[c] \/ (disk'[c] = NoComponent /\ \E r \in Runs : At(r, "idle"))
  BY <1>1, <1>2 DEF RunDoctor
<1>3. ASSUME NEW b \in Comps, WriteDropin(b)
      PROVE  \/ disk'[c] = disk[c]
             \/ Loads(disk[c]) /\ \E p \in Paths : disk'[c] = WithDropin(disk[c], p)
  <2>1. PICK p \in Paths : disk' = [disk EXCEPT ![b] = WithDropin(disk[b], p)]
    BY <1>3 DEF WriteDropin
  <2>2. Loads(disk[b])
    BY <1>3 DEF WriteDropin
  <2>3. QED
    BY <1>1, <2>1, <2>2
<1>4. CASE Commit \/ UNCHANGED vars
  BY <1>4 DEF Commit, vars
<1>5. QED
  BY <1>2, <1>3, <1>4

LEMMA SealedByEnvironment ==
  ASSUME \A r, s \in Runs : r = s, SealInv, NEW c \in Comps,
         (\E b \in Comps : RunDoctor(b) \/ WriteDropin(b)) \/ Commit \/ UNCHANGED vars
  PROVE  /\ \A r \in Runs : Sealed(run'[r], c, disk'[c], FilesIn[cache'][c])
         /\ ArrivedWhole(c)
<1> DEFINE d == disk[c]
           files == FilesIn[cache][c]
<1>1. /\ TypeInv /\ d \in Directories
      /\ \A r \in Runs : Sealed(run[r], c, d, files)
  BY DEF SealInv, Sealing, TypeInv, TypeOK
<1>2. run' = run /\ cache' = cache
  BY <1>1, EnvironmentTyped
<1>3. CASE disk'[c] = d
  BY <1>1, <1>2, <1>3 DEF ArrivedWhole
<1>4. CASE disk'[c] = NoComponent /\ \E r \in Runs : At(r, "idle")
  <2>1. \A r \in Runs : run[r].steps = <<>>
    BY <1>1, <1>4 DEF TypeInv, TypeOK, Poised, At
  <2>2. QED
    BY <1>2, <1>4, <2>1, SoundNoComponent, WithoutStepsLeaves DEF Sealed, ArrivedWhole
<1>5. CASE Loads(d) /\ \E p \in Paths : disk'[c] = WithDropin(d, p)
  <2>1. Loads(disk'[c]) /\ Sound(disk'[c])
    BY <1>1, <1>5, DropinLoads, SoundWithDropin
  <2>2. \A r \in Runs : ~Arriving(run[r], c, d, files)
    BY <1>5 DEF Arriving, Loads
  <2>3. \A r \in Runs : Sealed(run[r], c, disk'[c], files)
    BY <1>1, <2>1, <2>2 DEF Sealed, Staying
  <2>4. QED
    BY <1>2, <1>5, <2>3 DEF ArrivedWhole
<1>6. QED
  BY <1>1, <1>3, <1>4, <1>5, EnvironmentArrivesNone

(* One process at work, whatever stops it, at whatever call: a component   *)
(* gets its manifest only when it holds all the source has for it, so what *)
(* Plan takes for installed was installed to the end.                      *)
THEOREM InstalledWhole ==
  ASSUME \A r, s \in Runs : r = s
  PROVE  Spec => ManifestSeals
<1> DEFINE Whole == \A c \in Comps : ArrivedWhole(c)
<1>1. Init => SealInv
  <2>1. SUFFICES ASSUME Init PROVE SealInv
    OBVIOUS
  <2>2. /\ TypeInv /\ \A c \in Comps : disk[c] = NoComponent
        /\ \A r \in Runs : run[r] = Resting("none")
    BY <2>1, TypesInitial DEF Init
  <2>3. Resting("none").steps = <<>>
    BY DEF Resting
  <2>4. QED
    BY <2>2, <2>3, SoundNoComponent, WithoutStepsLeaves DEF SealInv, Sealing, Sealed
<1>2. ASSUME SealInv, [Next]_vars PROVE SealInv' /\ (Whole \/ UNCHANGED vars)
  <2>1. TypeInv'
    BY <1>2, TypesKept DEF SealInv
  <2>2. CASE \E r \in Runs : StepOf(r)
    <3>1. PICK r \in Runs : StepOf(r)
      BY <2>2
    <3>2. \A c \in Comps : Sealed(run'[r], c, disk'[c], FilesIn[cache'][c]) /\ ArrivedWhole(c)
      BY <1>2, <3>1, SealedByRun
    <3>3. Sealing'
      BY <3>2 DEF Sealing
    <3>4. QED
      BY <2>1, <3>2, <3>3 DEF SealInv
  <2>3. CASE (\E b \in Comps : RunDoctor(b) \/ WriteDropin(b)) \/ Commit \/ UNCHANGED vars
    <3>1. \A c \in Comps :
             /\ \A r \in Runs : Sealed(run'[r], c, disk'[c], FilesIn[cache'][c])
             /\ ArrivedWhole(c)
      BY <1>2, <2>3, SealedByEnvironment
    <3>2. Sealing'
      BY <3>1 DEF Sealing
    <3>3. QED
      BY <2>1, <3>1, <3>2 DEF SealInv
  <2>4. QED
    BY <1>2, <2>2, <2>3 DEF Next, StepOf
<1>3. SealInv /\ [Next]_vars => SealInv' /\ [Whole]_vars
  BY <1>2
<1>. HIDE DEF Whole
<1>4. Spec => [][Whole]_vars
  BY <1>1, <1>3, PTL DEF Spec
<1>5. QED
  BY <1>4 DEF ManifestSeals, Whole, ArrivedWhole, HoldsFiles

-----------------------------------------------------------------------------
(* One process nothing interrupts                                          *)

Left(x) == {k \in DOMAIN x.steps : k >= x.next}

Wanted(files, mine, p) == IF mine THEN files[p] ELSE Absent

(* A step makes of a path what the component is to hold there, or makes or *)
(* removes its directories.                                                *)
Fits(s, files, mine) ==
    IF s.kind = "Component"
    THEN s.path = 0 /\ s.todo = IF mine THEN "Install" ELSE "Remove"
    ELSE /\ s.path \in Paths \ Dropins /\ s.kind = KindOf[s.path]
         /\ Wanted(files, mine, s.path) = IF s.todo = "Remove" THEN Absent ELSE s.content
         /\ s.todo # "Remove" => s.content # Absent

AtHome(d) == d.data /\ d.quadlets /\ d.managed /\ d.version = "current"

Gone(d) == ~d.data /\ ~d.quadlets /\ ~d.managed

(* The directories of a component after i - 1 calls of the step that makes *)
(* or removes them.                                                        *)
HomeAt(d, mine, i) ==
    IF mine
    THEN /\ d.data <=> i > 1
         /\ d.quadlets <=> i > 2
         /\ d.managed <=> i > 3
    ELSE /\ i = 1 => d.version # "none"
         /\ d.data <=> i <= 2
         /\ d.managed <=> i <= 3
         /\ d.quadlets

HomeOnCourse(x, c, d, mine) ==
    /\ (\A k \in Ahead(x, c) : x.steps[k].kind # "Component") =>
          IF mine THEN AtHome(d) ELSE Gone(d)
    /\ \A k \in Ahead(x, c) :
          x.steps[k].kind = "Component" => HomeAt(d, mine, IF k = x.next THEN x.call ELSE 1)

(* What is ahead for a component is all it lacks, in an order in which     *)
(* each call applies.                                                      *)
OnCourse(x, c, d, files, mine) ==
    /\ mine => files[Manifest] # Absent
    /\ ~mine => \A p \in Dropins : d.at[p] = Absent
    /\ \A k \in Ahead(x, c) : Fits(x.steps[k], files, mine)
    /\ \A k \in Ahead(x, c) : x.steps[k].kind # "Component" =>
          (x.steps[k].todo = "Install" <=> d.at[x.steps[k].path] = Absent)
    /\ \A j, k \in Ahead(x, c) : x.steps[j].path = x.steps[k].path => j = k
    /\ \A j, k \in Ahead(x, c) : MustPrecede(x.steps[j], x.steps[k], mine) => j < k
    /\ \A p \in Paths \ Dropins :
          (\A k \in Ahead(x, c) : x.steps[k].path # p) => d.at[p] = Wanted(files, mine, p)
    /\ HomeOnCourse(x, c, d, mine)

Settled(d) ==
    IF d.data THEN AtHome(d) /\ d.at[Manifest] # Absent
    ELSE Gone(d) /\ \A p \in Paths : d.at[p] = Absent

(* systemd has the units that are on the disk.                             *)
UnitsAreFiles(hosts, units) ==
    \A c \in Comps, p \in Containers : units[c].loaded[p] = hosts[c].at[p]

JobFits(s, units, files, mine) ==
    /\ s.comp \in Comps /\ s.path \in Paths
    /\ IF s.todo = "Stop" THEN units[s.comp].loaded[s.path] # Absent
       ELSE mine[s.comp] /\ s.path \in Containers /\ files[s.comp][s.path] # Absent

(* A unit is stopped before its files change, started from what they then  *)
(* are: until no daemon-reload is ahead the units may be older.            *)
UnitsOnCourse(x, hosts, units, files, mine) ==
    /\ \A k \in Left(x) : x.steps[k].list = "service" => JobFits(x.steps[k], units, files, mine)
    /\ \A j, k \in Left(x) : x.steps[j].list = "service" /\ x.steps[k].list = "resource" =>
          IF x.steps[j].todo = "Stop" THEN j < k ELSE k < j
    /\ \A k \in Left(x) : x.steps[k].list = "resource" =>
          \E m \in Left(x) : x.steps[m] = HostReload /\ k <= m
    /\ (\A k \in Left(x) : x.steps[k] # HostReload) => UnitsAreFiles(hosts, units)

MineOf(v) == [c \in Comps |-> c \in AssignedIn[v]]

AtRest(hosts, units) == UnitsAreFiles(hosts, units) /\ \A c \in Comps : Settled(hosts[c])

UnderWay(x, hosts, units, files, mine) ==
    /\ \A c \in Comps : OnCourse(x, c, hosts[c], files[c], mine[c])
    /\ UnitsOnCourse(x, hosts, units, files, mine)

OnTrack(x, hosts, units, v) ==
    /\ x.outcome # "refused" /\ x.invalid = {}
    /\ x.pc \in {"planned", "executing"} =>
          UnderWay(x, hosts, units, FilesIn[v], MineOf(x.manifest))
    /\ x.pc \notin {"planned", "executing"} => AtRest(hosts, units)

FromSource(c, d) ==
    \A p \in Paths \ Dropins : d.at[p] # Absent => \E v \in Revisions : FilesIn[v][c][p] # Absent

(* What is in a directory needs it.                                        *)
Nested(d) == \A p \in Held(d) : Within[p] # 0 => d.at[Within[p]] # Absent

Steady ==
    /\ \A c \in Comps : FromSource(c, disk[c]) /\ Nested(disk[c])
    /\ \A r \in Runs : OnTrack(run[r], disk, live, cache)

Uninterrupted == faults = 0 /\ crashes = 0

-----------------------------------------------------------------------------
(* A course and the calls of its component *)

(* What a course says of one step ahead.                                   *)
LEMMA CourseOfStep ==
  ASSUME NEW x, NEW c \in Comps, NEW d, NEW files, NEW mine, OnCourse(x, c, d, files, mine),
         NEW k \in Ahead(x, c)
  PROVE  LET s == x.steps[k] IN
         /\ s.kind = "Component" => /\ s.path = 0 /\ s.path \notin Paths
                                    /\ s.todo = IF mine THEN "Install" ELSE "Remove"
         /\ s.kind # "Component" =>
               /\ s.path \in Paths /\ s.path \notin Dropins /\ s.path # 0
               /\ s.kind = KindOf[s.path]
               /\ s.todo = "Remove" => Wanted(files, mine, s.path) = Absent
               /\ s.todo # "Remove" => /\ Wanted(files, mine, s.path) = s.content
                                       /\ s.content # Absent
               /\ s.todo = "Install" <=> d.at[s.path] = Absent
<1>1. Fits(x.steps[k], files, mine)
  BY DEF OnCourse
<1>2. 0 \notin Paths
  BY RepositoryAssumption
<1>3. x.steps[k].kind # "Component" => (x.steps[k].todo = "Install" <=> d.at[x.steps[k].path] = Absent)
  BY DEF OnCourse
<1>4. QED
  BY <1>1, <1>2, <1>3 DEF Fits

(* A step elsewhere, or none, changes nothing of the course.               *)
LEMMA CourseGoesOn ==
  ASSUME NEW x, NEW y, NEW c \in Comps, NEW d, NEW files, NEW mine, OnCourse(x, c, d, files, mine),
         y.steps = x.steps, DOMAIN x.steps \subseteq Nat, x.next \in Nat,
         \/ y.next = x.next /\ y.call = x.call
         \/ y.next = x.next /\ x.next \notin Ahead(x, c)
         \/ y.next = x.next + 1 /\ y.call = 1 /\ x.next \notin Ahead(x, c)
  PROVE  OnCourse(y, c, d, files, mine)
<1>1. Ahead(y, c) = Ahead(x, c) /\ \A k \in Ahead(x, c) : k \in Nat /\ k >= x.next
  BY AheadShrinks
<1>2. ASSUME NEW k \in Ahead(x, c)
      PROVE  (IF k = y.next THEN y.call ELSE 1) = (IF k = x.next THEN x.call ELSE 1)
  BY <1>1
<1>3. HomeOnCourse(y, c, d, mine)
  <2>1. HomeOnCourse(x, c, d, mine)
    BY DEF OnCourse
  <2>2. (\A k \in Ahead(y, c) : y.steps[k].kind # "Component") => IF mine THEN AtHome(d) ELSE Gone(d)
    BY <1>1, <2>1 DEF HomeOnCourse
  <2>3. ASSUME NEW k \in Ahead(y, c), y.steps[k].kind = "Component"
        PROVE  HomeAt(d, mine, IF k = y.next THEN y.call ELSE 1)
    BY <1>1, <1>2, <2>1, <2>3 DEF HomeOnCourse
  <2>4. QED
    BY <2>2, <2>3 DEF HomeOnCourse
<1>4. QED
  BY <1>1, <1>3 DEF OnCourse

(* A component that leaves holds nothing when its directories go.          *)
LEMMA RemovedEmpty ==
  ASSUME NEW x, NEW c \in Comps, NEW d, NEW files, OnCourse(x, c, d, files, FALSE),
         x.next \in Ahead(x, c), x.next \in Nat, DOMAIN x.steps \subseteq Nat,
         x.steps[x.next].kind = "Component"
  PROVE  \A p \in Paths : d.at[p] = Absent
<1>1. SUFFICES ASSUME NEW p \in Paths, p \notin Dropins PROVE d.at[p] = Absent
  BY DEF OnCourse
<1>2. x.steps[x.next].todo = "Remove" /\ x.steps[x.next].path = 0
  BY CourseOfStep
<1>3. ASSUME NEW k \in Ahead(x, c), x.steps[k].path = p PROVE FALSE
  <2>1. x.steps[k] # x.steps[x.next] /\ p # 0
    BY <1>2, <1>3, RepositoryAssumption
  <2>2. MustPrecede(x.steps[k], x.steps[x.next], FALSE)
    BY <1>2, <2>1 DEF MustPrecede
  <2>3. k < x.next
    BY <2>2 DEF OnCourse
  <2>4. QED
    BY <2>3 DEF Ahead
<1>4. d.at[p] = Wanted(files, FALSE, p)
  BY <1>1, <1>3 DEF OnCourse
<1>5. QED
  BY <1>4 DEF Wanted

(* The calls that make or remove the directories of a component.           *)
LEMMA HomeCalls ==
  ASSUME NEW s, ComponentStep(s), NEW i \in 1..Len(StepCalls(s)), s.todo # "Update"
  PROVE  /\ Len(StepCalls(s)) = 4 /\ i \in 1..4
         /\ s.todo = "Install" =>
               FileOps(s.kind, s.todo)[i] =
                  <<"mkdirData", "mkdirQuadlets", "writeManaged", "writeVersion">>[i]
         /\ s.todo = "Remove" =>
               FileOps(s.kind, s.todo)[i] =
                  <<"removeVersion", "rmdirData", "removeManaged", "rmdirQuadlets">>[i]
<1> DEFINE ops == FileOps(s.kind, s.todo)
<1>1. StepCalls(s) = [j \in DOMAIN ops |-> Call(ops[j], s.comp, s.path, s.content)]
  BY DEF StepCalls, FileCalls, ComponentStep
<1>2. /\ s.todo = "Install" => ops = <<"mkdirData", "mkdirQuadlets", "writeManaged", "writeVersion">>
      /\ s.todo = "Remove" => ops = <<"removeVersion", "rmdirData", "removeManaged", "rmdirQuadlets">>
      /\ s.todo \in {"Install", "Remove"}
  BY DEF FileOps, ComponentStep, FileTodos
<1>. HIDE DEF ops
<1>3. DOMAIN ops = 1..4
  BY <1>2
<1>4. Len(StepCalls(s)) = 4
  BY <1>1, <1>3
<1>5. QED
  BY <1>2, <1>4 DEF ops

LEMMA HomeApplies ==
  ASSUME NEW d \in Directories, NEW mine \in BOOLEAN, NEW i \in 1..4, HomeAt(d, mine, i), NEW k,
         k.op = IF mine THEN <<"mkdirData", "mkdirQuadlets", "writeManaged", "writeVersion">>[i]
                ELSE <<"removeVersion", "rmdirData", "removeManaged", "rmdirQuadlets">>[i],
         ~mine => \A p \in Paths : d.at[p] = Absent
  PROVE  /\ Applies(d, k)
         /\ i < 4 => HomeAt(After(d, k), mine, i + 1)
         /\ i = 4 => IF mine THEN AtHome(After(d, k)) ELSE Gone(After(d, k))
         /\ After(d, k).at = d.at
<1>1. ~mine => Held(d) = {}
  BY DEF Held
<1>2. i = 1 \/ i = 2 \/ i = 3 \/ i = 4
  OBVIOUS
<1>3. CASE mine
  <2>1. CASE i = 1
    BY <1>3, <2>1 DEF HomeAt, Applies, After, Directories
  <2>2. CASE i = 2
    BY <1>3, <2>2 DEF HomeAt, Applies, After, Directories
  <2>3. CASE i = 3
    BY <1>3, <2>3 DEF HomeAt, Applies, After, Directories
  <2>4. CASE i = 4
    BY <1>3, <2>4 DEF HomeAt, Applies, After, Directories, AtHome
  <2>5. QED
    BY <1>2, <2>1, <2>2, <2>3, <2>4
<1>4. CASE ~mine
  <2>1. CASE i = 1
    BY <1>4, <2>1 DEF HomeAt, Applies, After, Directories
  <2>2. CASE i = 2
    BY <1>1, <1>4, <2>2 DEF HomeAt, Applies, After, Directories
  <2>3. CASE i = 3
    BY <1>4, <2>3 DEF HomeAt, Applies, After, Directories
  <2>4. CASE i = 4
    BY <1>1, <1>4, <2>4 DEF HomeAt, Applies, After, Directories, Gone
  <2>5. QED
    BY <1>2, <2>1, <2>2, <2>3, <2>4
<1>5. QED
  BY <1>3, <1>4

(* The source walks its directories: what is in one comes with it.         *)
Rooted(files) ==
    \A p \in Paths : files[p] # Absent /\ Within[p] # 0 => files[Within[p]] # Absent

(* No directory a component holds in another one outlives that.            *)
KeepsNests(d, files) ==
    \A q \in Paths : /\ KindOf[q] = "Directory" /\ Within[q] # 0 /\ d.at[q] # Absent
                     /\ files[Manifest] # Absent
                     => files[Within[q]] # Absent

LEMMA HomeReady ==
  ASSUME NEW x, NEW c \in Comps, NEW d, NEW files, OnCourse(x, c, d, files, TRUE),
         x.next \in Ahead(x, c), x.next \in Nat, DOMAIN x.steps \subseteq Nat,
         x.steps[x.next].kind # "Component"
  PROVE  d.data /\ d.quadlets
<1>1. ASSUME NEW k \in Ahead(x, c), x.steps[k].kind = "Component" PROVE FALSE
  <2>1. x.steps[k].todo = "Install" /\ x.steps[x.next] # x.steps[k]
    BY <1>1, CourseOfStep
  <2>2. MustPrecede(x.steps[k], x.steps[x.next], TRUE)
    BY <1>1, <2>1 DEF MustPrecede
  <2>3. k < x.next
    BY <2>2 DEF OnCourse
  <2>4. QED
    BY <2>3 DEF Ahead
<1>2. QED
  BY <1>1 DEF OnCourse, HomeOnCourse, AtHome

(* What is written goes into a directory that is there.                    *)
LEMMA WriteApplies ==
  ASSUME NEW x, NEW c \in Comps, NEW d \in Directories, NEW files, NEW mine \in BOOLEAN,
         OnCourse(x, c, d, files, mine), Rooted(files), Nested(d),
         x.next \in Ahead(x, c), x.next \in Nat, DOMAIN x.steps \subseteq Nat,
         x.steps[x.next].kind # "Component", x.steps[x.next].todo \in {"Install", "Update"}
  PROVE  LET p == x.steps[x.next].path IN
         /\ HomeExists(d, p) /\ mine /\ files[p] = x.steps[x.next].content /\ files[p] # Absent
         /\ p \in Paths \ Dropins
         /\ x.steps[x.next].todo = "Install" <=> d.at[p] = Absent
         /\ d.data
<1> DEFINE s == x.steps[x.next]
           p == s.path
<1>1. /\ p \in Paths /\ p \notin Dropins /\ Wanted(files, mine, p) = s.content /\ s.content # Absent
      /\ s.todo = "Install" <=> d.at[p] = Absent
  BY CourseOfStep
<1>2. mine /\ files[p] = s.content
  BY <1>1 DEF Wanted
<1>3. d.data /\ d.quadlets
  BY <1>2, HomeReady
<1>4. ASSUME Within[p] # 0 PROVE d.at[Within[p]] # Absent
  <2> DEFINE q == Within[p]
  <2>1. q \in Paths /\ KindOf[q] = "Directory" /\ files[q] # Absent
    BY <1>1, <1>2, <1>4, RepositoryAssumption DEF Rooted, Dropins
  <2>2. q \notin Dropins
    BY <2>1 DEF Dropins
  <2>3. Wanted(files, mine, q) # Absent
    BY <1>2, <2>1 DEF Wanted
  <2>4. CASE \A k \in Ahead(x, c) : x.steps[k].path # q
    BY <2>1, <2>2, <2>3, <2>4 DEF OnCourse
  <2>5. ASSUME NEW k \in Ahead(x, c), x.steps[k].path = q PROVE d.at[q] # Absent
    <3>1. /\ x.steps[k].kind # "Component"
          /\ x.steps[k].todo = "Install" <=> d.at[q] = Absent
      BY <2>1, <2>5, CourseOfStep
    <3>2. SUFFICES ASSUME x.steps[k].todo = "Install" PROVE FALSE
      BY <3>1
    <3>4. s.todo # "Install" => d.at[p] # Absent
      BY <1>1
    <3>5. CASE s.todo = "Install"
      <4>1. MustPrecede(x.steps[k], s, mine)
        BY <1>1, <2>5, <3>2, <3>5 DEF MustPrecede
      <4>2. k < x.next
        BY <4>1 DEF OnCourse
      <4>3. QED
        BY <4>2 DEF Ahead
    <3>6. CASE s.todo = "Update"
      BY <1>1, <1>4, <2>5, <3>1, <3>2, <3>4, <3>6 DEF Nested, Held
    <3>7. QED
      BY <3>5, <3>6
  <2>6. QED
    BY <2>4, <2>5
<1>5. HomeExists(d, p)
  BY <1>3, <1>4 DEF HomeExists
<1>6. QED
  BY <1>1, <1>2, <1>3, <1>5

(* What is removed is there, and holds nothing any more.                   *)
LEMMA RemoveApplies ==
  ASSUME NEW x, NEW c \in Comps, NEW d \in Directories, NEW files, NEW mine \in BOOLEAN,
         OnCourse(x, c, d, files, mine), Rooted(files), mine => KeepsNests(d, files),
         x.next \in Ahead(x, c), x.next \in Nat, DOMAIN x.steps \subseteq Nat,
         x.steps[x.next].kind # "Component", x.steps[x.next].todo = "Remove"
  PROVE  LET p == x.steps[x.next].path IN
         /\ p \in Paths \ Dropins /\ Wanted(files, mine, p) = Absent
         /\ d.at[p] # Absent /\ \A q \in Held(d) : Within[q] # p
<1> DEFINE s == x.steps[x.next]
           p == s.path
<1>1. /\ p \in Paths /\ p \notin Dropins /\ Wanted(files, mine, p) = Absent
      /\ d.at[p] # Absent /\ p # 0
  BY CourseOfStep
<1>2. ASSUME NEW q \in Held(d), Within[q] = p PROVE FALSE
  <2>1. q \in Paths /\ d.at[q] # Absent
    BY DEF Held
  <2>2. q \notin Dropins /\ q # p /\ KindOf[p] = "Directory"
    BY <1>1, <1>2, <2>1, RepositoryAssumption DEF Dropins
  <2>3. Wanted(files, mine, q) = Absent
    BY <1>1, <1>2, <2>1 DEF Wanted, Rooted
  <2>4. PICK k \in Ahead(x, c) : x.steps[k].path = q
    BY <2>1, <2>2, <2>3 DEF OnCourse
  <2>5. x.steps[k].kind # "Component" /\ x.steps[k].todo = "Remove"
    <3>1. x.steps[k].kind # "Component"
      BY <2>1, <2>4, CourseOfStep
    <3>2. QED
      BY <2>3, <2>4, <3>1, CourseOfStep
  <2>6. CASE mine => x.steps[k].kind # "Directory"
    <3>1. MustPrecede(x.steps[k], s, mine)
      BY <1>2, <2>1, <2>4, <2>5, <2>6 DEF MustPrecede
    <3>2. k < x.next
      BY <3>1 DEF OnCourse
    <3>3. QED
      BY <3>2 DEF Ahead
  <2>7. CASE mine /\ KindOf[q] = "Directory"
    <3>1. files[Manifest] # Absent
      BY <2>7 DEF OnCourse
    <3>2. files[p] # Absent
      BY <1>1, <1>2, <2>1, <2>7, <3>1 DEF KeepsNests
    <3>3. QED
      BY <1>1, <2>7, <3>2 DEF Wanted
  <2>8. x.steps[k].kind = KindOf[q]
    BY <2>4, <2>5, CourseOfStep
  <2>9. QED
    BY <2>6, <2>7, <2>8
<1>3. QED
  BY <1>1, <1>2

(* A path that got what it is to hold.                                     *)
LEMMA PathDone ==
  ASSUME NEW x, NEW y, NEW c \in Comps, NEW d \in Directories, NEW files, NEW mine \in BOOLEAN,
         OnCourse(x, c, d, files, mine),
         x.next \in Ahead(x, c), x.next \in Nat, DOMAIN x.steps \subseteq Nat,
         x.steps[x.next].kind # "Component",
         y.steps = x.steps, y.next = x.next + 1, y.call = 1
  PROVE  LET p == x.steps[x.next].path IN
         OnCourse(y, c, [d EXCEPT !.at[p] = Wanted(files, mine, p)], files, mine)
<1> DEFINE p == x.steps[x.next].path
           e == [d EXCEPT !.at[p] = Wanted(files, mine, p)]
<1>1. p \in Paths /\ p \notin Dropins
  BY CourseOfStep
<1>2. /\ e.data = d.data /\ e.quadlets = d.quadlets /\ e.managed = d.managed
      /\ e.version = d.version /\ e.at[p] = Wanted(files, mine, p)
      /\ \A q \in Paths : q # p => e.at[q] = d.at[q]
  BY <1>1 DEF Directories
<1>. HIDE DEF e
<1>3. Ahead(y, c) = Ahead(x, c) \ {x.next} /\ \A k \in Ahead(x, c) : k \in Nat /\ k >= x.next
  BY AheadShrinks
<1>4. HomeOnCourse(y, c, e, mine)
  <2>1. HomeOnCourse(x, c, d, mine)
    BY DEF OnCourse
  <2>2. ASSUME \A k \in Ahead(y, c) : y.steps[k].kind # "Component"
        PROVE  IF mine THEN AtHome(e) ELSE Gone(e)
    <3>1. IF mine THEN AtHome(d) ELSE Gone(d)
      BY <1>3, <2>1, <2>2 DEF HomeOnCourse
    <3>2. QED
      BY <1>2, <3>1 DEF AtHome, Gone
  <2>3. ASSUME NEW k \in Ahead(y, c), y.steps[k].kind = "Component"
        PROVE  HomeAt(e, mine, IF k = y.next THEN y.call ELSE 1)
    <3>1. HomeAt(d, mine, IF k = x.next THEN x.call ELSE 1) /\ k # x.next
      BY <1>3, <2>1, <2>3 DEF HomeOnCourse
    <3>2. HomeAt(d, mine, 1) /\ (IF k = y.next THEN y.call ELSE 1) = 1
      BY <3>1
    <3>3. HomeAt(e, mine, 1)
      BY <1>2, <3>2 DEF HomeAt
    <3>4. QED
      BY <3>2, <3>3
  <2>4. QED
    BY <2>2, <2>3 DEF HomeOnCourse
<1>5. ASSUME NEW k \in Ahead(y, c), x.steps[k].kind # "Component"
      PROVE  x.steps[k].path # p /\ e.at[x.steps[k].path] = d.at[x.steps[k].path]
  <2>1. x.steps[k].path # p
    BY <1>3 DEF OnCourse
  <2>2. x.steps[k].path \in Paths
    BY <1>3, <1>5, CourseOfStep
  <2>3. QED
    BY <1>2, <2>1, <2>2
<1>6. \A k \in Ahead(y, c) : y.steps[k].kind # "Component" =>
         (y.steps[k].todo = "Install" <=> e.at[y.steps[k].path] = Absent)
  BY <1>3, <1>5 DEF OnCourse
<1>7. ASSUME NEW q \in Paths \ Dropins, \A k \in Ahead(y, c) : y.steps[k].path # q
      PROVE  e.at[q] = Wanted(files, mine, q)
  <2>1. CASE q = p
    BY <1>2, <2>1
  <2>2. CASE q # p
    <3>1. \A k \in Ahead(x, c) : x.steps[k].path # q
      BY <1>3, <1>7, <2>2
    <3>2. QED
      BY <1>2, <2>2, <3>1 DEF OnCourse
  <2>3. QED
    BY <2>1, <2>2
<1>8. ~mine => \A q \in Dropins : e.at[q] = Absent
  BY <1>1, <1>2 DEF OnCourse, Dropins
<1>9. OnCourse(y, c, e, files, mine)
  BY <1>3, <1>4, <1>6, <1>7, <1>8 DEF OnCourse
<1>10. QED
  BY <1>9 DEF e

(* Each call of a step applies and keeps the course.                       *)
LEMMA CallKeepsCourse ==
  ASSUME NEW x, NEW y, NEW c \in Comps, NEW d \in Directories, NEW files, NEW mine \in BOOLEAN,
         NEW k, OnCourse(x, c, d, files, mine), IsSource(files), Rooted(files), Nested(d),
         mine => KeepsNests(d, files),
         x.next \in Ahead(x, c), x.next \in Nat, DOMAIN x.steps \subseteq Nat,
         IsCallOf(k, x.steps[x.next], x.call), Advances(x, y)
  PROVE  /\ Applies(d, k)
         /\ OnCourse(y, c, After(d, k), files, mine)
         /\ \A p \in Paths : \/ After(d, k).at[p] = d.at[p] \/ After(d, k).at[p] = Absent
                             \/ mine /\ files[p] # Absent
         /\ Nested(After(d, k))
<1> DEFINE s == x.steps[x.next]
           i == x.call
<1>1. CASE ComponentStep(s)
  <2>1. /\ i \in 1..Len(StepCalls(s)) /\ k.op = FileOps(s.kind, s.todo)[i]
        /\ s.kind = "Component"
    BY <1>1 DEF IsCallOf, ComponentStep, PathStep
  <2>2. s.path = 0 /\ s.path \notin Paths /\ s.todo = IF mine THEN "Install" ELSE "Remove"
    BY <2>1, CourseOfStep
  <2>3. /\ Len(StepCalls(s)) = 4 /\ i \in 1..4
        /\ k.op = IF mine THEN <<"mkdirData", "mkdirQuadlets", "writeManaged", "writeVersion">>[i]
                  ELSE <<"removeVersion", "rmdirData", "removeManaged", "rmdirQuadlets">>[i]
    BY <1>1, <2>1, <2>2, HomeCalls
  <2>4. HomeAt(d, mine, i)
    BY <2>1 DEF OnCourse, HomeOnCourse
  <2>5. ~mine => \A p \in Paths : d.at[p] = Absent
    BY <2>1, RemovedEmpty
  <2> DEFINE e == After(d, k)
  <2>6. /\ Applies(d, k)
        /\ i < 4 => HomeAt(e, mine, i + 1)
        /\ i = 4 => IF mine THEN AtHome(e) ELSE Gone(e)
        /\ e.at = d.at
    BY <2>3, <2>4, <2>5, HomeApplies
  <2>. HIDE DEF e
  <2>7. /\ y.steps = x.steps
        /\ i < 4 => y.next = x.next /\ y.call = i + 1 /\ Ahead(y, c) = Ahead(x, c)
        /\ i = 4 => y.next = x.next + 1 /\ y.call = 1 /\ Ahead(y, c) = Ahead(x, c) \ {x.next}
        /\ Ahead(y, c) \subseteq Ahead(x, c)
        /\ \A j \in Ahead(x, c) : j # x.next => j \in Ahead(y, c)
    <3>1. y.steps = x.steps /\ (i < 4 => y.next = x.next /\ y.call = i + 1)
          /\ (i = 4 => y.next = x.next + 1 /\ y.call = 1)
      BY <2>3 DEF Advances
    <3>2. y.next \in {x.next, x.next + 1}
      BY <2>3, <3>1
    <3>3. /\ y.next = x.next => Ahead(y, c) = Ahead(x, c)
          /\ y.next = x.next + 1 => Ahead(y, c) = Ahead(x, c) \ {x.next}
      BY <3>1, <3>2, AheadShrinks
    <3>4. QED
      BY <2>3, <3>1, <3>3
  <2>8. ASSUME NEW j \in Ahead(x, c), x.steps[j].kind = "Component" PROVE j = x.next
    <3>1. x.steps[j].path = 0
      BY <2>8, CourseOfStep
    <3>2. QED
      BY <2>2, <3>1 DEF OnCourse
  <2>9. HomeOnCourse(y, c, e, mine)
    <3>1. CASE i < 4
      BY <2>1, <2>6, <2>7, <2>8, <3>1 DEF HomeOnCourse
    <3>2. CASE i = 4
      BY <2>6, <2>7, <2>8, <3>2 DEF HomeOnCourse
    <3>3. QED
      BY <2>3, <3>1, <3>2
  <2>10. \A p \in Paths \ Dropins : (\A j \in Ahead(y, c) : y.steps[j].path # p)
            => \A j \in Ahead(x, c) : x.steps[j].path # p
    BY <2>2, <2>7
  <2>11. OnCourse(y, c, e, files, mine)
    BY <2>6, <2>7, <2>9, <2>10 DEF OnCourse
  <2>12. QED
    BY <2>6, <2>11 DEF e, Nested, Held
<1>2. CASE PathStep(s)
  <2>1. /\ k.path = s.path /\ k.content = s.content /\ Len(StepCalls(s)) = 1
        /\ i \in 1..Len(StepCalls(s)) /\ s.kind # "Component" /\ s.kind = KindOf[s.path]
        /\ k.op = IF s.todo = "Remove" THEN "remove"
                  ELSE IF s.kind = "Directory" /\ s.todo = "Install" THEN "mkdir" ELSE "write"
        /\ s.todo \in {"Install", "Update", "Remove"}
    BY <1>2 DEF IsCallOf, PathStep, ComponentStep, FileTodos
  <2>2. y.steps = x.steps /\ y.next = x.next + 1 /\ y.call = 1
    BY <2>1 DEF Advances
  <2> DEFINE p == s.path
  <2>3. OnCourse(y, c, [d EXCEPT !.at[p] = Wanted(files, mine, p)], files, mine)
    BY <2>1, <2>2, PathDone
  <2>4. CASE s.todo = "Remove"
    <3>1. /\ p \in Paths \ Dropins /\ Wanted(files, mine, p) = Absent
          /\ d.at[p] # Absent /\ \A q \in Held(d) : Within[q] # p
      BY <2>1, <2>4, RemoveApplies
    <3>2. k.op = "remove" /\ KindOf[p] # "DropinDir" /\ k.path = p
      BY <2>1, <2>4, <3>1 DEF Dropins
    <3>3. Applies(d, k) /\ After(d, k) = [d EXCEPT !.at[p] = Absent]
      BY <3>1, <3>2 DEF Applies, After
    <3>4. \A q \in Paths : After(d, k).at[q] = d.at[q] \/ After(d, k).at[q] = Absent
      BY <3>1, <3>3 DEF Directories
    <3>6. Nested(After(d, k))
      BY <3>1, <3>3, RepositoryAssumption DEF Nested, Held, Directories
    <3>5. QED
      BY <2>3, <3>1, <3>3, <3>4, <3>6
  <2>5. CASE s.todo \in {"Install", "Update"}
    <3>1. /\ HomeExists(d, p) /\ mine /\ files[p] = s.content /\ files[p] # Absent
          /\ p \in Paths \ Dropins /\ d.data
          /\ s.todo = "Install" <=> d.at[p] = Absent
      BY <2>1, <2>5, WriteApplies
    <3>2. Wanted(files, mine, p) = s.content
      BY <3>1 DEF Wanted
    <3>3. KindOf[p] = "Directory" => s.content = Blank
      BY <3>1 DEF IsSource
    <3>4. Applies(d, k) /\ After(d, k) = [d EXCEPT !.at[p] = s.content]
      <4>1. CASE k.op = "mkdir"
        BY <2>1, <2>5, <3>1, <3>3, <4>1 DEF Applies, After
      <4>2. CASE k.op = "write"
        BY <2>1, <3>1, <4>2 DEF Applies, After
      <4>3. QED
        BY <2>1, <2>5, <4>1, <4>2
    <3>5. \A q \in Paths : After(d, k).at[q] = d.at[q] \/ (mine /\ files[q] # Absent)
      BY <3>1, <3>4 DEF Directories
    <3>7. Nested(After(d, k))
      BY <3>1, <3>4, RepositoryAssumption DEF Nested, Held, Directories, HomeExists
    <3>6. QED
      BY <2>3, <3>2, <3>4, <3>5, <3>7
  <2>6. QED
    BY <2>1, <2>4, <2>5
<1>3. QED
  BY <1>1, <1>2 DEF IsCallOf

-----------------------------------------------------------------------------
(* The plan for a settled component is a course *)

Idle(c, d, files, mine) ==
    /\ d \in Directories /\ files \in [Paths -> Nat] /\ IsSource(files) /\ Settled(d)
    /\ mine => files[Manifest] # Absent
    /\ ~mine => \A p \in Dropins : d.at[p] = Absent

LEMMA NeededFits ==
  ASSUME NEW c \in Comps, NEW d, NEW files, NEW mine \in BOOLEAN, Idle(c, d, files, mine),
         NEW e \in Needed(c, d, files, mine)
  PROVE  /\ Fits(e, files, mine) /\ e.comp = c /\ e.list = "resource"
         /\ e.kind # "Component" => (e.todo = "Install" <=> d.at[e.path] = Absent)
         /\ e.kind = "Component" => (d.data <=> ~mine)
<1>1. /\ d \in Directories /\ files \in [Paths -> Nat] /\ Settled(d)
      /\ \A p \in Dropins : files[p] = Absent
      /\ ~mine => \A p \in Dropins : d.at[p] = Absent
  BY DEF Idle, IsSource, Dropins
<1>2. e.comp = c /\ e.list = "resource"
  BY <1>1, NeededFields
<1>3. CASE \/ e = OnComponent("Install", c) /\ ~d.data /\ mine
           \/ e = OnComponent("Remove", c) /\ d.data /\ ~mine
  <2>1. e.kind = "Component" /\ e.path = 0 /\ e.todo = IF mine THEN "Install" ELSE "Remove"
    BY <1>3, HomeChange
  <2>2. QED
    BY <1>2, <1>3, <2>1 DEF Fits
<1>4. ASSUME NEW p \in Paths, mine, files[p] # Absent, d.data => d.at[p] = Absent,
             e = OnResource("Install", c, p, files[p])
      PROVE  /\ Fits(e, files, mine) /\ e.kind # "Component"
             /\ e.todo = "Install" <=> d.at[e.path] = Absent
  <2>1. files[p] \in Nat /\ p \notin Dropins /\ d.at[p] = Absent
    BY <1>1, <1>4 DEF Settled
  <2>2. /\ e.todo = "Install" /\ e.kind = KindOf[p] /\ e.kind # "Component" /\ e.path = p
        /\ e.content = files[p]
    BY <1>4, <2>1, PathChange
  <2>3. QED
    BY <1>4, <2>1, <2>2 DEF Fits, Wanted
<1>5. ASSUME NEW p \in Paths, mine, files[p] # Absent, d.data, d.at[p] # Absent,
             e = OnResource("Update", c, p, files[p])
      PROVE  /\ Fits(e, files, mine) /\ e.kind # "Component"
             /\ e.todo = "Install" <=> d.at[e.path] = Absent
  <2>1. files[p] \in Nat /\ p \notin Dropins
    BY <1>1, <1>5
  <2>2. /\ e.todo = "Update" /\ e.kind = KindOf[p] /\ e.kind # "Component" /\ e.path = p
        /\ e.content = files[p]
    BY <1>5, <2>1, PathChange
  <2>3. QED
    BY <1>5, <2>1, <2>2 DEF Fits, Wanted
<1>6. ASSUME NEW p \in Paths, d.data, d.at[p] # Absent, mine => files[p] = Absent /\ p \notin Dropins,
             e = OnResource("Remove", c, p, Absent)
      PROVE  /\ Fits(e, files, mine) /\ e.kind # "Component"
             /\ e.todo = "Install" <=> d.at[e.path] = Absent
  <2>1. Absent \in Nat /\ p \notin Dropins
    BY <1>1, <1>6 DEF Absent
  <2>2. e.todo = "Remove" /\ e.kind = KindOf[p] /\ e.kind # "Component" /\ e.path = p
    BY <1>6, <2>1, PathChange
  <2>3. QED
    BY <1>6, <2>1, <2>2 DEF Fits, Wanted
<1>7. \/ /\ e = OnComponent("Install", c) /\ ~d.data /\ mine
      \/ /\ e = OnComponent("Remove", c) /\ d.data /\ ~mine
      \/ \E p \in Paths :
            \/ e = OnResource("Install", c, p, files[p]) /\ mine
               /\ files[p] # Absent /\ (d.data => d.at[p] = Absent)
            \/ e = OnResource("Update", c, p, files[p]) /\ mine
               /\ files[p] # Absent /\ d.data /\ d.at[p] # Absent
            \/ e = OnResource("Remove", c, p, Absent) /\ d.data /\ d.at[p] # Absent
               /\ (mine => files[p] = Absent /\ p \notin Dropins)
  BY <1>1, NeededFields
<1>8. CASE ~ \/ e = OnComponent("Install", c) /\ ~d.data /\ mine
             \/ e = OnComponent("Remove", c) /\ d.data /\ ~mine
  <2>1. PICK p \in Paths :
            \/ e = OnResource("Install", c, p, files[p]) /\ mine
               /\ files[p] # Absent /\ (d.data => d.at[p] = Absent)
            \/ e = OnResource("Update", c, p, files[p]) /\ mine
               /\ files[p] # Absent /\ d.data /\ d.at[p] # Absent
            \/ e = OnResource("Remove", c, p, Absent) /\ d.data /\ d.at[p] # Absent
               /\ (mine => files[p] = Absent /\ p \notin Dropins)
    BY <1>7, <1>8
  <2>2. CASE e = OnResource("Install", c, p, files[p]) /\ mine
               /\ files[p] # Absent /\ (d.data => d.at[p] = Absent)
    BY <1>2, <1>4, <2>2
  <2>3. CASE e = OnResource("Update", c, p, files[p]) /\ mine
               /\ files[p] # Absent /\ d.data /\ d.at[p] # Absent
    BY <1>2, <1>5, <2>3
  <2>4. CASE e = OnResource("Remove", c, p, Absent) /\ d.data /\ d.at[p] # Absent
               /\ (mine => files[p] = Absent /\ p \notin Dropins)
    BY <1>2, <1>6, <2>4
  <2>5. QED
    BY <2>1, <2>2, <2>3, <2>4
<1>9. QED
  BY <1>3, <1>8

(* One step at most for a path, and one if it lacks what it is to hold.    *)
LEMMA NeededOnce ==
  ASSUME NEW c \in Comps, NEW d, NEW files, NEW mine \in BOOLEAN, Idle(c, d, files, mine),
         NEW e \in Needed(c, d, files, mine), NEW f \in Needed(c, d, files, mine), e.path = f.path
  PROVE  e = f
<1> DEFINE Form(g, p) ==
            \/ g = OnResource("Install", c, p, files[p]) /\ mine
               /\ files[p] # Absent /\ (d.data => d.at[p] = Absent)
            \/ g = OnResource("Update", c, p, files[p]) /\ mine
               /\ files[p] # Absent /\ d.data /\ d.at[p] # Absent
            \/ g = OnResource("Remove", c, p, Absent) /\ d.data /\ d.at[p] # Absent
               /\ (mine => files[p] = Absent /\ p \notin Dropins)
           Home(g) == \/ g = OnComponent("Install", c) /\ ~d.data /\ mine
                      \/ g = OnComponent("Remove", c) /\ d.data /\ ~mine
<1>1. files \in [Paths -> Nat]
  BY DEF Idle
<1>2. \A g \in Needed(c, d, files, mine) : Home(g) \/ \E p \in Paths : Form(g, p)
  BY <1>1, NeededFields
<1>3. \A g : Home(g) => g.path = 0
  BY HomeChange
<1>4. ASSUME NEW g, NEW p \in Paths, Form(g, p) PROVE g.path = p
  <2>1. files[p] \in Nat /\ Absent \in Nat
    BY <1>1 DEF Absent
  <2>2. \A todo \in {"Install", "Update", "Remove"}, content \in Nat :
           OnResource(todo, c, p, content).path = p
    BY PathChange
  <2>3. QED
    BY <1>4, <2>1, <2>2
<1>5. 0 \notin Paths
  BY RepositoryAssumption
<1>6. CASE Home(e)
  <2>1. Home(f)
    <3>. HIDE DEF Home, Form
    <3>1. QED
      BY <1>2, <1>3, <1>4, <1>5, <1>6
  <2>2. QED
    BY <1>6, <2>1
<1>7. ASSUME NEW p \in Paths, Form(e, p) PROVE e = f
  <2>1. Form(f, p)
    <3>. HIDE DEF Home, Form
    <3>1. QED
      BY <1>2, <1>3, <1>4, <1>5, <1>7
  <2>2. QED
    BY <1>7, <2>1
<1>8. QED
  BY <1>2, <1>6, <1>7

LEMMA NeededAll ==
  ASSUME NEW c \in Comps, NEW d, NEW files, NEW mine \in BOOLEAN, Idle(c, d, files, mine)
  PROVE  /\ \A p \in Paths \ Dropins : d.at[p] # Wanted(files, mine, p) =>
               \E e \in Needed(c, d, files, mine) : e.path = p
         /\ (d.data <=> ~mine) => \E e \in Needed(c, d, files, mine) : e.kind = "Component"
<1>1. /\ d \in Directories /\ files \in [Paths -> Nat] /\ Settled(d)
  BY DEF Idle
<1>2. ASSUME NEW p \in Paths
      PROVE  \A todo \in {"Install", "Update", "Remove"}, content \in Nat :
                OnResource(todo, c, p, content).path = p
  BY PathChange
<1>3. files \in [Paths -> Nat] /\ Absent \in Nat
  BY <1>1 DEF Absent
<1>4. \A todo \in {"Install", "Remove"} : OnComponent(todo, c).kind = "Component"
  BY HomeChange
<1>5. ASSUME NEW p \in Paths, p \notin Dropins, d.at[p] # Wanted(files, mine, p)
      PROVE  \E e \in Needed(c, d, files, mine) : e.path = p
  <2>1. CASE ~d.data
    <3>1. mine /\ files[p] # Absent
      BY <1>1, <1>5, <2>1 DEF Settled, Wanted
    <3>2. OnResource("Install", c, p, files[p]) \in Needed(c, d, files, mine)
      BY <2>1, <3>1 DEF Needed, Installs
    <3>3. QED
      BY <1>2, <1>3, <3>2
  <2>2. CASE d.data /\ ~mine
    <3>1. p \in Held(d)
      BY <1>5, <2>2 DEF Held, Wanted
    <3>2. OnResource("Remove", c, p, Absent) \in Needed(c, d, files, mine)
      BY <2>2, <3>1 DEF Needed
    <3>3. QED
      BY <1>2, <1>3, <3>2
  <2>3. CASE d.data /\ mine
    <3>0. d.at[p] # files[p]
      BY <1>5, <2>3 DEF Wanted
    <3>1. CASE files[p] = Absent
      <4>1. p \in Dropped(d, files)
        BY <1>5, <3>0, <3>1 DEF Dropped, Held, Dropins
      <4>2. OnResource("Remove", c, p, Absent) \in Needed(c, d, files, mine)
        BY <2>3, <4>1 DEF Needed
      <4>3. QED
        BY <1>2, <1>3, <4>2
    <3>2. CASE files[p] # Absent /\ d.at[p] = Absent
      <4>1. OnResource("Install", c, p, files[p]) \in Needed(c, d, files, mine)
        BY <2>3, <3>2 DEF Needed
      <4>2. QED
        BY <1>2, <1>3, <4>1
    <3>3. CASE files[p] # Absent /\ d.at[p] # Absent
      <4>1. p \in Changed(d, files)
        BY <3>0, <3>3 DEF Changed, Held
      <4>2. OnResource("Update", c, p, files[p]) \in Needed(c, d, files, mine)
        BY <2>3, <4>1 DEF Needed
      <4>3. QED
        BY <1>2, <1>3, <4>2
    <3>4. QED
      BY <3>1, <3>2, <3>3
  <2>4. QED
    BY <2>1, <2>2, <2>3
<1>6. ASSUME d.data <=> ~mine
      PROVE  \E e \in Needed(c, d, files, mine) : e.kind = "Component"
  <2>1. CASE ~d.data /\ mine
    <3>1. OnComponent("Install", c) \in Needed(c, d, files, mine)
      BY <2>1 DEF Needed, Installs
    <3>2. QED
      BY <1>4, <3>1
  <2>2. CASE d.data /\ ~mine
    <3>1. OnComponent("Remove", c) \in Needed(c, d, files, mine)
      BY <2>2 DEF Needed
    <3>2. QED
      BY <1>4, <3>1
  <2>3. QED
    BY <1>1, <1>6, <2>1, <2>2 DEF Directories
<1>7. QED
  BY <1>5, <1>6

LEMMA CoursePlanned ==
  ASSUME NEW c \in Comps, NEW d, NEW files, NEW mine \in BOOLEAN, Idle(c, d, files, mine),
         NEW x, x.next = 1, x.call = 1, DOMAIN x.steps \subseteq Nat,
         \A k \in DOMAIN x.steps : k >= 1,
         NEW need, need = Needed(c, d, files, mine),
         \A k \in DOMAIN x.steps :
            x.steps[k].comp = c /\ x.steps[k].list = "resource" => x.steps[k] \in need,
         \A e \in need : \E k \in DOMAIN x.steps : x.steps[k] = e,
         \A j, k \in DOMAIN x.steps : x.steps[j] \in need /\ x.steps[j] = x.steps[k] => j = k,
         \A j, k \in DOMAIN x.steps :
            x.steps[j] \in need /\ x.steps[k] \in need /\ MustPrecede(x.steps[j], x.steps[k], mine)
               => j < k
  PROVE  OnCourse(x, c, d, files, mine)
<1>1. \A e \in need : /\ Fits(e, files, mine) /\ e.comp = c /\ e.list = "resource"
                      /\ e.kind # "Component" => (e.todo = "Install" <=> d.at[e.path] = Absent)
                      /\ e.kind = "Component" => (d.data <=> ~mine)
  BY NeededFits
<1>2. \A e, f \in need : e.path = f.path => e = f
  BY NeededOnce
<1>3. /\ \A p \in Paths \ Dropins : d.at[p] # Wanted(files, mine, p) => \E e \in need : e.path = p
      /\ (d.data <=> ~mine) => \E e \in need : e.kind = "Component"
  BY NeededAll
<1>4. \A k \in Ahead(x, c) : k \in DOMAIN x.steps /\ x.steps[k] \in need
  BY DEF Ahead
<1>5. \A e \in need : \E k \in Ahead(x, c) : x.steps[k] = e
  BY <1>1 DEF Ahead
<1>6. \A p \in Paths \ Dropins :
          (\A k \in Ahead(x, c) : x.steps[k].path # p) => d.at[p] = Wanted(files, mine, p)
  BY <1>3, <1>5
<1>7. HomeOnCourse(x, c, d, mine)
  <2>1. d \in Directories /\ Settled(d)
    BY DEF Idle
  <2>2. ASSUME \A k \in Ahead(x, c) : x.steps[k].kind # "Component"
        PROVE  IF mine THEN AtHome(d) ELSE Gone(d)
    <3>1. ~(d.data <=> ~mine)
      BY <1>3, <1>5, <2>2
    <3>2. QED
      BY <2>1, <3>1 DEF Settled
  <2>3. ASSUME NEW k \in Ahead(x, c), x.steps[k].kind = "Component"
        PROVE  HomeAt(d, mine, IF k = x.next THEN x.call ELSE 1)
    <3>1. d.data <=> ~mine
      BY <1>1, <1>4, <2>3
    <3>2. HomeAt(d, mine, 1)
      BY <2>1, <3>1 DEF Settled, AtHome, Gone, HomeAt
    <3>3. QED
      BY <3>2
  <2>4. QED
    BY <2>2, <2>3 DEF HomeOnCourse
<1>8. /\ mine => files[Manifest] # Absent
      /\ ~mine => \A p \in Dropins : d.at[p] = Absent
  BY DEF Idle
<1>9. QED
  BY <1>1, <1>2, <1>4, <1>6, <1>7, <1>8 DEF OnCourse

(* Where nothing is ahead any more the component is settled.               *)
LEMMA CourseEnds ==
  ASSUME NEW x, NEW c \in Comps, NEW d \in Directories, NEW files, NEW mine \in BOOLEAN,
         OnCourse(x, c, d, files, mine), Ahead(x, c) = {}
  PROVE  Settled(d)
<1>1. IF mine THEN AtHome(d) ELSE Gone(d)
  BY DEF OnCourse, HomeOnCourse
<1>2. \A p \in Paths \ Dropins : d.at[p] = Wanted(files, mine, p)
  BY DEF OnCourse
<1>3. Manifest \in Paths \ Dropins
  BY RepositoryAssumption DEF Dropins
<1>4. CASE mine
  <2>1. d.at[Manifest] # Absent
    BY <1>2, <1>3, <1>4 DEF OnCourse, Wanted
  <2>2. QED
    BY <1>1, <1>4, <2>1 DEF Settled, AtHome
<1>5. CASE ~mine
  <2>1. \A p \in Paths : d.at[p] = Absent
    BY <1>2, <1>5 DEF OnCourse, Wanted
  <2>2. QED
    BY <1>1, <1>5, <2>1 DEF Settled, Gone
<1>6. QED
  BY <1>4, <1>5

(* What the theorems below ask of the source: what is in a directory comes *)
(* with it, a directory that ever holds another one stays as long as its   *)
(* component, and a service a manifest names has its container.            *)
WellFormed ==
    /\ \A v \in Revisions, c \in Comps : Rooted(FilesIn[v][c])
    /\ \A v, w \in Revisions, c \in Comps, q \in Paths :
          /\ KindOf[q] = "Directory" /\ Within[q] # 0
          /\ FilesIn[v][c][q] # Absent /\ FilesIn[w][c][Manifest] # Absent
          => FilesIn[w][c][Within[q]] # Absent
    /\ \A v \in Revisions, c \in Comps : FilesIn[v][c][Manifest] # Absent =>
          \A p \in Paths : p \in ServicesIn[FilesIn[v][c][Manifest]] =>
             p \in Containers /\ FilesIn[v][c][p] # Absent

(* A plan for hosts at rest is a course for every component of them.       *)
LEMMA OrderlyCourse ==
  ASSUME NEW hosts, NEW files \in [Comps -> [Paths -> Nat]], NEW units, NEW mine \in [Comps -> BOOLEAN],
         NEW x, Orderly(hosts, files, units, mine, x.steps),
         x.next = 1, x.call = 1, DOMAIN x.steps \subseteq Nat, \A k \in DOMAIN x.steps : k >= 1,
         NEW c \in Comps, Idle(c, hosts[c], files[c], mine[c])
  PROVE  OnCourse(x, c, hosts[c], files[c], mine[c])
<1> DEFINE need == [b \in Comps |-> Needed(b, hosts[b], files[b], mine[b])]
           jobs == [b \in Comps |-> JobsFor(b, files[b], units[b], mine[b])]
<1>1. /\ \A k \in DOMAIN x.steps :
            x.steps[k] = HostReload \/ \E b \in Comps : x.steps[k] \in need[b] \cup jobs[b]
      /\ \A b \in Comps : \A e \in need[b] : \E k \in DOMAIN x.steps : x.steps[k] = e
      /\ \A j, k \in DOMAIN x.steps :
            x.steps[j].list = "resource" /\ x.steps[j] = x.steps[k] => j = k
      /\ \A b \in Comps : \A j, k \in DOMAIN x.steps :
            x.steps[j] \in need[b] /\ x.steps[k] \in need[b]
            /\ MustPrecede(x.steps[j], x.steps[k], mine[b]) => j < k
  BY DEF Orderly
<1>2. ASSUME NEW b \in Comps, NEW e \in need[b] PROVE e.comp = b /\ e.list = "resource"
  <2>1. files[b] \in [Paths -> Nat] /\ mine[b] \in BOOLEAN /\ e \in Needed(b, hosts[b], files[b], mine[b])
    OBVIOUS
  <2>. HIDE DEF need
  <2>2. QED
    BY <2>1, NeededFields
<1>3. ASSUME NEW b \in Comps, NEW e \in jobs[b] PROVE e.list = "service"
  <2>1. e \in JobsFor(b, files[b], units[b], mine[b])
    OBVIOUS
  <2>. HIDE DEF jobs
  <2>2. QED
    BY <2>1, JobsForFields
<1>4. need[c] = Needed(c, hosts[c], files[c], mine[c]) /\ mine[c] \in BOOLEAN
  OBVIOUS
<1>. HIDE DEF need, jobs
<1>5. ASSUME NEW k \in DOMAIN x.steps, x.steps[k].comp = c, x.steps[k].list = "resource"
      PROVE  x.steps[k] \in need[c]
  <2>1. x.steps[k] # HostReload
    BY <1>5, MateriaAssumption DEF HostReload
  <2>2. PICK b \in Comps : x.steps[k] \in need[b] \cup jobs[b]
    BY <1>1, <2>1
  <2>3. x.steps[k] \in need[b]
    BY <1>3, <1>5, <2>2
  <2>4. QED
    BY <1>2, <1>5, <2>3
<1>6. \A e \in need[c] : \E k \in DOMAIN x.steps : x.steps[k] = e
  BY <1>1
<1>7. \A j, k \in DOMAIN x.steps : x.steps[j] \in need[c] /\ x.steps[j] = x.steps[k] => j = k
  BY <1>1, <1>2
<1>8. \A j, k \in DOMAIN x.steps :
         x.steps[j] \in need[c] /\ x.steps[k] \in need[c]
         /\ MustPrecede(x.steps[j], x.steps[k], mine[c]) => j < k
  BY <1>1
<1>9. QED
  BY <1>4, <1>5, <1>6, <1>7, <1>8, CoursePlanned

LEMMA OrderlyUnits ==
  ASSUME NEW hosts, NEW files \in [Comps -> [Paths -> Nat]], NEW units, NEW mine \in [Comps -> BOOLEAN],
         NEW x, Orderly(hosts, files, units, mine, x.steps),
         x.next = 1, DOMAIN x.steps \subseteq Nat, \A k \in DOMAIN x.steps : k >= 1,
         UnitsAreFiles(hosts, units),
         \A c \in Comps, p \in Paths : mine[c] /\ p \in ServicesIn[files[c][Manifest]] =>
            p \in Containers /\ files[c][p] # Absent
  PROVE  UnitsOnCourse(x, hosts, units, files, mine)
<1> DEFINE need == [b \in Comps |-> Needed(b, hosts[b], files[b], mine[b])]
           jobs == [b \in Comps |-> JobsFor(b, files[b], units[b], mine[b])]
<1>1. /\ \A k \in DOMAIN x.steps :
            x.steps[k] = HostReload \/ \E b \in Comps : x.steps[k] \in need[b] \cup jobs[b]
      /\ \A j, k \in DOMAIN x.steps : x.steps[j].list = "service" /\ x.steps[k].list = "resource" =>
            IF x.steps[j].todo = "Stop" THEN j < k ELSE k < j
      /\ \A k \in DOMAIN x.steps : x.steps[k].list = "resource" =>
            \E m \in DOMAIN x.steps : x.steps[m] = HostReload /\ k <= m
  BY DEF Orderly
<1>2. ASSUME NEW b \in Comps, NEW e \in need[b] PROVE e.list = "resource"
  <2>1. files[b] \in [Paths -> Nat] /\ mine[b] \in BOOLEAN /\ e \in Needed(b, hosts[b], files[b], mine[b])
    OBVIOUS
  <2>. HIDE DEF need
  <2>2. QED
    BY <2>1, NeededFields
<1>3. ASSUME NEW b \in Comps, NEW e \in jobs[b] PROVE JobFits(e, units, files, mine)
  <2>1. e \in JobsFor(b, files[b], units[b], mine[b])
    OBVIOUS
  <2>. HIDE DEF jobs
  <2>2. /\ e.comp = b /\ e.path \in Paths
        /\ \/ e.todo = "Stop" /\ Found(units[b], e.path)
           \/ /\ e.todo # "Stop" /\ mine[b]
              /\ \/ e.path \in ServicesIn[files[b][Manifest]]
                 \/ files[b][e.path] # Absent /\ KindOf[e.path] = "Container"
    BY <2>1, JobsForFields
  <2>3. QED
    BY <2>2 DEF JobFits, Found, Containers
<1>. HIDE DEF need, jobs
<1>4. Left(x) = DOMAIN x.steps
  BY DEF Left
<1>5. HostReload.list = "resource"
  BY DEF HostReload
<1>6. \A k \in DOMAIN x.steps : x.steps[k].list = "service" => JobFits(x.steps[k], units, files, mine)
  BY <1>1, <1>2, <1>3, <1>5
<1>7. QED
  BY <1>1, <1>4, <1>6 DEF UnitsOnCourse

(* What is left shrinks from the front.                                    *)
LEMMA LeftShrinks ==
  ASSUME NEW x, NEW y, y.steps = x.steps, DOMAIN x.steps \subseteq Nat, x.next \in Nat,
         y.next \in {x.next, x.next + 1}
  PROVE  /\ y.next = x.next => Left(y) = Left(x)
         /\ y.next = x.next + 1 => Left(y) = Left(x) \ {x.next}
         /\ \A k \in Left(x) : k \in Nat /\ k >= x.next
BY DEF Left

LEMMA UnitsGoOn ==
  ASSUME NEW x, NEW y, NEW hosts, NEW units, NEW files, NEW mine,
         UnitsOnCourse(x, hosts, units, files, mine),
         y.steps = x.steps, DOMAIN x.steps \subseteq Nat, x.next \in Nat,
         y.next \in {x.next, x.next + 1},
         y.next = x.next + 1 => x.next \in DOMAIN x.steps /\ x.steps[x.next] # HostReload,
         NEW hosts2, NEW units2,
         \A c \in Comps : units2[c].loaded = units[c].loaded,
         UnitsAreFiles(hosts, units) /\ (\A k \in Left(y) : x.steps[k] # HostReload)
            => UnitsAreFiles(hosts2, units2)
  PROVE  UnitsOnCourse(y, hosts2, units2, files, mine)
<1>1. /\ Left(y) \subseteq Left(x)
      /\ \A k \in Left(x) : k \in Left(y) \/ (k = x.next /\ x.steps[k] # HostReload)
  BY LeftShrinks
<1>2. \A k \in Left(y) : y.steps[k].list = "service" => JobFits(y.steps[k], units2, files, mine)
  BY <1>1 DEF UnitsOnCourse, JobFits
<1>3. \A j, k \in Left(y) : y.steps[j].list = "service" /\ y.steps[k].list = "resource" =>
          IF y.steps[j].todo = "Stop" THEN j < k ELSE k < j
  BY <1>1 DEF UnitsOnCourse
<1>4. \A k \in Left(y) : y.steps[k].list = "resource" =>
          \E m \in Left(y) : y.steps[m] = HostReload /\ k <= m
  BY <1>1 DEF UnitsOnCourse
<1>5. (\A k \in Left(y) : y.steps[k] # HostReload) => UnitsAreFiles(hosts2, units2)
  BY <1>1 DEF UnitsOnCourse
<1>6. QED
  BY <1>2, <1>3, <1>4, <1>5 DEF UnitsOnCourse

-----------------------------------------------------------------------------
(* The steps of a process *)

(* A process that goes on with its plan changes no more than its place.    *)
LEMMA ProceedStays ==
  ASSUME TypeInv, NEW r \in Runs, Proceed(r)
  PROVE  /\ run'[r].pc = run[r].pc /\ run'[r].outcome = run[r].outcome
         /\ run'[r].invalid = run[r].invalid /\ run'[r].manifest = run[r].manifest
         /\ run'[r].steps = run[r].steps
<1>1. run \in [Runs -> RunRecords] /\ run[r] \in RunRecords
  BY DEF TypeInv, TypeOK
<1>2. \/ run'[r] = [run[r] EXCEPT !.call = run[r].call + 1]
      \/ run'[r] = [run[r] EXCEPT !.next = run[r].next + 1, !.call = 1]
  BY <1>1 DEF Proceed
<1>3. QED
  BY <1>1, <1>2 DEF RunRecords

(* At rest, and nothing but the phase changes.                             *)
LEMMA RestKept ==
  ASSUME NEW x, NEW y, NEW hosts, NEW units, NEW v, NEW w, OnTrack(x, hosts, units, v),
         x.pc \notin {"planned", "executing"}, y.pc \notin {"planned", "executing"},
         y.outcome # "refused", y.invalid = {}
  PROVE  OnTrack(y, hosts, units, w)
BY DEF OnTrack

(* A component the user writes drop-ins for does not leave.                *)
LEMMA LeavesNoDropins ==
  ASSUME DropinInv, NEW r \in Runs, run[r].manifest # 0, NEW c \in Comps, Settled(disk[c]),
         c \notin AssignedIn[run[r].manifest]
  PROVE  \A p \in Dropins : disk[c].at[p] = Absent
<1>1. SUFFICES ASSUME NEW p \in Dropins, disk[c].at[p] # Absent PROVE FALSE
  OBVIOUS
<1>2. c \in UserDropins
  BY <1>1 DEF DropinInv, DropinsOfUser
<1>3. p \in Paths
  BY DEF Dropins
<1>4. disk[c].data
  BY <1>1, <1>3 DEF Settled
<1>5. QED
  BY <1>2, <1>4 DEF DropinInv, UserStays

(* Plan meets a host at rest.                                              *)
LEMMA PlannedOnTrack ==
  ASSUME WellFormed, DropinInv, Steady, NEW r \in Runs, GetsPlan(r)
  PROVE  UnderWay(run'[r], disk, live, FilesIn[cache], MineOf(run'[r].manifest))
<1> DEFINE x == run'[r]
           files == FilesIn[cache]
           mine == MineOf(run[r].manifest)
<1>1. TypeInv /\ At(r, "start") /\ PlanOf(r).ok
  BY DEF DropinInv, GetsPlan, Plan
<1>2. /\ x.steps = PlanOf(r).steps /\ x.next = 1 /\ x.call = 1 /\ x.manifest = run[r].manifest
  BY DEF GetsPlan
<1>3. /\ cache \in Revisions /\ run[r].manifest \in Revisions
      /\ disk \in [Comps -> Directories] /\ files \in [Comps -> [Paths -> Nat]]
      /\ AssignedIn[run[r].manifest] \in SUBSET Comps
      /\ PlanOf(r).steps \in StepLists
  BY <1>1, PlanOfRun
<1>4. AtRest(disk, live)
  BY <1>1 DEF Steady, OnTrack, At
<1>5. mine = [c \in Comps |-> c \in AssignedIn[run[r].manifest]] /\ mine \in [Comps -> BOOLEAN]
  BY DEF MineOf
<1>6. \A c \in Comps : disk[c].data => disk[c].version = "current" /\ disk[c].at[Manifest] # Absent
  BY <1>4 DEF AtRest, Settled, AtHome
<1>7. /\ Orderly(disk, files, live, mine, x.steps)
      /\ \A c \in AssignedIn[run[r].manifest] : files[c][Manifest] # Absent
  <2>1. PlanHost(disk, files, live, AssignedIn[run[r].manifest]).ok
    BY <1>1 DEF PlanOf
  <2>2. /\ Orderly(disk, files, live, [c \in Comps |-> c \in AssignedIn[run[r].manifest]],
                   PlanHost(disk, files, live, AssignedIn[run[r].manifest]).steps)
        /\ \A c \in AssignedIn[run[r].manifest] : files[c][Manifest] # Absent
    BY <1>3, <1>6, <2>1, OrderlyPlan
  <2>3. QED
    BY <1>2, <1>5, <2>2 DEF PlanOf
<1>8. ASSUME NEW c \in Comps PROVE Idle(c, disk[c], files[c], mine[c])
  <2>1. /\ disk[c] \in Directories /\ files[c] \in [Paths -> Nat] /\ IsSource(files[c])
        /\ Settled(disk[c]) /\ (mine[c] <=> c \in AssignedIn[run[r].manifest])
    BY <1>3, <1>4, <1>5, SourcesOfRevisions DEF AtRest
  <2>2. 0 \notin Revisions
    BY MateriaAssumption DEF Revisions
  <2>3. ~mine[c] => \A p \in Dropins : disk[c].at[p] = Absent
    BY <1>3, <2>1, <2>2, LeavesNoDropins
  <2>4. QED
    BY <1>7, <2>1, <2>3 DEF Idle
<1>9. DOMAIN x.steps \subseteq Nat /\ \A k \in DOMAIN x.steps : k >= 1
  BY <1>2, <1>3 DEF StepLists
<1>10. \A c \in Comps, p \in Paths : mine[c] /\ p \in ServicesIn[files[c][Manifest]] =>
            p \in Containers /\ files[c][p] # Absent
  <2>1. SUFFICES ASSUME NEW c \in Comps, NEW p \in Paths, mine[c],
                        p \in ServicesIn[files[c][Manifest]]
                 PROVE  p \in Containers /\ files[c][p] # Absent
    OBVIOUS
  <2>2. files[c][Manifest] # Absent
    BY <1>5, <1>7, <2>1
  <2>3. QED
    BY <1>3, <2>1, <2>2 DEF WellFormed
<1>11. UnitsAreFiles(disk, live)
  BY <1>4 DEF AtRest
<1>. HIDE DEF x, files, mine
<1>12. ASSUME NEW c \in Comps PROVE OnCourse(x, c, disk[c], files[c], mine[c])
  BY <1>2, <1>3, <1>5, <1>7, <1>8, <1>9, OrderlyCourse
<1>13. UnitsOnCourse(x, disk, live, files, mine)
  BY <1>2, <1>3, <1>5, <1>7, <1>9, <1>10, <1>11, OrderlyUnits
<1>14. UnderWay(x, disk, live, files, mine)
  BY <1>12, <1>13 DEF UnderWay
<1>15. QED
  BY <1>2, <1>14 DEF x, files, mine

(* What the source asks of a component that stays.                         *)
LEMMA NestsKept ==
  ASSUME WellFormed, NEW c \in Comps, NEW d, FromSource(c, d), NEW v \in Revisions
  PROVE  Rooted(FilesIn[v][c]) /\ KeepsNests(d, FilesIn[v][c])
<1>1. SUFFICES ASSUME NEW q \in Paths, KindOf[q] = "Directory", Within[q] # 0, d.at[q] # Absent,
                      FilesIn[v][c][Manifest] # Absent
               PROVE  FilesIn[v][c][Within[q]] # Absent
  BY DEF WellFormed, KeepsNests
<1>2. q \in Paths \ Dropins
  BY <1>1 DEF Dropins
<1>3. PICK w \in Revisions : FilesIn[w][c][q] # Absent
  BY <1>1, <1>2 DEF FromSource
<1>4. QED
  BY <1>1, <1>3 DEF WellFormed

(* Each call on a file applies.                                            *)
LEMMA FileCallApplies ==
  ASSUME WellFormed, DropinInv, Steady, NEW r \in Runs, Executing(r), NextCall(r).op \notin ServiceCalls,
         NEW y, Advances(run[r], y)
  PROVE  LET k == NextCall(r)
             b == NextStep(r).comp
             e == After(disk[b], k)
         IN
         /\ k.comp = b /\ b \in Comps /\ cache \in Revisions /\ Applies(disk[b], k)
         /\ OnCourse(y, b, e, FilesIn[cache][b], MineOf(run[r].manifest)[b])
         /\ FromSource(b, e) /\ Nested(e)
<1> DEFINE x == run[r]
           s == NextStep(r)
           k == NextCall(r)
           b == s.comp
           d == disk[b]
           files == FilesIn[cache][b]
           mine == MineOf(run[r].manifest)[b]
<1>1. TypeInv /\ At(r, "executing")
  BY DEF DropinInv, Executing
<1>2. /\ DOMAIN x.steps \subseteq Nat /\ x.next \in Nat
      /\ k.comp = b /\ b \in Comps /\ IsCallOf(k, s, x.call) /\ x.next \in Ahead(x, b)
  BY <1>1, CallOnFiles
<1>3. s = x.steps[x.next]
  BY DEF NextStep
<1>4. cache \in Revisions /\ d \in Directories
  BY <1>1, <1>2 DEF At, TypeInv, TypeOK, Poised
<1>5. OnCourse(x, b, d, files, mine) /\ FromSource(b, d) /\ Nested(d)
  BY <1>1, <1>2 DEF Steady, OnTrack, UnderWay, At
<1>6. IsSource(files) /\ Rooted(files) /\ KeepsNests(d, files)
  BY <1>2, <1>4, <1>5, SourcesOfRevisions, NestsKept
<1>7. mine \in BOOLEAN
  <2>1. mine = (b \in AssignedIn[run[r].manifest])
    BY <1>2 DEF MineOf
  <2>2. QED
    BY <2>1
<1>. HIDE DEF x, s, k, b, d, files, mine
<1>8. /\ Applies(d, k)
      /\ OnCourse(y, b, After(d, k), files, mine)
      /\ \A p \in Paths : \/ After(d, k).at[p] = d.at[p] \/ After(d, k).at[p] = Absent
                          \/ mine /\ files[p] # Absent
      /\ Nested(After(d, k))
  BY <1>2, <1>3, <1>4, <1>5, <1>6, <1>7, CallKeepsCourse DEF x
<1>9. FromSource(b, After(d, k))
  BY <1>4, <1>5, <1>8 DEF FromSource, files
<1>10. QED
  BY <1>2, <1>4, <1>8, <1>9 DEF x, s, k, b, d, files, mine

LEMMA FileStepOnTrack ==
  ASSUME WellFormed, DropinInv, Steady, NEW r \in Runs, FileStep(r)
  PROVE  /\ OnTrack(run'[r], disk', live', cache')
         /\ \A c \in Comps : FromSource(c, disk'[c]) /\ Nested(disk'[c])
<1> DEFINE x == run[r]
           y == run'[r]
           s == NextStep(r)
           k == NextCall(r)
           b == s.comp
           files == FilesIn[cache]
           mine == MineOf(run[r].manifest)
           up == [steps |-> x.steps,
                  next |-> IF x.call < Len(StepCalls(s)) THEN x.next ELSE x.next + 1,
                  call |-> IF x.call < Len(StepCalls(s)) THEN x.call + 1 ELSE 1]
<1>1. TypeInv /\ At(r, "executing") /\ Executing(r) /\ k.op \notin ServiceCalls
  BY DEF DropinInv, FileStep, Executing
<1>2. Advances(x, up)
  BY DEF Advances, NextStep
<1>3. k.comp = b /\ b \in Comps /\ cache \in Revisions /\ Applies(disk[b], k)
  BY <1>1, <1>2, FileCallApplies
<1>4. /\ disk' = [disk EXCEPT ![b] = After(disk[b], k)] /\ Proceed(r)
      /\ live' = live /\ cache' = cache
  BY <1>3 DEF FileStep
<1>5. /\ Advances(x, y) /\ DOMAIN x.steps \subseteq Nat /\ x.next \in Nat
      /\ x.next \in DOMAIN x.steps
  BY <1>1, <1>4, ProceedAdvances
<1>6. /\ y.pc = "executing" /\ y.outcome = x.outcome /\ y.invalid = x.invalid
      /\ y.manifest = x.manifest /\ y.steps = x.steps
  BY <1>1, <1>4, ProceedStays DEF At
<1>7. /\ OnCourse(y, b, After(disk[b], k), files[b], mine[b])
      /\ FromSource(b, After(disk[b], k)) /\ Nested(After(disk[b], k))
  BY <1>1, <1>5, FileCallApplies
<1>8. /\ OnTrack(x, disk, live, cache) /\ UnderWay(x, disk, live, files, mine)
      /\ \A c \in Comps : FromSource(c, disk[c]) /\ Nested(disk[c])
  BY <1>1 DEF Steady, OnTrack, At
<1>9. /\ \A c \in Comps \ {b} : x.next \notin Ahead(x, c)
      /\ x.next \in Ahead(x, b)
  BY <1>1, CallOnFiles
<1>10. disk \in [Comps -> Directories]
  BY <1>1 DEF TypeInv, TypeOK
<1>11. disk'[b] = After(disk[b], k) /\ \A c \in Comps \ {b} : disk'[c] = disk[c]
  BY <1>3, <1>4, <1>10
<1>12. x.steps[x.next].list = "resource" /\ x.steps[x.next] # HostReload
  <2>1. /\ s = x.steps[x.next] /\ 0 \notin Comps
    BY MateriaAssumption DEF NextStep
  <2>2. QED
    BY <1>3, <1>9, <2>1 DEF Ahead, HostReload
<1>13. y.next \in {x.next, x.next + 1}
  BY <1>5 DEF Advances
<1>. HIDE DEF x, y, s, k, b, files, mine
<1>14. ASSUME NEW c \in Comps PROVE OnCourse(y, c, disk'[c], files[c], mine[c])
  <2>1. CASE c = b
    BY <1>7, <1>11, <2>1
  <2>2. CASE c # b
    <3>1. OnCourse(x, c, disk[c], files[c], mine[c]) /\ x.next \notin Ahead(x, c)
      BY <1>8, <1>9, <2>2 DEF UnderWay
    <3>2. \/ y.next = x.next /\ y.call = x.call
          \/ y.next = x.next /\ x.next \notin Ahead(x, c)
          \/ y.next = x.next + 1 /\ y.call = 1 /\ x.next \notin Ahead(x, c)
      BY <1>5, <3>1 DEF Advances
    <3>3. OnCourse(y, c, disk[c], files[c], mine[c])
      BY <1>5, <1>6, <3>1, <3>2, CourseGoesOn
    <3>4. QED
      BY <1>11, <2>2, <3>3
  <2>3. QED
    BY <2>1, <2>2
<1>15. UnitsOnCourse(y, disk', live, files, mine)
  <2>1. UnitsOnCourse(x, disk, live, files, mine)
    BY <1>8 DEF UnderWay
  <2>2. PICK m \in Left(x) : x.steps[m] = HostReload /\ x.next <= m
    <3>1. x.next \in Left(x)
      BY <1>5 DEF Left
    <3>2. QED
      BY <1>12, <2>1, <3>1 DEF UnitsOnCourse
  <2>3. m \in Left(y)
    <3>1. m # x.next
      BY <1>12, <2>2
    <3>2. QED
      BY <1>5, <1>6, <1>13, <2>2, <3>1, LeftShrinks
  <2>4. UnitsAreFiles(disk, live) /\ (\A i \in Left(y) : x.steps[i] # HostReload)
            => UnitsAreFiles(disk', live)
    BY <2>2, <2>3
  <2>5. QED
    BY <1>5, <1>6, <1>12, <1>13, <2>1, <2>4, UnitsGoOn
<1>16. OnTrack(y, disk', live, cache)
  <2>1. UnderWay(y, disk', live, files, mine)
    BY <1>14, <1>15 DEF UnderWay
  <2>2. files = FilesIn[cache] /\ mine = MineOf(y.manifest)
    BY <1>6 DEF files, mine, x
  <2>3. QED
    BY <1>6, <1>8, <2>1, <2>2 DEF OnTrack
<1>17. \A c \in Comps : FromSource(c, disk'[c]) /\ Nested(disk'[c])
  BY <1>7, <1>8, <1>11
<1>18. QED
  BY <1>4, <1>16, <1>17 DEF y

(* Nothing left on the files: the host is at rest.                         *)
LEMMA NothingLeft ==
  ASSUME NEW x, NEW hosts \in [Comps -> Directories], NEW units, NEW files,
         NEW mine \in [Comps -> BOOLEAN], UnderWay(x, hosts, units, files, mine),
         \A k \in Left(x) : x.steps[k].list # "resource"
  PROVE  AtRest(hosts, units)
<1>1. UnitsAreFiles(hosts, units)
  BY DEF UnderWay, UnitsOnCourse, HostReload
<1>2. ASSUME NEW c \in Comps PROVE Settled(hosts[c])
  <2>1. OnCourse(x, c, hosts[c], files[c], mine[c]) /\ hosts[c] \in Directories /\ mine[c] \in BOOLEAN
    BY DEF UnderWay
  <2>2. Ahead(x, c) = {}
    BY DEF Ahead, Left
  <2>3. QED
    BY <2>1, <2>2, CourseEnds
<1>3. QED
  BY <1>1, <1>2 DEF AtRest

(* What an execution that is not at a file leaves of the components'       *)
(* courses.                                                                *)
LEMMA CoursesGoOn ==
  ASSUME TypeInv, NEW r \in Runs, Executing(r), Proceed(r), NextCall(r).op \in ServiceCalls,
         NEW hosts, NEW files, NEW mine, NEW c \in Comps,
         OnCourse(run[r], c, hosts[c], files[c], mine[c])
  PROVE  OnCourse(run'[r], c, hosts[c], files[c], mine[c])
<1> DEFINE x == run[r]
           y == run'[r]
<1>1. /\ Advances(x, y) /\ DOMAIN x.steps \subseteq Nat /\ x.next \in Nat
  BY ProceedAdvances
<1>2. x.next \notin Ahead(x, c)
  BY CallOnFiles
<1>. HIDE DEF x, y
<1>3. /\ y.steps = x.steps
      /\ \/ y.next = x.next /\ x.next \notin Ahead(x, c)
         \/ y.next = x.next + 1 /\ y.call = 1 /\ x.next \notin Ahead(x, c)
  BY <1>1, <1>2 DEF Advances
<1>4. OnCourse(y, c, hosts[c], files[c], mine[c])
  BY <1>1, <1>2, <1>3, CourseGoesOn DEF x
<1>5. QED
  BY <1>4 DEF y

(* The steps on services: a job, or the daemon-reload.                     *)
LEMMA ServiceSteps ==
  ASSUME TypeInv, NEW r \in Runs, Executing(r), NextCall(r).op \in ServiceCalls
  PROVE  LET x == run[r]
             s == NextStep(r)
             k == NextCall(r)
         IN
         /\ x.next \in Left(x) /\ s = x.steps[x.next]
         /\ k.comp = s.comp /\ k.path = s.path
         /\ IF k.op = "Reload" THEN s = HostReload ELSE JobStep(s) /\ k.op = s.todo
         /\ Len(StepCalls(s)) = 1
<1> DEFINE x == run[r]
           s == NextStep(r)
           k == NextCall(r)
<1>1. /\ Prescribed(s) /\ x.next \in DOMAIN x.steps
      /\ x.call \in DOMAIN StepCalls(s) /\ k = StepCalls(s)[x.call]
  BY CallOfRun
<1>2. s = x.steps[x.next] /\ x.next \in Nat
  BY DEF NextStep, TypeInv, TypeOK, RunRecords
<1>3. /\ k.comp = s.comp /\ k.path = s.path
      /\ \/ s = HostReload /\ k.op = "Reload"
         \/ JobStep(s) /\ k.op = s.todo
         \/ ComponentStep(s) /\ k.op \in ComponentOps
         \/ PathStep(s) /\ k.op \in {"remove", "mkdir", "write"}
  BY <1>1, CallsOfSteps
<1>4. \/ s = HostReload /\ k.op = "Reload"
      \/ JobStep(s) /\ k.op = s.todo
  BY <1>3 DEF ServiceCalls, ComponentOps
<1>5. StepCalls(s) = <<Call(s.todo, s.comp, s.path, Absent)>>
  BY <1>4 DEF StepCalls, JobStep, HostReload
<1>6. x.next \in Left(x)
  BY <1>1, <1>2 DEF Left
<1>7. s.todo # "Reload" \/ s = HostReload
  BY <1>4 DEF JobStep
<1>8. QED
  BY <1>2, <1>3, <1>4, <1>5, <1>6, <1>7

LEMMA ReloadOnTrack ==
  ASSUME DropinInv, Steady, NEW r \in Runs, ReloadUnits(r)
  PROVE  OnTrack(run'[r], disk', live', cache') /\ disk' = disk
<1> DEFINE x == run[r]
           y == run'[r]
           files == FilesIn[cache]
           mine == MineOf(run[r].manifest)
<1>1. /\ TypeInv /\ At(r, "executing") /\ Executing(r) /\ Proceed(r)
      /\ NextCall(r).op = "Reload" /\ NextCall(r).op \in ServiceCalls
      /\ disk' = disk /\ cache' = cache
  BY DEF DropinInv, ReloadUnits, Executing, ServiceCalls
<1>2. /\ x.next \in Left(x) /\ x.steps[x.next] = HostReload
      /\ Len(StepCalls(x.steps[x.next])) = 1
  BY <1>1, ServiceSteps
<1>3. /\ Advances(x, y) /\ DOMAIN x.steps \subseteq Nat /\ x.next \in Nat
      /\ x.call \in 1..Len(StepCalls(x.steps[x.next]))
  BY <1>1, ProceedAdvances DEF NextStep
<1>4. /\ y.pc = "executing" /\ y.outcome = x.outcome /\ y.invalid = x.invalid
      /\ y.manifest = x.manifest /\ y.steps = x.steps
  BY <1>1, ProceedStays DEF At
<1>5. OnTrack(x, disk, live, cache) /\ UnderWay(x, disk, live, files, mine)
  BY <1>1 DEF Steady, OnTrack, At
<1>6. \A c \in Comps : OnCourse(y, c, disk[c], files[c], mine[c])
  BY <1>1, <1>5, CoursesGoOn DEF UnderWay
<1>7. UnitsAreFiles(disk, live')
  <2>1. \A c \in Comps : live'[c].loaded = [p \in Paths |-> IF p \in Containers THEN disk[c].at[p]
                                                             ELSE Absent]
    <3>1. live \in [Comps -> [loaded : [Paths -> Nat], running : [Paths -> Nat]]]
      BY <1>1 DEF TypeInv, TypeOK
    <3>2. QED
      BY <3>1 DEF ReloadUnits
  <2>2. Containers \subseteq Paths
    BY DEF Containers
  <2>3. QED
    BY <2>1, <2>2 DEF UnitsAreFiles
<1>. HIDE DEF x, y, files, mine
<1>8. y.next = x.next + 1
  BY <1>2, <1>3 DEF Advances
<1>9. /\ Left(y) = Left(x) \ {x.next} /\ \A k \in Left(x) : k \in Nat /\ k >= x.next
  BY <1>3, <1>4, <1>8, LeftShrinks
<1>10. UnitsOnCourse(x, disk, live, files, mine)
  BY <1>5 DEF UnderWay
<1>11. UnitsOnCourse(y, disk, live', files, mine)
  <2>1. ASSUME NEW k \in Left(y), y.steps[k].list = "service"
        PROVE  JobFits(y.steps[k], live', files, mine)
    <3>1. k \in Left(x) /\ k \in Nat /\ k > x.next /\ x.steps[k].list = "service"
      BY <1>3, <1>4, <1>9, <2>1
    <3>2. x.steps[x.next].list = "resource"
      BY <1>2 DEF HostReload
    <3>3. x.steps[k].todo # "Stop"
      <4>1. IF x.steps[k].todo = "Stop" THEN k < x.next ELSE x.next < k
        BY <1>2, <1>10, <3>1, <3>2 DEF UnitsOnCourse
      <4>2. QED
        BY <1>3, <3>1, <4>1
    <3>4. JobFits(x.steps[k], live, files, mine)
      BY <1>10, <3>1 DEF UnitsOnCourse
    <3>5. QED
      BY <1>4, <3>3, <3>4 DEF JobFits
  <2>2. \A j, k \in Left(y) : y.steps[j].list = "service" /\ y.steps[k].list = "resource" =>
            IF y.steps[j].todo = "Stop" THEN j < k ELSE k < j
    BY <1>4, <1>9, <1>10 DEF UnitsOnCourse
  <2>3. ASSUME NEW k \in Left(y), y.steps[k].list = "resource"
        PROVE  \E m \in Left(y) : y.steps[m] = HostReload /\ k <= m
    <3>1. k \in Left(x) /\ k \in Nat /\ k > x.next
      BY <1>3, <1>9
    <3>2. PICK m \in Left(x) : x.steps[m] = HostReload /\ k <= m
      BY <1>4, <1>10, <2>3, <3>1 DEF UnitsOnCourse
    <3>3. m \in Left(y)
      BY <1>3, <1>9, <3>1, <3>2
    <3>4. QED
      BY <1>4, <3>2, <3>3
  <2>4. QED
    BY <1>7, <2>1, <2>2, <2>3 DEF UnitsOnCourse
<1>12. UnderWay(y, disk, live', files, mine)
  BY <1>6, <1>11 DEF UnderWay
<1>13. files = FilesIn[cache] /\ mine = MineOf(y.manifest)
  BY <1>4 DEF files, mine, x
<1>14. OnTrack(y, disk, live', cache)
  BY <1>4, <1>5, <1>12, <1>13 DEF OnTrack
<1>15. QED
  BY <1>1, <1>14 DEF y

(* A service is started only when all the files are in place, and systemd  *)
(* has read them.                                                          *)
LEMMA StartsAtRest ==
  ASSUME DropinInv, Steady, NEW r \in Runs, Executing(r),
         NextCall(r).op \in ServiceCalls \ {"Reload", "Stop"}
  PROVE  LET k == NextCall(r) IN
         /\ AtRest(disk, live)
         /\ k.comp \in Comps /\ k.path \in Containers
         /\ live[k.comp].loaded[k.path] # Absent
         /\ live[k.comp].loaded[k.path] = disk[k.comp].at[k.path]
<1> DEFINE x == run[r]
           k == NextCall(r)
           files == FilesIn[cache]
           mine == MineOf(run[r].manifest)
<1>1. TypeInv /\ At(r, "executing") /\ k.op \in ServiceCalls /\ k.op # "Reload" /\ k.op # "Stop"
  BY DEF DropinInv, Executing
<1>2. /\ x.next \in Left(x) /\ JobStep(x.steps[x.next]) /\ k.op = x.steps[x.next].todo
      /\ k.comp = x.steps[x.next].comp /\ k.path = x.steps[x.next].path
  BY <1>1, ServiceSteps
<1>3. OnTrack(x, disk, live, cache) /\ UnderWay(x, disk, live, files, mine)
  BY <1>1 DEF Steady, OnTrack, At
<1>4. UnitsOnCourse(x, disk, live, files, mine)
  BY <1>3 DEF UnderWay
<1>5. k.comp \in Comps /\ k.path \in Paths /\ disk \in [Comps -> Directories]
      /\ live \in [Comps -> [loaded : [Paths -> Nat], running : [Paths -> Nat]]]
  BY <1>1, <1>2 DEF JobStep, TypeInv, TypeOK
<1>6. DOMAIN x.steps \subseteq Nat /\ x.next \in Nat /\ \A j \in Left(x) : j \in Nat /\ j >= x.next
  BY <1>1 DEF TypeInv, TypeOK, RunRecords, StepLists, Left
<1>7. mine \in [Comps -> BOOLEAN]
  BY DEF MineOf
<1>8. JobFits(x.steps[x.next], live, files, mine)
  BY <1>2, <1>4 DEF UnitsOnCourse, JobStep
<1>9. ASSUME NEW j \in Left(x), x.steps[j].list = "resource" PROVE FALSE
  <2>1. x.steps[x.next].list = "service" /\ x.steps[x.next].todo # "Stop"
    BY <1>1, <1>2 DEF JobStep
  <2>2. j < x.next
    BY <1>2, <1>4, <1>9, <2>1 DEF UnitsOnCourse
  <2>3. QED
    BY <1>6, <2>2
<1>10. AtRest(disk, live)
  BY <1>3, <1>5, <1>7, <1>9, NothingLeft
<1>11. /\ mine[k.comp] /\ k.path \in Containers /\ files[k.comp][k.path] # Absent
  BY <1>1, <1>2, <1>8 DEF JobFits
<1>12. live[k.comp].loaded[k.path] = disk[k.comp].at[k.path]
  BY <1>5, <1>10, <1>11 DEF AtRest, UnitsAreFiles
<1>13. disk[k.comp].at[k.path] = Wanted(files[k.comp], mine[k.comp], k.path)
  <2>1. k.path \in Paths \ Dropins
    BY <1>5, <1>11 DEF Containers, Dropins
  <2>2. Ahead(x, k.comp) = {}
    BY <1>9 DEF Ahead, Left
  <2>3. OnCourse(x, k.comp, disk[k.comp], files[k.comp], mine[k.comp])
    BY <1>3, <1>5 DEF UnderWay
  <2>4. QED
    BY <2>1, <2>2, <2>3 DEF OnCourse
<1>14. QED
  BY <1>5, <1>10, <1>11, <1>12, <1>13 DEF Wanted

(* A job is never refused, and a unit that fails is the last thing that    *)
(* happens to a host whose files are all in place.                         *)
LEMMA ServiceOnTrack ==
  ASSUME DropinInv, Steady, NEW r \in Runs, ServiceStep(r)
  PROVE  OnTrack(run'[r], disk', live', cache') /\ disk' = disk
<1> DEFINE x == run[r]
           y == run'[r]
           k == NextCall(r)
           files == FilesIn[cache]
           mine == MineOf(run[r].manifest)
<1>1. /\ TypeInv /\ At(r, "executing") /\ Executing(r)
      /\ k.op \in ServiceCalls /\ k.op # "Reload" /\ disk' = disk /\ cache' = cache
  BY DEF DropinInv, ServiceStep, Executing, ServiceCalls
<1>2. /\ x.next \in Left(x) /\ JobStep(x.steps[x.next]) /\ k.op = x.steps[x.next].todo
      /\ k.comp = x.steps[x.next].comp /\ k.path = x.steps[x.next].path
  BY <1>1, ServiceSteps
<1>3. OnTrack(x, disk, live, cache) /\ UnderWay(x, disk, live, files, mine)
  BY <1>1 DEF Steady, OnTrack, At
<1>4. UnitsOnCourse(x, disk, live, files, mine)
  BY <1>3 DEF UnderWay
<1>5. k.comp \in Comps /\ k.path \in Paths /\ disk \in [Comps -> Directories]
      /\ live \in [Comps -> [loaded : [Paths -> Nat], running : [Paths -> Nat]]]
  BY <1>1, <1>2 DEF JobStep, TypeInv, TypeOK
<1>6. DOMAIN x.steps \subseteq Nat /\ x.next \in Nat /\ \A j \in Left(x) : j \in Nat /\ j >= x.next
  BY <1>1 DEF TypeInv, TypeOK, RunRecords, StepLists, Left
<1>7. mine \in [Comps -> BOOLEAN]
  BY DEF MineOf
<1>8. JobFits(x.steps[x.next], live, files, mine)
  BY <1>2, <1>4 DEF UnitsOnCourse, JobStep
<1>9. ASSUME k.op # "Stop" PROVE AtRest(disk, live) /\ live[k.comp].loaded[k.path] # Absent
  BY <1>1, <1>9, StartsAtRest
<1>10. live[k.comp].loaded[k.path] # Absent
  BY <1>2, <1>8, <1>9 DEF JobFits
<1>11. \A c \in Comps : live'[c].loaded = live[c].loaded
  <2>1. \/ live' = live
        \/ \E content : live' = [live EXCEPT ![k.comp].running[k.path] = content]
    BY DEF ServiceStep
  <2>2. ASSUME NEW content, live' = [live EXCEPT ![k.comp].running[k.path] = content], NEW c \in Comps
        PROVE  live'[c].loaded = live[c].loaded
    <3>1. live[k.comp] \in [loaded : [Paths -> Nat], running : [Paths -> Nat]]
      BY <1>5
    <3>. HIDE DEF k
    <3>2. live'[c] = IF c = k.comp
                     THEN [live[c] EXCEPT !.running = [live[c].running EXCEPT ![k.path] = content]]
                     ELSE live[c]
      BY <1>5, <2>2
    <3>3. QED
      BY <1>5, <3>1, <3>2
  <2>3. QED
    BY <2>1, <2>2
<1>12. \/ Proceed(r)
       \/ k.op # "Stop" /\ Stopped(r, "unhealthy")
  BY <1>10 DEF ServiceStep
<1>13. CASE Proceed(r)
  <2>1. /\ Advances(x, y) /\ x.next \in DOMAIN x.steps
    BY <1>1, <1>13, ProceedAdvances
  <2>2. /\ y.pc = "executing" /\ y.outcome = x.outcome /\ y.invalid = x.invalid
        /\ y.manifest = x.manifest /\ y.steps = x.steps
    BY <1>1, <1>13, ProceedStays DEF At
  <2>3. \A c \in Comps : OnCourse(y, c, disk[c], files[c], mine[c])
    BY <1>1, <1>3, <1>13, CoursesGoOn DEF UnderWay
  <2>. HIDE DEF x, y, k, files, mine
  <2>4. x.steps[x.next] # HostReload
    BY <1>2 DEF JobStep, HostReload
  <2>5. UnitsAreFiles(disk, live) => UnitsAreFiles(disk, live')
    BY <1>11 DEF UnitsAreFiles
  <2>6. UnitsOnCourse(y, disk, live', files, mine)
    BY <1>4, <1>6, <1>11, <2>1, <2>2, <2>4, <2>5, UnitsGoOn DEF Advances
  <2>7. UnderWay(y, disk, live', files, mine)
    BY <2>3, <2>6 DEF UnderWay
  <2>8. files = FilesIn[cache] /\ mine = MineOf(y.manifest)
    BY <2>2 DEF files, mine, x
  <2>9. OnTrack(y, disk, live', cache)
    BY <1>3, <2>2, <2>7, <2>8 DEF OnTrack
  <2>10. QED
    BY <1>1, <2>9 DEF y
<1>14. CASE k.op # "Stop" /\ Stopped(r, "unhealthy")
  <2>1. run \in [Runs -> RunRecords]
    BY <1>1 DEF TypeInv, TypeOK
  <2>2. y = [x EXCEPT !.pc = "leaving", !.outcome = "unhealthy",
                      !.steps = <<>>, !.next = 1, !.call = 1] /\ x \in RunRecords
    BY <1>14, <2>1 DEF Stopped
  <2>3. y.pc = "leaving" /\ y.outcome = "unhealthy" /\ y.invalid = x.invalid
    BY <2>2 DEF RunRecords
  <2>4. AtRest(disk, live')
    BY <1>9, <1>11, <1>14 DEF AtRest, UnitsAreFiles
  <2>5. OnTrack(y, disk, live', cache)
    BY <1>3, <2>3, <2>4 DEF OnTrack
  <2>6. QED
    BY <1>1, <2>5
<1>15. QED
  BY <1>12, <1>13, <1>14

LEMMA CompletedOnTrack ==
  ASSUME DropinInv, Steady, NEW r \in Runs, Completed(r)
  PROVE  OnTrack(run'[r], disk', live', cache') /\ disk' = disk
<1> DEFINE x == run[r]
           y == run'[r]
           files == FilesIn[cache]
           mine == MineOf(run[r].manifest)
<1>1. /\ TypeInv /\ At(r, "executing") /\ ~Planned(r) /\ Stopped(r, "ok")
      /\ disk' = disk /\ live' = live /\ cache' = cache
  BY DEF DropinInv, Completed
<1>2. OnTrack(x, disk, live, cache) /\ UnderWay(x, disk, live, files, mine)
  BY <1>1 DEF Steady, OnTrack, At
<1>3. Left(x) = {}
  <2>1. x.steps \in Seq(Changes \cup {HostReload}) /\ x.next \in Nat
    BY <1>1 DEF TypeInv, TypeOK, RunRecords, StepLists
  <2>2. DOMAIN x.steps = 1..Len(x.steps) /\ Len(x.steps) \in Nat
    BY <2>1
  <2>3. ~(x.next <= Len(x.steps))
    BY <1>1 DEF Planned
  <2>4. QED
    BY <2>1, <2>2, <2>3 DEF Left
<1>4. AtRest(disk, live)
  <2>1. disk \in [Comps -> Directories] /\ mine \in [Comps -> BOOLEAN]
    BY <1>1 DEF TypeInv, TypeOK, MineOf
  <2>2. QED
    BY <1>2, <1>3, <2>1, NothingLeft
<1>5. y = [x EXCEPT !.pc = "leaving", !.outcome = "ok", !.steps = <<>>, !.next = 1, !.call = 1]
      /\ x \in RunRecords
  BY <1>1 DEF Stopped, TypeInv, TypeOK
<1>6. y.pc = "leaving" /\ y.outcome = "ok" /\ y.invalid = x.invalid
  BY <1>5 DEF RunRecords
<1>7. OnTrack(y, disk, live, cache)
  BY <1>2, <1>4, <1>6 DEF OnTrack
<1>8. QED
  BY <1>1, <1>7

(* Plan finds nothing in its way but a source or a unit that is not there, *)
(* and an execution begins with the plan it made.                          *)
LEMMA PlanOnTrack ==
  ASSUME WellFormed, DropinInv, Steady, NEW r \in Runs, Plan(r)
  PROVE  OnTrack(run'[r], disk', live', cache') /\ disk' = disk
<1>1. /\ TypeInv /\ At(r, "start") /\ run \in [Runs -> RunRecords] /\ run[r] \in RunRecords
      /\ disk' = disk /\ live' = live /\ cache' = cache
  BY DEF DropinInv, Plan, TypeInv, TypeOK
<1>2. OnTrack(run[r], disk, live, cache)
  BY DEF Steady
<1>3. CASE PlanOf(r).ok
  <2>1. run'[r] = [run[r] EXCEPT !.pc = "planned", !.steps = PlanOf(r).steps]
    BY <1>1, <1>3 DEF Plan, PlanOf
  <2>2. /\ run'[r].pc = "planned" /\ run'[r].outcome = run[r].outcome
        /\ run'[r].invalid = run[r].invalid /\ run'[r].manifest = run[r].manifest
        /\ run'[r].steps = PlanOf(r).steps
        /\ run'[r].next = run[r].next /\ run'[r].call = run[r].call
    BY <1>1, <2>1 DEF RunRecords
  <2>3. run[r].steps = <<>>
    BY <1>1 DEF TypeInv, TypeOK, Poised, At
  <2>4. run[r].next = 1 /\ run[r].call = 1
    BY <1>1, <2>3 DEF TypeInv, TypeOK, Poised
  <2>5. GetsPlan(r)
    BY <1>1, <1>3, <2>2, <2>4 DEF GetsPlan
  <2>6. UnderWay(run'[r], disk, live, FilesIn[cache], MineOf(run'[r].manifest))
    BY <2>5, PlannedOnTrack
  <2>7. QED
    BY <1>1, <1>2, <2>2, <2>6 DEF OnTrack
<1>4. CASE ~PlanOf(r).ok
  <2>1. run'[r] = [Resting("planFailed") EXCEPT !.rolledBack = run[r].rolledBack]
    BY <1>1, <1>4 DEF Plan, PlanOf
  <2>2. run'[r].pc = "idle" /\ run'[r].outcome = "planFailed" /\ run'[r].invalid = {}
    BY <2>1 DEF Resting
  <2>3. QED
    BY <1>1, <1>2, <2>2, RestKept DEF At
<1>5. QED
  BY <1>3, <1>4

LEMMA BeginOnTrack ==
  ASSUME DropinInv, Steady, NEW r \in Runs, BeginExecute(r)
  PROVE  OnTrack(run'[r], disk', live', cache') /\ disk' = disk
<1> DEFINE x == run[r]
           y == run'[r]
           files == FilesIn[cache]
           mine == MineOf(run[r].manifest)
<1>1. /\ TypeInv /\ At(r, "planned") /\ run \in [Runs -> RunRecords] /\ x \in RunRecords
      /\ disk' = disk /\ live' = live /\ cache' = cache
  BY DEF DropinInv, BeginExecute, TypeInv, TypeOK
<1>2. y = [x EXCEPT !.pc = "executing"]
  BY <1>1 DEF BeginExecute
<1>3. /\ y.pc = "executing" /\ y.outcome = x.outcome /\ y.invalid = x.invalid
      /\ y.manifest = x.manifest /\ y.steps = x.steps /\ y.next = x.next /\ y.call = x.call
  BY <1>1, <1>2 DEF RunRecords
<1>4. OnTrack(x, disk, live, cache) /\ UnderWay(x, disk, live, files, mine)
  BY <1>1 DEF Steady, OnTrack, At
<1>5. DOMAIN x.steps \subseteq Nat /\ x.next \in Nat
  BY <1>1 DEF RunRecords, StepLists
<1>. HIDE DEF x, y, files, mine
<1>6. \A c \in Comps : OnCourse(y, c, disk[c], files[c], mine[c])
  BY <1>3, <1>4, <1>5, CourseGoesOn DEF UnderWay
<1>7. UnitsOnCourse(y, disk, live, files, mine)
  BY <1>3, <1>4 DEF UnderWay, UnitsOnCourse, Left
<1>8. UnderWay(y, disk, live, files, mine)
  BY <1>6, <1>7 DEF UnderWay
<1>9. files = FilesIn[cache] /\ mine = MineOf(y.manifest)
  BY <1>3 DEF files, mine, x
<1>10. OnTrack(y, disk, live, cache)
  BY <1>3, <1>4, <1>8, <1>9 DEF OnTrack
<1>11. QED
  BY <1>1, <1>10 DEF y

(* The other phases leave a host at rest at rest: there is nothing to      *)
(* purge.                                                                  *)
LEMMA RestingOnTrack ==
  ASSUME TypeInv, Steady, NEW r \in Runs,
         \/ Setup(r) \/ Unlock(r) \/ ValidateComponents(r) \/ Return(r) \/ RollbackSource(r)
  PROVE  OnTrack(run'[r], disk', live', cache') /\ disk' = disk
<1> DEFINE x == run[r]
           y == run'[r]
<1>1. run \in [Runs -> RunRecords] /\ x \in RunRecords
  BY DEF TypeInv, TypeOK
<1>2. OnTrack(x, disk, live, cache) /\ x.invalid = {} /\ x.outcome # "refused"
  BY DEF Steady, OnTrack
<1>3. /\ disk' = disk /\ live' = live /\ x.pc \notin {"planned", "executing"}
  BY DEF Setup, Unlock, ValidateComponents, Return, RollbackSource, At
<1>4. /\ Returned(r).pc \notin {"planned", "executing"}
      /\ Returned(r).outcome # "refused" /\ Returned(r).invalid = {}
  BY <1>1, <1>2 DEF Returned, Resting, RunRecords
<1>5. y.pc \notin {"planned", "executing"} /\ y.outcome # "refused" /\ y.invalid = {}
  <2>1. CASE Setup(r)
    BY <1>1, <2>1 DEF Setup, Resting
  <2>2. CASE Unlock(r)
    <3>1. y = Returned(r) \/ y = [x EXCEPT !.pc = "validating"]
      BY <1>1, <2>2 DEF Unlock
    <3>2. QED
      BY <1>1, <1>2, <1>4, <3>1 DEF RunRecords
  <2>3. CASE ValidateComponents(r)
    <3>1. y = [x EXCEPT !.pc = "purging", !.invalid = {c \in Comps : Corrupt(disk[c])}]
      BY <1>1, <2>3 DEF ValidateComponents
    <3>2. AtRest(disk, live)
      BY <1>2, <1>3 DEF OnTrack
    <3>3. {c \in Comps : Corrupt(disk[c])} = {}
      BY <3>2 DEF AtRest, Settled, AtHome, Corrupt, Loads
    <3>4. QED
      BY <1>1, <1>2, <3>1, <3>3 DEF RunRecords
  <2>4. CASE Return(r)
    <3>1. y = Returned(r)
      BY <1>1, <2>4 DEF Return
    <3>2. QED
      BY <1>4, <3>1
  <2>5. CASE RollbackSource(r)
    <3>1. \/ y = Resting("noRollback")
          \/ y = [x EXCEPT !.pc = "start", !.rolledBack = TRUE, !.outcome = "none"]
      BY <1>1, <2>5 DEF RollbackSource
    <3>2. CASE y = Resting("noRollback")
      BY <3>2 DEF Resting
    <3>3. CASE y = [x EXCEPT !.pc = "start", !.rolledBack = TRUE, !.outcome = "none"]
      <4>1. y.pc = "start" /\ y.outcome = "none" /\ y.invalid = x.invalid
        BY <1>1, <3>3 DEF RunRecords
      <4>2. QED
        BY <1>2, <4>1
    <3>4. QED
      BY <3>1, <3>2, <3>3
  <2>6. QED
    BY <2>1, <2>2, <2>3, <2>4, <2>5
<1>. HIDE DEF x, y
<1>6. OnTrack(y, disk, live, cache')
  BY <1>2, <1>3, <1>5, RestKept
<1>7. QED
  BY <1>3, <1>6 DEF y

LEMMA StepOnTrack ==
  ASSUME WellFormed, DropinInv, Steady, NEW r \in Runs, StepOf(r), Uninterrupted'
  PROVE  /\ OnTrack(run'[r], disk', live', cache')
         /\ \A c \in Comps : FromSource(c, disk'[c]) /\ Nested(disk'[c])
<1>1. TypeInv /\ faults \in Nat /\ crashes \in Nat
  BY DEF DropinInv, TypeInv, TypeOK
<1>2. \A c \in Comps : FromSource(c, disk[c]) /\ Nested(disk[c])
  BY DEF Steady
<1>3. CASE FileStep(r)
  BY <1>3, FileStepOnTrack
<1>4. ASSUME OnTrack(run'[r], disk', live', cache') /\ disk' = disk
      PROVE  /\ OnTrack(run'[r], disk', live', cache')
             /\ \A c \in Comps : FromSource(c, disk'[c]) /\ Nested(disk'[c])
  BY <1>2, <1>4
<1>5. CASE Plan(r)
  BY <1>4, <1>5, PlanOnTrack
<1>6. CASE BeginExecute(r)
  BY <1>4, <1>6, BeginOnTrack
<1>7. CASE ReloadUnits(r)
  BY <1>4, <1>7, ReloadOnTrack
<1>8. CASE ServiceStep(r)
  BY <1>4, <1>8, ServiceOnTrack
<1>9. CASE Completed(r)
  BY <1>4, <1>9, CompletedOnTrack
<1>10. CASE \/ Setup(r) \/ Unlock(r) \/ ValidateComponents(r) \/ Return(r) \/ RollbackSource(r)
  BY <1>1, <1>4, <1>10, RestingOnTrack
<1>11. CASE \E c \in Comps : Purge(r, c)
  BY <1>11 DEF Purge, Steady, OnTrack
<1>12. CASE Fault(r) \/ Crash(r)
  BY <1>1, <1>12 DEF Fault, Crash, Uninterrupted
<1>13. QED
  BY <1>3, <1>5, <1>6, <1>7, <1>8, <1>9, <1>10, <1>11, <1>12 DEF StepOf, Execute, CleanUp

(* A drop-in of a component that stays disturbs nothing.                   *)
LEMMA DropinOffCourse ==
  ASSUME NEW d \in Directories, Loads(d), NEW p \in Paths, KindOf[p] = "Dropin",
         NEW c \in Comps
  PROVE  LET e == WithDropin(d, p) IN
         /\ e \in Directories
         /\ e.data = d.data /\ e.quadlets = d.quadlets /\ e.managed = d.managed
         /\ e.version = d.version
         /\ \A q \in Paths \ Dropins : e.at[q] = d.at[q]
         /\ Nested(d) => Nested(e)
         /\ FromSource(c, d) => FromSource(c, e)
         /\ Settled(d) => Settled(e)
<1> DEFINE e == WithDropin(d, p)
<1>1. /\ e \in Directories /\ e.at = [q \in Paths |-> IF q \in {p, Within[p]} THEN Blank ELSE d.at[q]]
      /\ e.data = d.data /\ e.quadlets = d.quadlets /\ e.managed = d.managed
      /\ e.version = d.version
  BY DEF WithDropin, Directories, Blank
<1>2. p \in Dropins /\ (Within[p] # 0 => Within[p] \in Dropins /\ KindOf[Within[p]] = "DropinDir")
  BY RepositoryAssumption DEF Dropins
<1>3. 0 \notin Paths /\ Manifest \in Paths \ Dropins
  BY RepositoryAssumption DEF Dropins
<1>. HIDE DEF e
<1>4. \A q \in Paths \ Dropins : e.at[q] = d.at[q]
  BY <1>1, <1>2, <1>3
<1>5. ASSUME Nested(d) PROVE Nested(e)
  <2>1. SUFFICES ASSUME NEW q \in Held(e), Within[q] # 0 PROVE e.at[Within[q]] # Absent
    BY DEF Nested
  <2>2. q \in Paths /\ Within[q] \in Paths
    BY <2>1, RepositoryAssumption DEF Held
  <2>3. CASE q = p
    BY <1>1, <2>2, <2>3 DEF Blank, Absent
  <2>4. CASE q = Within[p]
    BY <1>2, <2>1, <2>2, <2>4, RepositoryAssumption
  <2>5. CASE q \notin {p, Within[p]}
    <3>1. q \in Held(d)
      BY <1>1, <2>1, <2>2, <2>5 DEF Held
    <3>2. d.at[Within[q]] # Absent
      BY <1>5, <2>1, <3>1 DEF Nested
    <3>3. QED
      BY <1>1, <2>2, <3>2 DEF Blank, Absent
  <2>6. QED
    BY <2>3, <2>4, <2>5
<1>6. FromSource(c, d) => FromSource(c, e)
  BY <1>4 DEF FromSource
<1>7. Settled(d) => Settled(e)
  BY <1>1, <1>3, <1>4 DEF Settled, AtHome, Loads
<1>8. QED
  BY <1>1, <1>4, <1>5, <1>6, <1>7 DEF e

LEMMA DropinOnCourse ==
  ASSUME NEW x, NEW c \in Comps, NEW d, NEW e, NEW files, OnCourse(x, c, d, files, TRUE),
         e.data = d.data, e.quadlets = d.quadlets, e.managed = d.managed, e.version = d.version,
         \A q \in Paths \ Dropins : e.at[q] = d.at[q]
  PROVE  OnCourse(x, c, e, files, TRUE)
<1>1. \A k \in Ahead(x, c) : x.steps[k].kind # "Component" => x.steps[k].path \in Paths \ Dropins
  BY CourseOfStep
<1>2. HomeOnCourse(x, c, e, TRUE)
  BY DEF OnCourse, HomeOnCourse, HomeAt, AtHome
<1>3. QED
  BY <1>1, <1>2 DEF OnCourse

(* What the user and the newest commit leave of it.                        *)
LEMMA EnvironmentOnTrack ==
  ASSUME DropinInv, Steady,
         (\E c \in Comps : RunDoctor(c) \/ WriteDropin(c)) \/ Commit \/ UNCHANGED vars
  PROVE  Steady'
<1>1. TypeInv /\ disk \in [Comps -> Directories]
  BY DEF DropinInv, TypeInv, TypeOK
<1>2. CASE Commit \/ UNCHANGED vars
  <2>1. UNCHANGED <<cache, disk, live, run>>
    BY <1>2 DEF Commit, vars
  <2>2. QED
    BY <2>1 DEF Steady
<1>3. ASSUME NEW c \in Comps, RunDoctor(c) PROVE FALSE
  <2>1. AtRest(disk, live) /\ Corrupt(disk[c])
    BY <1>3 DEF RunDoctor, Steady, OnTrack, At
  <2>2. QED
    BY <2>1 DEF AtRest, Settled, AtHome, Corrupt, Loads
<1>4. ASSUME NEW b \in Comps, WriteDropin(b) PROVE Steady'
  <2>1. PICK p \in Paths : KindOf[p] = "Dropin" /\ disk' = [disk EXCEPT ![b] = WithDropin(disk[b], p)]
    BY <1>4 DEF WriteDropin
  <2>2. b \in UserDropins /\ Loads(disk[b]) /\ UNCHANGED <<cache, live, run>>
    BY <1>4 DEF WriteDropin
  <2>3. disk'[b] = WithDropin(disk[b], p) /\ \A c \in Comps \ {b} : disk'[c] = disk[c]
    BY <1>1, <2>1
  <2>4. /\ disk'[b].data = disk[b].data /\ disk'[b].quadlets = disk[b].quadlets
        /\ disk'[b].managed = disk[b].managed /\ disk'[b].version = disk[b].version
        /\ \A q \in Paths \ Dropins : disk'[b].at[q] = disk[b].at[q]
        /\ Nested(disk[b]) => Nested(disk'[b])
        /\ FromSource(b, disk[b]) => FromSource(b, disk'[b])
        /\ Settled(disk[b]) => Settled(disk'[b])
    BY <1>1, <2>1, <2>2, <2>3, DropinOffCourse
  <2>5. UnitsAreFiles(disk, live) => UnitsAreFiles(disk', live)
    <3>1. Containers \subseteq Paths \ Dropins
      BY DEF Containers, Dropins
    <3>2. QED
      BY <2>3, <2>4, <3>1 DEF UnitsAreFiles
  <2>6. \A c \in Comps : FromSource(c, disk'[c]) /\ Nested(disk'[c])
    BY <2>3, <2>4 DEF Steady
  <2>7. ASSUME NEW r \in Runs PROVE OnTrack(run[r], disk', live, cache)
    <3> DEFINE x == run[r]
               files == FilesIn[cache]
               mine == MineOf(x.manifest)
    <3>1. OnTrack(x, disk, live, cache)
      BY DEF Steady
    <3>2. CASE x.pc \notin {"planned", "executing"}
      <4>1. AtRest(disk', live)
        BY <2>3, <2>4, <2>5, <3>1, <3>2 DEF OnTrack, AtRest
      <4>2. QED
        BY <3>1, <3>2, <4>1 DEF OnTrack
    <3>3. CASE x.pc \in {"planned", "executing"}
      <4>1. UnderWay(x, disk, live, files, mine)
        BY <3>1, <3>3 DEF OnTrack
      <4>2. mine[b] = TRUE
        <5>1. x.manifest # 0
          BY <1>1, <3>3 DEF TypeInv, TypeOK, Poised, At
        <5>2. b \in AssignedIn[x.manifest]
          BY <2>2, <5>1 DEF DropinInv, UserStays, Loads
        <5>3. QED
          BY <5>2 DEF MineOf
      <4>. HIDE DEF x, files, mine
      <4>3. ASSUME NEW c \in Comps PROVE OnCourse(x, c, disk'[c], files[c], mine[c])
        <5>1. OnCourse(x, c, disk[c], files[c], mine[c])
          BY <4>1 DEF UnderWay
        <5>2. CASE c = b
          <6>1. OnCourse(x, b, disk[b], files[b], TRUE)
            BY <4>2, <5>1, <5>2
          <6>2. OnCourse(x, b, disk'[b], files[b], TRUE)
            BY <2>4, <6>1, DropinOnCourse
          <6>3. QED
            BY <4>2, <5>2, <6>2
        <5>3. QED
          BY <2>3, <5>1, <5>2
      <4>4. UnitsOnCourse(x, disk', live, files, mine)
        BY <2>5, <4>1 DEF UnderWay, UnitsOnCourse
      <4>5. UnderWay(x, disk', live, files, mine)
        BY <4>3, <4>4 DEF UnderWay
      <4>6. QED
        BY <3>1, <3>3, <4>5 DEF OnTrack, x, files, mine
    <3>4. QED
      BY <3>2, <3>3
  <2>8. QED
    BY <2>2, <2>6, <2>7 DEF Steady
<1>5. QED
  BY <1>2, <1>3, <1>4

(* As long as nothing interrupts it, the process and the host are on       *)
(* course, or at rest.                                                     *)
SteadyInv == DropinInv /\ (Uninterrupted => Steady)

LEMMA SteadyInitial == Init => SteadyInv
<1>1. SUFFICES ASSUME Init PROVE Steady
  BY DropinsInitial DEF SteadyInv
<1>2. Manifest \in Paths /\ 0 \notin Paths
  BY RepositoryAssumption
<1>3. \A c \in Comps : disk[c] = NoComponent
  BY <1>1 DEF Init
<1>4. /\ \A p \in Paths : NoComponent.at[p] = Absent
      /\ ~NoComponent.data /\ ~NoComponent.quadlets /\ ~NoComponent.managed
  BY DEF NoComponent
<1>5. UnitsAreFiles(disk, live)
  <2>1. Containers \subseteq Paths
    BY DEF Containers
  <2>2. QED
    BY <1>1, <1>3, <1>4, <2>1 DEF Init, UnitsAreFiles
<1>6. AtRest(disk, live)
  BY <1>3, <1>4, <1>5 DEF AtRest, Settled, Gone
<1>7. ASSUME NEW r \in Runs PROVE OnTrack(run[r], disk, live, cache)
  <2>1. run[r] = Resting("none")
    BY <1>1 DEF Init
  <2>2. run[r].pc = "idle" /\ run[r].outcome = "none" /\ run[r].invalid = {}
    BY <2>1 DEF Resting
  <2>3. QED
    BY <1>6, <2>2 DEF OnTrack
<1>8. \A c \in Comps : FromSource(c, disk[c]) /\ Nested(disk[c])
  BY <1>3, <1>4 DEF FromSource, Nested, Held
<1>9. QED
  BY <1>7, <1>8 DEF Steady

(* What was interrupted stays interrupted.                                 *)
LEMMA InterruptionsStay ==
  ASSUME TypeInv, [Next]_vars, Uninterrupted'
  PROVE  Uninterrupted
<1>1. faults \in Nat /\ crashes \in Nat
  BY DEF TypeInv, TypeOK
<1>2. ASSUME NEW r \in Runs, StepOf(r) PROVE Uninterrupted
  <2>1. CASE Setup(r) \/ Plan(r) \/ BeginExecute(r) \/ Execute(r)
    BY <2>1 DEF Setup, Plan, BeginExecute, Execute, FileStep, ReloadUnits, ServiceStep,
                Completed, Unlock, Uninterrupted
  <2>2. CASE CleanUp(r)
    BY <2>2 DEF CleanUp, ValidateComponents, Purge, Return, RollbackSource, Uninterrupted
  <2>3. CASE Fault(r) \/ Crash(r)
    BY <1>1, <2>3 DEF Fault, Crash, Uninterrupted
  <2>4. QED
    BY <1>2, <2>1, <2>2, <2>3 DEF StepOf
<1>3. CASE (\E c \in Comps : RunDoctor(c) \/ WriteDropin(c)) \/ Commit \/ UNCHANGED vars
  BY <1>3 DEF RunDoctor, WriteDropin, Commit, vars, Uninterrupted
<1>4. QED
  BY <1>2, <1>3 DEF Next, StepOf

LEMMA SteadyKept ==
  ASSUME \A r, s \in Runs : r = s, Unwavering, WellFormed, SteadyInv, [Next]_vars
  PROVE  SteadyInv'
<1>1. DropinInv /\ TypeInv
  BY DEF SteadyInv, DropinInv
<1>2. \/ \E r \in Runs : StepOf(r)
      \/ (\E c \in Comps : RunDoctor(c) \/ WriteDropin(c)) \/ Commit \/ UNCHANGED vars
  BY DEF Next, StepOf
<1>3. DropinInv'
  BY <1>1, <1>2, DropinsStepByRun, DropinsStepByEnvironment
<1>4. SUFFICES ASSUME Uninterrupted' PROVE Steady'
  BY <1>3 DEF SteadyInv
<1>5. Steady
  BY <1>1, <1>4, InterruptionsStay DEF SteadyInv
<1>6. ASSUME NEW r \in Runs, StepOf(r) PROVE Steady'
  <2>1. /\ OnTrack(run'[r], disk', live', cache')
        /\ \A c \in Comps : FromSource(c, disk'[c]) /\ Nested(disk'[c])
    BY <1>1, <1>4, <1>5, <1>6, StepOnTrack
  <2>2. QED
    BY <2>1 DEF Steady
<1>7. QED
  BY <1>1, <1>2, <1>5, <1>6, EnvironmentOnTrack

LEMMA StaysSteady ==
  ASSUME \A r, s \in Runs : r = s, Unwavering, WellFormed
  PROVE  Spec => []SteadyInv
<1>1. SteadyInv /\ [Next]_vars => SteadyInv'
  BY SteadyKept
<1>2. QED
  BY <1>1, SteadyInitial, PTL DEF Spec

-----------------------------------------------------------------------------
(* What an update does when nothing interrupts it *)

(* One process nothing interrupts: the plan of every update, removal and   *)
(* installation is in an order the file system and systemd accept, so no   *)
(* step of it is ever refused.                                             *)
THEOREM StepsApply ==
  ASSUME \A r, s \in Runs : r = s, Unwavering, WellFormed
  PROVE  Spec => [](Uninterrupted => PlannedStepsApply)
<1>1. SteadyInv => (Uninterrupted => PlannedStepsApply)
  BY DEF SteadyInv, Steady, OnTrack, PlannedStepsApply
<1>2. QED
  BY <1>1, StaysSteady, PTL

(* It starts every service from the file the plan has put on the disk: the *)
(* files come first, then the daemon-reload, then the starts.              *)
THEOREM StartsInstalled ==
  ASSUME \A r, s \in Runs : r = s, Unwavering, WellFormed
  PROVE  Spec => [](Uninterrupted => StartsWhatIsInstalled)
<1>1. ASSUME SteadyInv, Uninterrupted PROVE StartsWhatIsInstalled
  BY <1>1, StartsAtRest DEF SteadyInv, StartsWhatIsInstalled, ServiceCalls
<1>2. QED
  BY <1>1, StaysSteady, PTL

(* What an update that runs to the end of its plan leaves of a component.  *)
Delivered(d, files, mine) ==
    IF mine
    THEN AtHome(d) /\ Loads(d) /\ \A p \in Paths \ Dropins : d.at[p] = files[p]
    ELSE Gone(d) /\ Held(d) = {}

DeliversAll ==
    \A r \in Runs : Completed(r) =>
        /\ UnitsAreFiles(disk, live)
        /\ \A c \in Comps :
              Delivered(disk[c], FilesIn[cache][c], c \in AssignedIn[run[r].manifest])

(* An update nothing interrupts that comes to the end of its plan has      *)
(* brought the host to the source: every assigned component holds just the *)
(* files the revision gives it, nothing is left of the others, and systemd *)
(* has the units of those files.                                           *)
THEOREM UpdateDelivers ==
  ASSUME \A r, s \in Runs : r = s, Unwavering, WellFormed
  PROVE  Spec => [][Uninterrupted => DeliversAll]_vars
<1>1. ASSUME SteadyInv, Uninterrupted, NEW r \in Runs, Completed(r), NEW c \in Comps
      PROVE  /\ UnitsAreFiles(disk, live)
             /\ Delivered(disk[c], FilesIn[cache][c], c \in AssignedIn[run[r].manifest])
  <2> DEFINE x == run[r]
             d == disk[c]
             files == FilesIn[cache]
             mine == MineOf(run[r].manifest)
  <2>1. TypeInv /\ At(r, "executing") /\ ~Planned(r) /\ Steady
    BY <1>1 DEF SteadyInv, DropinInv, Completed
  <2>2. UnderWay(x, disk, live, files, mine)
    BY <2>1 DEF Steady, OnTrack, At
  <2>3. Left(x) = {}
    <3>1. x.steps \in Seq(Changes \cup {HostReload}) /\ x.next \in Nat
      BY <2>1 DEF TypeInv, TypeOK, RunRecords, StepLists
    <3>2. DOMAIN x.steps = 1..Len(x.steps) /\ Len(x.steps) \in Nat
      BY <3>1
    <3>3. ~(x.next <= Len(x.steps))
      BY <2>1 DEF Planned
    <3>4. QED
      BY <3>1, <3>2, <3>3 DEF Left
  <2>4. /\ disk \in [Comps -> Directories] /\ d \in Directories /\ mine \in [Comps -> BOOLEAN]
        /\ mine[c] = (c \in AssignedIn[run[r].manifest])
    <3>1. disk \in [Comps -> Directories]
      BY <2>1 DEF TypeInv, TypeOK
    <3>2. mine \in [Comps -> BOOLEAN]
      BY DEF MineOf
    <3>3. mine[c] = (c \in AssignedIn[run[r].manifest])
      BY DEF MineOf
    <3>4. QED
      BY <3>1, <3>2, <3>3
  <2>. HIDE DEF x, d, files, mine
  <2>5. UnitsAreFiles(disk, live)
    BY <2>2, <2>3, <2>4, NothingLeft DEF AtRest
  <2>6. OnCourse(x, c, d, files[c], mine[c]) /\ Ahead(x, c) = {}
    BY <2>2, <2>3 DEF UnderWay, Ahead, Left, d
  <2>7. \A p \in Paths \ Dropins : d.at[p] = Wanted(files[c], mine[c], p)
    BY <2>6 DEF OnCourse
  <2>8. IF mine[c] THEN AtHome(d) ELSE Gone(d)
    BY <2>6 DEF OnCourse, HomeOnCourse
  <2>9. Manifest \in Paths \ Dropins
    BY RepositoryAssumption DEF Dropins
  <2>10. CASE mine[c]
    <3>1. files[c][Manifest] # Absent
      BY <2>6, <2>10 DEF OnCourse
    <3>2. AtHome(d) /\ Loads(d) /\ \A p \in Paths \ Dropins : d.at[p] = files[c][p]
      BY <2>7, <2>8, <2>9, <2>10, <3>1 DEF Wanted, AtHome, Loads
    <3>3. QED
      BY <2>4, <2>5, <2>10, <3>2 DEF Delivered, d, files
  <2>11. CASE ~mine[c]
    <3>1. \A p \in Dropins : d.at[p] = Absent
      BY <2>6, <2>11 DEF OnCourse
    <3>2. Held(d) = {} /\ Gone(d)
      BY <2>7, <2>8, <2>11, <3>1 DEF Wanted, Held
    <3>3. QED
      BY <2>4, <2>5, <2>11, <3>2 DEF Delivered, d
  <2>12. QED
    BY <2>10, <2>11
<1>2. ASSUME SteadyInv, Uninterrupted PROVE DeliversAll
  <2>1. ASSUME NEW r \in Runs, Completed(r)
        PROVE  /\ UnitsAreFiles(disk, live)
               /\ \A c \in Comps :
                    Delivered(disk[c], FilesIn[cache][c], c \in AssignedIn[run[r].manifest])
    <3>1. UnitsAreFiles(disk, live)
      <4>1. CASE Comps = {}
        BY <4>1 DEF UnitsAreFiles
      <4>2. QED
        BY <1>1, <1>2, <2>1, <4>1
    <3>2. QED
      BY <1>1, <1>2, <2>1, <3>1
  <2>2. QED
    BY <2>1 DEF DeliversAll
<1>3. SteadyInv => [Uninterrupted => DeliversAll]_vars
  BY <1>2
<1>4. QED
  BY <1>3, StaysSteady, PTL

=============================================================================
