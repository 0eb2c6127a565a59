---------------------------- MODULE Sources_proofs ----------------------------
(***************************************************************************)
(* Proofs about module Sources: a sync is current, an update has the       *)
(* remotes its manifest names, a rollback undoes the sync, for any         *)
(* repositories, manifests, faults, rollbacks and requests.                *)
(***************************************************************************)
EXTENDS Sources, TLAPS

-----------------------------------------------------------------------------
(* The inductive invariant *)

Loops == {"setup", "sync", "rollback"}
Clones == [head : Nat, branch : Nat, fetched : Nat, detached : BOOLEAN]

(* No clone is ahead of its remote, nor a remote of its last commit.       *)
Shape ==
    /\ origin \in [Srcs -> Nat \ {0}] /\ since \in [Srcs -> Nat \ {0}] /\ before \in [Srcs -> Nat]
    /\ repo \in [Srcs -> Clones]
    /\ \A s \in Srcs :
          /\ repo[s].head <= repo[s].fetched /\ repo[s].branch <= repo[s].fetched
          /\ repo[s].fetched <= origin[s] /\ since[s] <= origin[s]
          /\ origin[s] <= LastCommit[s]
    /\ report \in [Srcs -> Nat \cup {NoReport}]
    /\ list \in Seq(Srcs) /\ next \in Nat \ {0} /\ left \subseteq Remotes
    /\ old \in Nat /\ revision \in Nat
    /\ pc \in Loops \cup {"idle", "load", "ready"}
    /\ mode \in {"update", "server"}
    /\ step \in {"open", "branch", "pull", "revision"}
    /\ at \in Srcs \cup {NoSource}

(* A sync of a source is one of a loop, of the source whose turn it is.    *)
TurnTaken ==
    IF step = "open" THEN at = NoSource
    ELSE /\ at \in Srcs
         /\ IF pc = "load" THEN at \in left
            ELSE pc \in Loops /\ next <= Len(list) /\ list[next] = at
         /\ (step = "revision") = (Wanted(at) # 0)
         /\ pc = "rollback" => report[at] \notin {NoReport, 0}

(* No source has two turns, and LoadRemotes adds those of the manifest.    *)
NoRepeats ==
    /\ \A i, j \in DOMAIN list : list[i] = list[j] => i = j
    /\ pc = "setup" => list = <<Primary>> /\ revision = 0
    /\ pc = "load" =>
          /\ revision = 0
          /\ left \cap Listed = {}
          /\ Listed \cup left = {Primary} \cup RemotesIn[repo[Primary].head]

(* The sources whose turn is over.                                         *)
Passed(s) == \E i \in DOMAIN list : i < next /\ list[i] = s

Current ==
    \A s \in Listed :
        \/ pc \in {"setup", "sync"} /\ revision = 0 /\ Passed(s)
        \/ pc = "load"
        \/ pc = "ready" /\ outcome = "synced" /\ revision = 0
        => repo[s].head >= since[s]

(* Only a process that was not a server rolls back, to what it found.      *)
Remembers ==
    /\ outcome = "rolledBack" => pc = "idle"
    /\ pc = "sync" => mode = "server"
    /\ pc = "rollback" => mode = "update"
    /\ pc \in {"setup", "load"} \/ (pc = "ready" /\ mode = "update") =>
          \A s \in Srcs : report[s] \in {NoReport, before[s]}
    /\ pc \in {"setup", "load"} /\ step # "open" => old = before[at]
    /\ \A s \in Srcs \ {at} :
          (pc = "setup" /\ ~Passed(s)) \/ (pc = "load" /\ s \in left)
              => repo[s].head = before[s]
    /\ pc = "rollback" => \A i \in DOMAIN list :
          IF i < next THEN repo[list[i]].head = before[list[i]]
          ELSE report[list[i]] \in {NoReport, before[list[i]]}

IInv ==
    Shape /\ TurnTaken /\ NoRepeats /\ Current /\ Remembers /\ RemotesLoaded /\ RollbackUndoes

-----------------------------------------------------------------------------
(* What the actions of a turn have in common *)

HasTurn(s) ==
    IF pc = "load" THEN s \in left
    ELSE pc \in Loops /\ next <= Len(list) /\ list[next] = s

(* A clone that is as far as its remote allows.                            *)
Fits(c, s) ==
    /\ c \in Clones
    /\ c.head <= c.fetched /\ c.branch <= c.fetched /\ c.fetched <= origin[s]

LEMMA Appended ==
  ASSUME NEW S, NEW q \in Seq(S), NEW e \in S
  PROVE  /\ Append(q, e) \in Seq(S)
         /\ DOMAIN Append(q, e) = DOMAIN q \cup {Len(q) + 1} /\ Len(q) + 1 \notin DOMAIN q
         /\ Append(q, e)[Len(q) + 1] = e
         /\ \A i \in DOMAIN q : Append(q, e)[i] = q[i]
<1> DEFINE longer == Append(q, e)
<1>1. longer \in Seq(S) /\ Len(q) \in Nat /\ Len(longer) = Len(q) + 1 /\ longer[Len(q) + 1] = e
  OBVIOUS
<1>2. DOMAIN q = 1..Len(q) /\ DOMAIN longer = 1..Len(q) + 1
  BY <1>1
<1>3. \A i \in 1..Len(q) : longer[i] = q[i]
  OBVIOUS
<1> QED
  BY <1>1, <1>2, <1>3

LEMMA Positions ==
  ASSUME Shape
  PROVE  /\ DOMAIN list = 1..Len(list) /\ Len(list) \in Nat /\ next \in Nat \ {0}
         /\ \A i \in DOMAIN list : i \in Nat /\ list[i] \in Srcs
<1>1. list \in Seq(Srcs) /\ next \in Nat \ {0}
  BY DEF Shape
<1> QED
  BY <1>1

(* Outside LoadRemotes the turn is that of one place in the list.          *)
LEMMA OneTurn ==
  ASSUME Shape, NoRepeats, NEW s, HasTurn(s), pc # "load"
  PROVE  next \in DOMAIN list /\ list[next] = s
         /\ \A i \in DOMAIN list : i # next => list[i] # s
<1>1. next \in DOMAIN list /\ list[next] = s
  BY Positions DEF HasTurn
<1> QED
  BY <1>1 DEF NoRepeats

LEMMA AbandonedTurn ==
  ASSUME IInv, step' = "open", at' = NoSource, old' = 0,
         pc' = "idle" \/ (pc' = "ready" /\ mode = "server"),
         outcome' \notin {"synced", "rolledBack"},
         UNCHANGED <<origin, repo, opts, loop, history>>
  PROVE  IInv'
<1> USE DEF opts, loop, history
<1>1. Shape'
  BY DEF IInv, Shape
<1>2. TurnTaken'
  BY DEF TurnTaken
<1>3. NoRepeats' /\ Current' /\ Remembers' /\ RemotesLoaded' /\ RollbackUndoes'
  BY DEF IInv, NoRepeats, Listed, Current, Remembers, RemotesLoaded, RollbackUndoes, Loops, Shape
<1> QED
  BY <1>1, <1>2, <1>3 DEF IInv

(* The clone of the source whose turn it is changes, and the turn goes on. *)
LEMMA TurnGoesOn ==
  ASSUME IInv, NEW s \in Srcs, NEW c, HasTurn(s), at \in {s, NoSource}, Fits(c, s),
         repo' = [repo EXCEPT ![s] = c],
         at' = s, step' \in {"branch", "pull", "revision"},
         (step' = "revision") = (Wanted(s) # 0),
         pc = "rollback" => report[s] \notin {NoReport, 0},
         old' \in Nat, pc \in {"setup", "load"} => old' = before[s],
         UNCHANGED <<origin, pc, opts, loop, outcome, history>>
  PROVE  IInv'
<1> USE SourcesAssumption DEF opts, loop, history
<1>1. /\ repo'[s] = c
      /\ \A r \in Srcs \ {s} : repo'[r] = repo[r]
      /\ NoSource \notin Srcs
  BY DEF IInv, Shape, Srcs
<1>2. pc \in Loops \cup {"load"} /\ pc \notin {"idle", "ready"}
  BY DEF HasTurn, Loops
<1>3. Shape'
  BY DEF IInv, Shape, Fits
<1>4. TurnTaken'
  <2>1. Wanted(s)' = Wanted(s)
    BY DEF Wanted
  <2> QED
    BY <2>1 DEF HasTurn, TurnTaken
<1>5. /\ \A i \in DOMAIN list : list[i] \in Srcs
      /\ \A i \in DOMAIN list : i < next /\ pc # "load" => list[i] # s
  BY Positions, OneTurn DEF IInv
<1>6. NoRepeats'
  <2>1. ASSUME pc = "load" PROVE s # Primary
    BY <2>1 DEF HasTurn, IInv, Shape, Srcs
  <2> QED
    BY <1>1, <2>1 DEF IInv, NoRepeats, Listed, Srcs
<1>7. Current'
  <2> SUFFICES ASSUME NEW r \in Listed,
                      \/ pc \in {"setup", "sync"} /\ revision = 0 /\ Passed(r)
                      \/ pc = "load"
               PROVE  repo'[r].head >= since[r]
    BY <1>2 DEF Current, Listed, Passed
  <2>1. r # s /\ r \in Srcs
    BY <1>5 DEF HasTurn, IInv, NoRepeats, Passed, Listed, Shape
  <2> QED
    BY <1>1, <2>1 DEF IInv, Current
<1>8. Remembers'
  <2>1. \A r \in Srcs \ {at'} :
          (pc = "setup" /\ ~Passed(r)) \/ (pc = "load" /\ r \in left)
              => repo'[r].head = before[r]
    BY <1>1 DEF IInv, Remembers
  <2>2. pc = "rollback" => \A i \in DOMAIN list :
          IF i < next THEN repo'[list[i]].head = before[list[i]]
          ELSE report[list[i]] \in {NoReport, before[list[i]]}
    BY <1>1, <1>5 DEF IInv, Remembers
  <2> QED
    BY <1>2, <2>1, <2>2 DEF IInv, Remembers, Passed
<1>9. RemotesLoaded' /\ RollbackUndoes'
  BY <1>2 DEF RemotesLoaded, RollbackUndoes
<1> QED
  BY <1>3, <1>4, <1>6, <1>7, <1>8, <1>9 DEF IInv

(* The turn is over: what it leaves is current, or what a rollback wants.  *)
LEMMA TurnOver ==
  ASSUME IInv, NEW s \in Srcs, NEW c, HasTurn(s), at \in {s, NoSource}, Fits(c, s),
         repo' = [repo EXCEPT ![s] = c],
         NEW o \in Nat \cup {NoReport}, report' = [report EXCEPT ![s] = o],
         Advance(s),
         pc \in {"setup", "load"} => o \in {NoReport, before[s]},
         pc = "rollback" => c.head = before[s],
         pc = "load" \/ (pc \in {"setup", "sync"} /\ revision = 0) => c.head >= since[s],
         UNCHANGED <<origin, pc, opts, outcome, history>>
  PROVE  IInv'
<1> USE SourcesAssumption DEF opts, history
<1>1. /\ repo'[s] = c
      /\ \A r \in Srcs \ {s} : repo'[r] = repo[r]
      /\ NoSource \notin Srcs
      /\ report'[s] = o
      /\ \A r \in Srcs \ {s} : report'[r] = report[r]
  BY DEF IInv, Shape, Srcs
<1>2. pc \in Loops \cup {"load"} /\ pc \notin {"idle", "ready"}
  BY DEF HasTurn, Loops
<1>3. /\ step' = "open" /\ at' = NoSource /\ old' = 0
      /\ left' = left \ {s}
      /\ pc = "load" => list' = Append(list, s) /\ next' = next
      /\ pc # "load" => list' = list /\ next' = next + 1
  BY DEF Advance
<1>4. /\ list' \in Seq(Srcs)
      /\ pc = "load" => /\ DOMAIN list' = DOMAIN list \cup {Len(list) + 1}
                        /\ Len(list) + 1 \notin DOMAIN list
                        /\ list'[Len(list) + 1] = s
                        /\ \A i \in DOMAIN list : list'[i] = list[i]
  <2>1. list \in Seq(Srcs)
    BY DEF IInv, Shape
  <2>2. CASE pc = "load"
    <3>1. list' = Append(list, s)
      BY <1>3, <2>2
    <3> QED
      BY <2>1, <3>1, Appended
  <2> QED
    BY <1>3, <2>1, <2>2
<1>5. Shape'
  <2>1. next' \in Nat \ {0} /\ left' \subseteq Remotes
    BY <1>2, <1>3 DEF IInv, Shape
  <2>2. report' \in [Srcs -> Nat \cup {NoReport}]
    BY DEF IInv, Shape
  <2>3. repo' \in [Srcs -> Clones]
    BY DEF IInv, Shape, Fits
  <2>4. \A r \in Srcs :
          /\ repo'[r].head <= repo'[r].fetched /\ repo'[r].branch <= repo'[r].fetched
          /\ repo'[r].fetched <= origin[r] /\ since[r] <= origin[r]
          /\ origin[r] <= LastCommit[r]
    BY <1>1 DEF IInv, Shape, Fits
  <2> QED
    BY <1>3, <1>4, <2>1, <2>2, <2>3, <2>4 DEF IInv, Shape
<1>6. TurnTaken'
  BY <1>3 DEF TurnTaken
<1>7. Listed' = IF pc = "load" THEN Listed \cup {s} ELSE Listed
  <2>1. CASE pc = "load"
    BY <2>1, <1>4 DEF Listed
  <2>2. CASE pc # "load"
    BY <2>2, <1>3 DEF Listed
  <2> QED
    BY <2>1, <2>2
<1>8. /\ DOMAIN list = 1..Len(list) /\ Len(list) \in Nat /\ next \in Nat \ {0}
      /\ \A i \in DOMAIN list : i \in Nat /\ list[i] \in Srcs
      /\ pc # "load" => /\ next \in DOMAIN list /\ list[next] = s
                        /\ \A i \in DOMAIN list : i # next => list[i] # s
  BY Positions, OneTurn DEF IInv
<1>9. NoRepeats'
  <2>1. CASE pc = "load"
    <3>1. s # Primary /\ s \notin Listed /\ s \in left
      BY <2>1 DEF HasTurn, IInv, Shape, NoRepeats
    <3>2. \A i, j \in DOMAIN list' : list'[i] = list'[j] => i = j
      BY <2>1, <3>1, <1>4 DEF IInv, NoRepeats, Listed
    <3>3. /\ left' \cap Listed' = {}
          /\ Listed' \cup left' = {Primary} \cup RemotesIn[repo'[Primary].head]
      BY <2>1, <3>1, <1>1, <1>3, <1>7 DEF IInv, NoRepeats, Srcs
    <3> QED
      BY <2>1, <3>2, <3>3 DEF IInv, NoRepeats
  <2>2. CASE pc # "load"
    BY <2>2, <1>3 DEF IInv, NoRepeats
  <2> QED
    BY <2>1, <2>2
<1>10. pc # "load" => \A r : Passed(r)' => Passed(r) \/ r = s
  <2> SUFFICES ASSUME pc # "load", NEW r, Passed(r)' PROVE Passed(r) \/ r = s
    OBVIOUS
  <2>1. PICK i \in DOMAIN list : i < next + 1 /\ list[i] = r
    BY <1>3 DEF Passed
  <2> QED
    BY <2>1, <1>8 DEF Passed
<1>11. Current'
  <2> SUFFICES ASSUME NEW r \in Listed',
                      \/ pc \in {"setup", "sync"} /\ revision = 0 /\ Passed(r)'
                      \/ pc = "load"
               PROVE  repo'[r].head >= since[r]
    BY <1>2 DEF Current
  <2>1. r \in Srcs
    BY <1>4 DEF Listed
  <2>2. CASE r = s
    BY <2>2, <1>1
  <2>3. CASE r # s
    BY <2>1, <2>3, <1>1, <1>7, <1>10 DEF IInv, Current
  <2> QED
    BY <2>2, <2>3
<1>12. Remembers'
  <2>1. pc \in {"setup", "load"} => \A r \in Srcs : report'[r] \in {NoReport, before[r]}
    BY <1>1 DEF IInv, Remembers
  <2>2. ASSUME NEW r \in Srcs,
               (pc = "setup" /\ ~Passed(r)') \/ (pc = "load" /\ r \in left')
        PROVE  repo'[r].head = before[r]
    <3>1. r # s
      BY <2>2, <1>3, <1>8 DEF Passed
    <3>2. pc = "setup" => ~Passed(r)
      BY <2>2, <1>3, <1>8 DEF Passed
    <3> QED
      BY <2>2, <3>1, <3>2, <1>1, <1>3 DEF IInv, Remembers
  <2>3. pc = "rollback" => \A i \in DOMAIN list :
          IF i < next + 1 THEN repo'[list[i]].head = before[list[i]]
          ELSE report'[list[i]] \in {NoReport, before[list[i]]}
    <3> SUFFICES ASSUME pc = "rollback", NEW i \in DOMAIN list
                 PROVE  IF i < next + 1 THEN repo'[list[i]].head = before[list[i]]
                        ELSE report'[list[i]] \in {NoReport, before[list[i]]}
      OBVIOUS
    <3>1. /\ list[i] \in Srcs /\ i \in Nat /\ next \in Nat
          /\ list[next] = s /\ (list[i] = s => i = next)
      BY <1>8
    <3>2. CASE i = next
      BY <3>1, <3>2, <1>1
    <3>3. CASE i # next
      BY <3>1, <3>3, <1>1 DEF IInv, Remembers
    <3> QED
      BY <3>2, <3>3
  <2> QED
    BY <1>2, <1>3, <2>1, <2>2, <2>3 DEF IInv, Remembers
<1>13. RemotesLoaded' /\ RollbackUndoes'
  BY <1>2 DEF RemotesLoaded, RollbackUndoes
<1> QED
  BY <1>5, <1>6, <1>9, <1>11, <1>12, <1>13 DEF IInv

-----------------------------------------------------------------------------
(* A process begins: it has done nothing yet.                              *)
LEMMA StartedClean ==
  ASSUME IInv, NEW m \in {"update", "server"}, Start(m), pc' \in {"setup", "ready"}
  PROVE  IInv'
<1> USE SourcesAssumption DEF syncing
<1>1. /\ list' = <<Primary>> /\ DOMAIN list' = {1} /\ list'[1] = Primary /\ Primary \in Srcs
      /\ list' \in Seq(Srcs)
  BY DEF Start, Srcs
<1>2. \A r \in Srcs : report'[r] = NoReport /\ before'[r] = repo[r].head
  BY DEF Start
<1>3. Shape'
  <2>1. before' \in [Srcs -> Nat] /\ since' \in [Srcs -> Nat \ {0}]
    BY DEF IInv, Shape, Start, Clones
  <2> QED
    BY <1>1, <2>1 DEF IInv, Shape, Start, Loops
<1>4. TurnTaken'
  BY DEF IInv, TurnTaken, Start, Loops
<1>5. NoRepeats'
  BY <1>1 DEF NoRepeats, Start
<1>6. Current'
  BY <1>1 DEF Current, Listed, Passed, Start
<1>7. step' = "open"
  BY DEF IInv, TurnTaken, Start, Loops
<1>8. Remembers'
  BY <1>1, <1>2, <1>7 DEF Remembers, Start
<1>9. RemotesLoaded' /\ RollbackUndoes'
  BY DEF RemotesLoaded, RollbackUndoes, Start
<1> QED
  BY <1>3, <1>4, <1>5, <1>6, <1>8, <1>9 DEF IInv

(* The steps of GitSource.Sync.                                            *)
LEMMA SyncStep == IInv /\ Sync => IInv'
<1> SUFFICES ASSUME IInv, Sync PROVE IInv'
  OBVIOUS
<1> USE SourcesAssumption DEF opts, loop, history
<1>1. \A s \in Srcs :
         /\ repo[s] \in Clones /\ origin[s] \in Nat \ {0} /\ before[s] \in Nat
         /\ Fits(repo[s], s) /\ since[s] <= origin[s]
         /\ repo = [repo EXCEPT ![s] = repo[s]]
  BY DEF IInv, Shape, Fits
<1>2. ASSUME NEW s \in Srcs, Turn(s)
      PROVE  /\ HasTurn(s) /\ at = NoSource /\ step = "open"
             /\ pc \in {"setup", "load"} => repo[s].head = before[s]
  <2>1. step = "open" /\ at = NoSource /\ s # at
    BY <1>2 DEF Turn, IInv, TurnTaken
  <2>2. HasTurn(s)
    BY <1>2 DEF Turn, HasTurn, Loops
  <2>3. pc = "setup" => ~Passed(s)
    BY <2>2, Positions, OneTurn DEF IInv, Passed
  <2>4. pc = "load" => s \in left
    BY <2>2 DEF HasTurn
  <2> QED
    BY <2>1, <2>2, <2>3, <2>4 DEF IInv, Remembers
<1>3. ASSUME step # "open"
      PROVE  /\ at \in Srcs /\ HasTurn(at) /\ (step = "revision") = (Wanted(at) # 0)
             /\ pc = "rollback" => report[at] \notin {NoReport, 0}
             /\ pc \in {"setup", "load"} => old = before[at]
             /\ old \in Nat
  BY <1>3 DEF IInv, Shape, TurnTaken, HasTurn, Remembers
<1>4. ASSUME NEW s \in Srcs, Open(s) PROVE IInv'
  <2>1. Turn(s)
    BY <1>4 DEF Open
  <2>2. old' \in Nat /\ (pc \in {"setup", "load"} => old' = before[s])
    BY <1>1, <1>2, <1>4, <2>1 DEF Open, Clones
  <2>3. step' \in {"branch", "revision"} /\ (step' = "revision") = (Wanted(s) # 0)
    BY <1>4 DEF Open, Revised
  <2>4. repo' = [repo EXCEPT ![s] = repo[s]] /\ at' = s
    BY <1>1, <1>4 DEF Open
  <2> QED
    BY <1>1, <1>2, <1>4, <2>1, <2>2, <2>3, <2>4, TurnGoesOn DEF Open
<1>5. ASSUME NEW s \in Srcs, Clone(s) PROVE IInv'
  <2> DEFINE c == [head |-> origin[s], branch |-> origin[s],
                   fetched |-> origin[s], detached |-> FALSE]
  <2>1. Turn(s) /\ ~Cloned(s)
    BY <1>5 DEF Clone
  <2>2. old' \in Nat /\ (pc \in {"setup", "load"} => old' = before[s])
    BY <1>2, <1>5, <2>1 DEF Clone, Cloned
  <2>3. step' \in {"branch", "revision"} /\ (step' = "revision") = (Wanted(s) # 0)
    BY <1>5 DEF Clone, Revised
  <2>4. Fits(c, s)
    BY <1>1 DEF Fits, Clones
  <2>5. repo' = [repo EXCEPT ![s] = c] /\ at' = s
    BY <1>5 DEF Clone
  <2> HIDE DEF c
  <2> QED
    BY <1>2, <1>5, <2>1, <2>2, <2>3, <2>4, <2>5, TurnGoesOn DEF Clone
<1>6. CASE EnsureBranch
  <2> DEFINE r == repo[at]
             c == IF r.branch = r.head THEN r
                  ELSE [r EXCEPT !.head = r.branch, !.detached = FALSE]
  <2>1. step = "branch" /\ at \in Srcs /\ HasTurn(at)
    BY <1>3, <1>6 DEF EnsureBranch
  <2>2. repo' = [repo EXCEPT ![at] = c]
    BY <1>1, <1>6, <2>1 DEF EnsureBranch
  <2>3. Fits(c, at)
    BY <1>1, <2>1 DEF Fits, Clones
  <2>4. (step' = "revision") = (Wanted(at) # 0) /\ step' = "pull"
    BY <1>3, <1>6 DEF EnsureBranch
  <2> HIDE DEF c
  <2> QED
    BY <1>3, <1>6, <2>1, <2>2, <2>3, <2>4, TurnGoesOn DEF EnsureBranch
<1>7. CASE Pull
  <2> DEFINE r == repo[at]
             c == [r EXCEPT !.head = origin[at], !.fetched = origin[at],
                            !.branch = IF r.detached THEN r.branch ELSE origin[at]]
  <2>1. step = "pull" /\ at \in Srcs /\ HasTurn(at) /\ Wanted(at) = 0
    BY <1>3, <1>7 DEF Pull
  <2>2. repo' = [repo EXCEPT ![at] = c]
    BY <1>7 DEF Pull
  <2>3. Fits(c, at) /\ c.head >= since[at]
    <3>1. /\ r \in Clones /\ origin[at] \in Nat /\ since[at] \in Nat
          /\ r.branch <= r.fetched /\ r.fetched <= origin[at] /\ since[at] <= origin[at]
      BY <2>1 DEF IInv, Shape
    <3>2. c \in Clones /\ c.head = origin[at] /\ c.fetched = origin[at]
      BY <3>1 DEF Clones
    <3>3. c.branch \in {r.branch, origin[at]} /\ c.branch <= origin[at]
      BY <3>1 DEF Clones
    <3> QED
      BY <3>1, <3>2, <3>3 DEF Fits
  <2>4. pc # "rollback"
    BY <1>3, <2>1 DEF Wanted
  <2>5. report' = [report EXCEPT ![at] = old] /\ Advance(at)
    BY <1>7 DEF Pull, Reported
  <2> HIDE DEF c
  <2> QED
    BY <1>3, <1>7, <2>1, <2>2, <2>3, <2>4, <2>5, TurnOver DEF Pull
<1>8. CASE CheckoutRevision
  <2> DEFINE c == [repo[at] EXCEPT !.head = Wanted(at), !.detached = TRUE]
  <2>1. step = "revision" /\ at \in Srcs /\ HasTurn(at) /\ Wanted(at) # 0
    BY <1>3, <1>8 DEF CheckoutRevision
  <2>2. repo' = [repo EXCEPT ![at] = c]
    BY <1>1, <1>8, <2>1 DEF CheckoutRevision
  <2>3. Wanted(at) \in Nat /\ Wanted(at) <= repo[at].fetched
    BY <1>3, <1>8, <2>1 DEF CheckoutRevision, Resolves, Wanted, IInv, Shape
  <2>4. Fits(c, at)
    BY <1>1, <2>1, <2>3 DEF Fits, Clones
  <2>5. ASSUME pc = "rollback" PROVE c.head = before[at]
    <3>1. next \in DOMAIN list /\ list[next] = at /\ next \in Nat
      BY <2>1, <2>5, Positions, OneTurn DEF IInv
    <3>2. report[at] = before[at]
      BY <1>3, <2>1, <2>5, <3>1 DEF IInv, Remembers
    <3> QED
      BY <1>1, <2>1, <2>5, <3>2 DEF Wanted, Clones
  <2>6. pc = "rollback" \/ (pc = "sync" /\ revision # 0)
    BY <2>1 DEF Wanted
  <2>7. report' = [report EXCEPT ![at] = old] /\ Advance(at)
    BY <1>8 DEF CheckoutRevision, Reported
  <2> HIDE DEF c
  <2> QED
    BY <1>3, <1>8, <2>1, <2>2, <2>4, <2>5, <2>6, <2>7, TurnOver DEF CheckoutRevision
<1>9. CASE Unresolved
  <2>1. pc \in Loops \cup {"load"}
    BY <1>3, <1>9 DEF Unresolved, HasTurn, Loops
  <2> QED
    BY <1>9, <2>1, AbandonedTurn DEF Unresolved, Abandon, IInv, Remembers
<1> QED
  BY <1>4, <1>5, <1>6, <1>7, <1>8, <1>9 DEF Sync

(* The ends of the loops and the steps between them.                       *)
LEMMA SyncedStep == IInv /\ Synced => IInv'
<1> SUFFICES ASSUME IInv, Synced PROVE IInv'
  OBVIOUS
<1> USE SourcesAssumption DEF Synced, syncing, opts, history, Loops
<1>1. step = "open" /\ at = NoSource /\ NoSource \notin Srcs
  BY DEF IInv, TurnTaken
<1>2. \A s \in Listed : Passed(s)
  BY Positions DEF IInv, Listed, Passed
<1>3. CASE pc = "setup"
  <2>1. /\ list = <<Primary>> /\ revision = 0 /\ Listed = {Primary} /\ Primary \in Srcs
        /\ pc' = "load" /\ outcome' = outcome
    BY <1>3 DEF IInv, NoRepeats, Listed, Srcs
  <2>2. /\ repo[Primary].head \in 1..LastCommit[Primary]
        /\ left' = RemotesIn[repo[Primary].head]
    <3>1. repo[Primary].head >= since[Primary]
      BY <1>2, <1>3, <2>1 DEF IInv, Current
    <3> QED
      BY <1>3, <2>1, <3>1 DEF IInv, Shape, Clones
  <2>3. left' \subseteq Remotes
    BY <2>2
  <2>4. Shape' /\ TurnTaken'
    BY <1>1, <2>1, <2>3 DEF IInv, Shape, TurnTaken
  <2>5. NoRepeats'
    BY <1>3, <2>1, <2>2, <2>3 DEF IInv, NoRepeats, Listed
  <2>6. Current'
    BY <1>2, <1>3, <2>1 DEF IInv, Current, Listed
  <2>7. Remembers'
    <3>1. \A s \in left' : s \in Srcs \ {at} /\ ~Passed(s)
      BY <1>1, <2>1, <2>3 DEF Passed, Srcs
    <3> QED
      BY <1>1, <1>3, <2>1, <3>1 DEF IInv, Remembers
  <2> QED
    BY <2>1, <2>4, <2>5, <2>6, <2>7 DEF IInv, RemotesLoaded, RollbackUndoes
<1>4. CASE pc = "sync"
  <2>1. pc' = "ready" /\ mode = "server" /\ left' = left
    BY <1>4 DEF IInv, Remembers
  <2>2. Shape' /\ TurnTaken'
    BY <1>1, <2>1 DEF IInv, Shape, TurnTaken
  <2>3. NoRepeats' /\ Current'
    BY <1>2, <1>4, <2>1 DEF IInv, NoRepeats, Current, Listed
  <2>4. Remembers' /\ RemotesLoaded' /\ RollbackUndoes'
    BY <1>4, <2>1 DEF Remembers, RemotesLoaded, RollbackUndoes
  <2> QED
    BY <2>2, <2>3, <2>4 DEF IInv
<1> QED
  BY <1>3, <1>4

LEMMA LoadRemotesStep == IInv /\ LoadRemotes => IInv'
<1> SUFFICES ASSUME IInv, LoadRemotes PROVE IInv'
  OBVIOUS
<1> USE SourcesAssumption DEF Tidying, syncing, opts, loop, history, Loops
<1>1. /\ pc = "load" /\ step = "open" /\ at = NoSource /\ left = {} /\ revision = 0
      /\ Listed = {Primary} \cup RemotesIn[repo[Primary].head]
      /\ Listed \subseteq Srcs /\ Primary \in Srcs
  <2>1. pc = "load" /\ step = "open" /\ left = {}
    BY DEF LoadRemotes, RemoveStale, Loaded
  <2> QED
    BY <2>1, Positions DEF IInv, TurnTaken, NoRepeats, Listed, Srcs
<1>2. ASSUME NEW s \in Remotes, RemoveStale(s) PROVE IInv'
  <2>1. /\ s \in Srcs /\ s # Primary /\ s \notin Listed
        /\ repo' = [repo EXCEPT ![s] = NoRepo]
    BY <1>1, <1>2 DEF RemoveStale, Stale, Srcs
  <2>2. /\ repo'[s] = NoRepo
        /\ \A r \in Srcs \ {s} : repo'[r] = repo[r]
    BY <2>1 DEF IInv, Shape
  <2>3. Shape'
    <3>1. NoRepo \in Clones
      BY DEF NoRepo, Clones
    <3>2. repo' \in [Srcs -> Clones]
      BY <2>1, <3>1 DEF IInv, Shape
    <3>3. \A r \in Srcs :
            /\ repo'[r].head <= repo'[r].fetched /\ repo'[r].branch <= repo'[r].fetched
            /\ repo'[r].fetched <= origin[r]
      <4>1. ASSUME NEW r \in Srcs PROVE origin[r] \in Nat /\ 0 <= origin[r]
        BY DEF IInv, Shape
      <4>2. NoRepo.head = 0 /\ NoRepo.branch = 0 /\ NoRepo.fetched = 0
        BY DEF NoRepo
      <4>3. \A r \in Srcs \ {s} :
               /\ repo'[r].head <= repo'[r].fetched /\ repo'[r].branch <= repo'[r].fetched
               /\ repo'[r].fetched <= origin[r]
        BY <2>2 DEF IInv, Shape
      <4>4. /\ repo'[s].head <= repo'[s].fetched /\ repo'[s].branch <= repo'[s].fetched
            /\ repo'[s].fetched <= origin[s]
        BY <2>1, <2>2, <4>1, <4>2
      <4> QED
        BY <4>3, <4>4
    <3> QED
      BY <1>2, <3>2, <3>3 DEF RemoveStale, IInv, Shape
  <2>4. TurnTaken' /\ NoRepeats'
    BY <1>1, <1>2, <2>1, <2>2 DEF RemoveStale, IInv, TurnTaken, NoRepeats, Listed
  <2>5. Current'
    BY <1>1, <1>2, <2>1, <2>2 DEF RemoveStale, IInv, Current, Listed
  <2>6. Remembers' /\ RemotesLoaded' /\ RollbackUndoes'
    BY <1>1, <1>2 DEF RemoveStale, IInv, Remembers, RemotesLoaded, RollbackUndoes
  <2> QED
    BY <2>3, <2>4, <2>5, <2>6 DEF IInv
<1>3. CASE Loaded
  <2>1. Shape' /\ TurnTaken' /\ NoRepeats'
    BY <1>1, <1>3 DEF Loaded, IInv, Shape, TurnTaken, NoRepeats
  <2>2. Current' /\ Remembers' /\ RollbackUndoes'
    BY <1>1, <1>3 DEF Loaded, IInv, Current, Listed, Remembers, RollbackUndoes
  <2>3. \A s \in Listed : Cloned(s)
    <3>1. \A s \in Listed : repo[s].head >= since[s]
      BY <1>1 DEF IInv, Current
    <3> QED
      BY <1>1, <3>1 DEF Cloned, IInv, Shape, Clones
  <2>4. Stale = {} /\ UNCHANGED repo
    BY <1>3 DEF Loaded
  <2>5. \A s \in Remotes : Cloned(s) <=> s \in RemotesIn[repo[Primary].head]
    BY <1>1, <2>3, <2>4 DEF Stale
  <2>6. RemotesLoaded'
    BY <2>4, <2>5 DEF RemotesLoaded, Cloned
  <2> QED
    BY <2>1, <2>2, <2>6 DEF IInv
<1> QED
  BY <1>2, <1>3 DEF LoadRemotes

LEMMA RollbackStep == IInv /\ (AskRollback \/ Rollback) => IInv'
<1> SUFFICES ASSUME IInv, AskRollback \/ Rollback PROVE IInv'
  OBVIOUS
<1> USE SourcesAssumption DEF syncing, opts, loop, history, Loops
<1>1. CASE AskRollback
  <2>1. /\ pc = "ready" /\ mode = "update" /\ pc' = "rollback" /\ next' = 1
        /\ UNCHANGED <<origin, repo, syncing, opts, list, report, left, outcome, history>>
    BY <1>1 DEF AskRollback
  <2>2. Shape' /\ TurnTaken' /\ NoRepeats' /\ Current'
    BY <2>1 DEF IInv, Shape, TurnTaken, NoRepeats, Current
  <2>3. Remembers'
    BY <2>1, Positions DEF IInv, Remembers
  <2> QED
    BY <2>1, <2>2, <2>3 DEF IInv, RemotesLoaded, RollbackUndoes
<1>2. ASSUME NEW s \in Srcs, RefuseRollback(s) PROVE IInv'
  BY <1>2, AbandonedTurn DEF RefuseRollback, Abandon
<1>3. ASSUME NEW s \in Srcs, CleanSource(s) PROVE IInv'
  <2>1. /\ pc = "rollback" /\ Turn(s) /\ report[s] = 0
        /\ repo' = [repo EXCEPT ![s] = NoRepo] /\ Advance(s)
        /\ UNCHANGED <<origin, pc, opts, report, outcome, history>>
    BY <1>3 DEF CleanSource
  <2>2. HasTurn(s) /\ at = NoSource
    BY <2>1 DEF Turn, HasTurn, IInv, TurnTaken
  <2>3. Fits(NoRepo, s)
    BY DEF NoRepo, Fits, Clones, IInv, Shape
  <2>4. before[s] = 0
    <3>1. next \in DOMAIN list /\ list[next] = s /\ next \in Nat
      BY <2>1, <2>2, Positions, OneTurn DEF IInv
    <3> QED
      BY <2>1, <3>1 DEF IInv, Remembers
  <2>5. report' = [report EXCEPT ![s] = 0]
    BY <2>1 DEF IInv, Shape
  <2>6. NoRepo.head = 0
    BY DEF NoRepo
  <2> HIDE DEF opts, history
  <2> QED
    BY <2>1, <2>2, <2>3, <2>4, <2>5, <2>6, TurnOver
<1>4. CASE RolledBack
  <2>1. /\ pc = "rollback" /\ step = "open" /\ next > Len(list)
        /\ pc' = "idle" /\ outcome' = "rolledBack"
        /\ UNCHANGED <<origin, repo, syncing, opts, loop, history>>
    BY <1>4 DEF RolledBack
  <2>2. Shape' /\ TurnTaken' /\ NoRepeats' /\ Current' /\ Remembers' /\ RemotesLoaded'
    BY <2>1 DEF IInv, Shape, TurnTaken, NoRepeats, Current, Remembers, RemotesLoaded
  <2>3. \A s \in Listed : repo[s].head = before[s]
    BY <2>1, Positions DEF IInv, Remembers, Listed
  <2> QED
    BY <2>1, <2>2, <2>3 DEF IInv, RollbackUndoes, Listed
<1> QED
  BY <1>1, <1>2, <1>3, <1>4 DEF Rollback

LEMMA InvInit == Init => IInv
<1> SUFFICES ASSUME Init PROVE IInv
  OBVIOUS
<1> USE SourcesAssumption DEF Init
<1>1. Shape
  <2>1. NoRepo \in Clones
    BY DEF NoRepo, Clones
  <2> QED
    BY <2>1 DEF Shape, NoRepo
<1>2. TurnTaken /\ NoRepeats /\ Current /\ Remembers /\ RemotesLoaded /\ RollbackUndoes
  BY DEF TurnTaken, NoRepeats, Current, Listed, Remembers, RemotesLoaded, RollbackUndoes
<1> QED
  BY <1>1, <1>2 DEF IInv

LEMMA InvStep == IInv /\ [Next]_vars => IInv'
<1> SUFFICES ASSUME IInv, [Next]_vars PROVE IInv'
  OBVIOUS
<1> USE SourcesAssumption
<1>1. CASE Begin \/ BeginWithoutSync
  BY <1>1, StartedClean DEF Begin, BeginWithoutSync
<1>2. CASE Work
  BY <1>2, SyncStep, SyncedStep, LoadRemotesStep, RollbackStep DEF Work
<1>3. CASE AskRollback
  BY <1>3, RollbackStep
<1>4. CASE Finish
  <2>1. /\ pc = "ready" /\ pc' = "idle"
        /\ UNCHANGED <<origin, repo, syncing, opts, loop, outcome, history>>
    BY <1>4 DEF Finish
  <2>2. Shape' /\ TurnTaken' /\ NoRepeats' /\ Current' /\ Remembers' /\ RemotesLoaded'
    BY <2>1 DEF IInv, Shape, TurnTaken, NoRepeats, Current, Remembers, RemotesLoaded,
                syncing, opts, loop, history, Loops
  <2>3. RollbackUndoes'
    BY <2>1 DEF IInv, Remembers, RollbackUndoes
  <2> QED
    BY <2>2, <2>3 DEF IInv
<1>5. CASE Tick \/ Request
  <2>1. PICK c \in Nat : SyncTo(c)
    BY <1>5 DEF Tick, Request, IInv, Shape
  <2>2. /\ pc = "ready" /\ mode = "server" /\ pc' = "sync" /\ revision' = c /\ next' = 1
        /\ since' = origin
        /\ UNCHANGED <<origin, repo, syncing, mode, list, report, left, outcome, before>>
    BY <2>1 DEF SyncTo
  <2>3. Shape' /\ TurnTaken' /\ NoRepeats'
    BY <2>2 DEF IInv, Shape, TurnTaken, NoRepeats, syncing, Loops
  <2>4. Current'
    BY <2>2, Positions DEF IInv, Current, Listed, Passed
  <2>5. Remembers' /\ RemotesLoaded' /\ RollbackUndoes'
    BY <2>2 DEF IInv, Remembers, RemotesLoaded, RollbackUndoes
  <2> QED
    BY <2>3, <2>4, <2>5 DEF IInv
<1>6. CASE NetworkFails
  BY <1>6, AbandonedTurn DEF NetworkFails, Abandon, IInv, Remembers
<1>7. CASE Crash
  BY <1>7, AbandonedTurn DEF Crash
<1>8. ASSUME NEW s \in Srcs, Commit(s) PROVE IInv'
  <2>1. /\ origin[s] < LastCommit[s] /\ origin' = [origin EXCEPT ![s] = @ + 1]
        /\ UNCHANGED <<repo, pc, syncing, opts, loop, outcome, history>>
    BY <1>8 DEF Commit
  <2>2. Shape'
    <3>1. origin[s] \in Nat /\ LastCommit[s] \in Nat
      BY DEF IInv, Shape
    <3>2. /\ origin' \in [Srcs -> Nat \ {0}]
          /\ origin'[s] = origin[s] + 1 /\ origin'[s] <= LastCommit[s]
          /\ \A r \in Srcs \ {s} : origin'[r] = origin[r]
      BY <2>1, <3>1 DEF IInv, Shape
    <3>3. \A r \in Srcs : /\ repo[r].fetched <= origin'[r] /\ since[r] <= origin'[r]
                          /\ origin'[r] <= LastCommit[r]
      <4>1. repo[s].fetched \in Nat /\ since[s] \in Nat
        BY DEF IInv, Shape, Clones
      <4>2. repo[s].fetched <= origin[s] /\ since[s] <= origin[s]
        BY DEF IInv, Shape
      <4>3. repo[s].fetched <= origin'[s] /\ since[s] <= origin'[s]
        BY <3>1, <3>2, <4>1, <4>2
      <4>4. \A r \in Srcs \ {s} : /\ repo[r].fetched <= origin'[r] /\ since[r] <= origin'[r]
                                  /\ origin'[r] <= LastCommit[r]
        BY <3>2 DEF IInv, Shape
      <4> QED
        BY <3>2, <4>3, <4>4
    <3> QED
      BY <2>1, <3>2, <3>3 DEF IInv, Shape, syncing, opts, loop, history
  <2>3. TurnTaken' /\ NoRepeats' /\ Current' /\ Remembers' /\ RemotesLoaded' /\ RollbackUndoes'
    BY <2>1 DEF IInv, TurnTaken, Wanted, NoRepeats, Listed, Current, Passed, Remembers,
                RemotesLoaded, Cloned, RollbackUndoes, syncing, opts, loop, history
  <2> QED
    BY <2>2, <2>3 DEF IInv
<1>9. CASE UNCHANGED vars
  <2>1. UNCHANGED <<origin, repo, pc, syncing, opts, loop, outcome, history>>
    BY <1>9 DEF vars
  <2>2. Shape'
    BY <2>1 DEF syncing, opts, loop, history, IInv, Shape
  <2>3. TurnTaken' /\ NoRepeats'
    BY <2>1 DEF syncing, opts, loop, history, IInv, TurnTaken, Wanted, NoRepeats, Listed
  <2>4. Current' /\ Remembers' /\ RemotesLoaded' /\ RollbackUndoes'
    BY <2>1 DEF syncing, opts, loop, history, IInv, Listed, Current, Passed, Remembers,
                RemotesLoaded, Cloned, RollbackUndoes
  <2> QED
    BY <2>2, <2>3, <2>4 DEF IInv
<1> QED
  BY <1>1, <1>2, <1>3, <1>4, <1>5, <1>6, <1>7, <1>8, <1>9 DEF Next

-----------------------------------------------------------------------------
(* The theorems *)

LEMMA Invariant == Spec => []IInv
<1> QED
  BY InvInit, InvStep, PTL DEF Spec

(* No clone gets ahead of its remote, and the loops stay in their bounds.  *)
THEOREM TypeCorrect == Spec => []TypeOK
<1>1. IInv => TypeOK
  BY Positions DEF IInv, Shape, TypeOK
<1> QED
  BY <1>1, Invariant, PTL

(* A sync that succeeds is current, however many sources, requests, faults *)
(* and crashes.                                                            *)
THEOREM Currency == Spec => []SyncIsCurrent
<1>1. IInv => SyncIsCurrent
  BY DEF IInv, Current, SyncIsCurrent
<1> QED
  BY <1>1, Invariant, PTL

(* After an update's sync exactly the remotes of the manifest are there.   *)
THEOREM RemotesAreThere == Spec => []RemotesLoaded
<1>1. IInv => RemotesLoaded
  BY DEF IInv
<1> QED
  BY <1>1, Invariant, PTL

(* A rollback that succeeds leaves every source where the process found it. *)
THEOREM RollbackIsExact == Spec => []RollbackUndoes
<1>1. IInv => RollbackUndoes
  BY DEF IInv
<1> QED
  BY <1>1, Invariant, PTL
===============================================================================
