------------------------------- MODULE Sources -------------------------------
(***************************************************************************)
(* The source manager and its git sources.  The primary source holds the   *)
(* repository, whose manifest names remote components, each a source with  *)
(* a clone of its own.  `materia update` syncs them once and may roll      *)
(* back; a server syncs them again and again.  Git and the remotes are     *)
(* external; a remote's branch only moves forward.                         *)
(***************************************************************************)
EXTENDS Naturals, Sequences

CONSTANTS
    Primary,      \* the main repository
    Remotes,      \* the remote components
    NoSource, NoReport,
    LastCommit,   \* bound: [source -> its last commit]; commits are 1, 2, ...
    RemotesIn,    \* [commit of Primary -> the remotes its manifest names]
    MaxFaults,    \* bound: failures of the network and crashes
    MaxFailures,  \* bound: executions that ask for a rollback
    MaxRequests   \* bound: requests to sync to a revision

Srcs == {Primary} \cup Remotes

ASSUME SourcesAssumption ==
    /\ Primary \notin Remotes /\ NoSource \notin Srcs /\ NoReport \notin Nat
    /\ LastCommit \in [Srcs -> Nat \ {0}]
    /\ RemotesIn \in [1..LastCommit[Primary] -> SUBSET Remotes]
    /\ {MaxFaults, MaxFailures, MaxRequests} \subseteq Nat

VARIABLES
    origin,    \* the newest commit of each source's branch at its remote
    repo,      \* the clone of each source
    pc,        \* the loop the process is in
    step,      \* where in GitSource.Sync it is,
    at,        \* with which source,
    old,       \* and the revision createOrOpenRepo found
    mode,      \* "update" or "server"
    list,      \* SourceManager.sources
    report,    \* OldRevision of each source's report
    next,      \* the position in list of the next source
    left,      \* the remotes LoadRemotes has not loaded yet
    revision,  \* SyncOpts.Revision, 0 for none
    outcome,   \* of the last sync or rollback
    since,     \* history: the remotes' commits when the last sync began
    before,    \* history: the checkouts when the process began
    count      \* of what is bounded

syncing == <<step, at, old>>
loop == <<list, report, next, left>>
opts == <<mode, revision>>
history == <<since, before>>
vars == <<origin, repo, pc, syncing, opts, loop, outcome, history, count>>

(* A clone: the commit HEAD is at, that of the local branch, the newest    *)
(* one fetched, and whether HEAD is detached.  0 is the empty revision.    *)
NoRepo == [head |-> 0, branch |-> 0, fetched |-> 0, detached |-> FALSE]

Cloned(s) == repo[s].head # 0

Bounded(what, max) == count[what] < max /\ count' = [count EXCEPT ![what] = @ + 1]

Init ==
    /\ origin = [s \in Srcs |-> 1] /\ repo = [s \in Srcs |-> NoRepo]
    /\ pc = "idle" /\ step = "open" /\ at = NoSource /\ old = 0
    /\ mode = "update" /\ revision = 0
    /\ list = <<>> /\ report = [s \in Srcs |-> NoReport] /\ next = 1 /\ left = {}
    /\ outcome = "none" /\ since = origin /\ before = [s \in Srcs |-> 0]
    /\ count = [what \in {"fault", "failure", "request"} |-> 0]

-----------------------------------------------------------------------------
(* setup and serverMateria; --nosync goes on with what is checked out.     *)

Start(m) ==
    /\ pc = "idle"
    /\ mode' = m /\ revision' = 0 /\ outcome' = "none"
    /\ list' = <<Primary>> /\ report' = [s \in Srcs |-> NoReport]
    /\ next' = 1 /\ left' = {}
    /\ since' = origin /\ before' = [s \in Srcs |-> repo[s].head]
    /\ UNCHANGED <<origin, repo, syncing, count>>

Begin == (Start("update") \/ Start("server")) /\ pc' = "setup"

BeginWithoutSync == Start("update") /\ Cloned(Primary) /\ pc' = "ready"

-----------------------------------------------------------------------------
(* The loops over the sources: Sync ("setup" and, in a server, "sync"),    *)
(* LoadRemotes, which ranges over a map, and Rollback.                     *)

Turn(s) ==
    /\ step = "open"
    /\ IF pc = "load" THEN s \in left
       ELSE pc \in {"setup", "sync", "rollback"} /\ next <= Len(list) /\ list[next] = s

Wanted(s) == IF pc = "rollback" THEN report[s] ELSE IF pc = "sync" THEN revision ELSE 0

Advance(s) ==
    /\ step' = "open" /\ at' = NoSource /\ old' = 0
    /\ left' = left \ {s}
    /\ IF pc = "load" THEN list' = Append(list, s) /\ next' = next
                      ELSE list' = list /\ next' = next + 1

(* A source failed: an update or a starting server ends with the error, a  *)
(* running server goes on.                                                 *)
Abandon ==
    /\ pc' = IF pc = "sync" THEN "ready" ELSE "idle"
    /\ step' = "open" /\ at' = NoSource /\ old' = 0 /\ outcome' = "failed"
    /\ UNCHANGED loop

-----------------------------------------------------------------------------
(* GitSource.Sync *)

Revised(s) == step' = IF Wanted(s) = 0 THEN "branch" ELSE "revision"

(* Mutant: the old revision is that of the branch.                         *)
OpenAtBranch(s) ==
    /\ Turn(s) /\ Cloned(s) /\ (pc = "rollback" => report[s] \notin {NoReport, 0})
    /\ at' = s /\ old' = repo[s].branch /\ Revised(s)
    /\ UNCHANGED <<origin, repo, pc, opts, loop, outcome, history, count>>

(* createOrOpenRepo *)
Open(s) ==
    /\ Turn(s) /\ Cloned(s) /\ (pc = "rollback" => report[s] \notin {NoReport, 0})
    /\ at' = s /\ old' = repo[s].head /\ Revised(s)
    /\ UNCHANGED <<origin, repo, pc, opts, loop, outcome, history, count>>

Clone(s) ==
    /\ Turn(s) /\ ~Cloned(s) /\ (pc = "rollback" => report[s] \notin {NoReport, 0})
    /\ repo' = [repo EXCEPT ![s] = [head |-> origin[s], branch |-> origin[s],
                                    fetched |-> origin[s], detached |-> FALSE]]
    /\ at' = s /\ old' = 0 /\ Revised(s)
    /\ UNCHANGED <<origin, pc, opts, loop, outcome, history, count>>

(* HEAD is taken to be on the branch when it is at the branch's commit.    *)
EnsureBranch ==
    LET r == repo[at] IN
    /\ step = "branch"
    /\ repo' = IF r.branch = r.head THEN repo
               ELSE [repo EXCEPT ![at].head = r.branch, ![at].detached = FALSE]
    /\ step' = "pull"
    /\ UNCHANGED <<origin, pc, at, old, opts, loop, outcome, history, count>>

Reported == report' = [report EXCEPT ![at] = old] /\ Advance(at)

(* Mutant: a detached HEAD is left where it is.                            *)
PullBranch ==
    /\ step = "pull"
    /\ repo' = IF repo[at].detached THEN repo
               ELSE [repo EXCEPT ![at] = [@ EXCEPT !.head = origin[at], !.fetched = origin[at],
                                                   !.branch = origin[at]]]
    /\ Reported
    /\ UNCHANGED <<origin, pc, opts, outcome, history, count>>

(* A pull moves HEAD, and with it the branch unless HEAD is detached.      *)
Pull ==
    /\ step = "pull"
    /\ repo' = [repo EXCEPT ![at] = [@ EXCEPT
                   !.head = origin[at], !.fetched = origin[at],
                   !.branch = IF repo[at].detached THEN repo[at].branch ELSE origin[at]]]
    /\ Reported
    /\ UNCHANGED <<origin, pc, opts, outcome, history, count>>

(* A revision is looked up among what was fetched; one of the primary      *)
(* repository is none of a remote component's.                             *)
Resolves(s) == Wanted(s) <= repo[s].fetched /\ (pc = "sync" => s = Primary)

CheckoutRevision ==
    /\ step = "revision" /\ Resolves(at)
    /\ repo' = [repo EXCEPT ![at].head = Wanted(at), ![at].detached = TRUE]
    /\ Reported
    /\ UNCHANGED <<origin, pc, opts, outcome, history, count>>

Unresolved ==
    /\ step = "revision" /\ ~Resolves(at)
    /\ Abandon
    /\ UNCHANGED <<origin, repo, opts, history, count>>

NetworkFails ==
    /\ step \in {"branch", "pull"} \/ \E s \in Srcs : Turn(s) /\ ~Cloned(s)
    /\ Bounded("fault", MaxFaults)
    /\ Abandon
    /\ UNCHANGED <<origin, repo, opts, history>>

-----------------------------------------------------------------------------
(* The ends of the loops *)

Synced ==
    /\ pc \in {"setup", "sync"} /\ step = "open" /\ next > Len(list)
    /\ IF pc = "setup"
       THEN pc' = "load" /\ left' = RemotesIn[repo[Primary].head] /\ UNCHANGED outcome
       ELSE pc' = "ready" /\ outcome' = "synced" /\ UNCHANGED left
    /\ UNCHANGED <<origin, repo, syncing, opts, list, report, next, history, count>>

(* LoadRemotes, last part: the clones the manifest does not name.          *)
Stale == {s \in Remotes : Cloned(s)} \ RemotesIn[repo[Primary].head]

Tidying == pc = "load" /\ step = "open" /\ left = {}

RemoveStale(s) ==
    /\ Tidying /\ s \in Stale
    /\ repo' = [repo EXCEPT ![s] = NoRepo]
    /\ UNCHANGED <<origin, pc, syncing, opts, loop, outcome, history, count>>

(* Mutant: the clones of a manifest that names no remotes are forgotten.   *)
LoadedSome ==
    /\ Tidying /\ (Stale = {} \/ RemotesIn[repo[Primary].head] = {})
    /\ pc' = "ready" /\ outcome' = "synced"
    /\ UNCHANGED <<origin, repo, syncing, opts, loop, history, count>>

Loaded ==
    /\ Tidying /\ Stale = {}
    /\ pc' = "ready" /\ outcome' = "synced"
    /\ UNCHANGED <<origin, repo, syncing, opts, loop, history, count>>

-----------------------------------------------------------------------------
(* SourceManager.Rollback *)

AskRollback ==
    /\ pc = "ready" /\ mode = "update"
    /\ Bounded("failure", MaxFailures)
    /\ pc' = "rollback" /\ next' = 1
    /\ UNCHANGED <<origin, repo, syncing, opts, list, report, left, outcome, history>>

RefuseRollback(s) ==
    /\ pc = "rollback" /\ Turn(s)
    /\ report[s] = NoReport \/ (report[s] = 0 /\ s = Primary)
    /\ Abandon
    /\ UNCHANGED <<origin, repo, opts, history, count>>

(* A remote that was not there before the sync is removed.                 *)
CleanSource(s) ==
    /\ pc = "rollback" /\ Turn(s)
    /\ report[s] = 0 /\ s # Primary
    /\ repo' = [repo EXCEPT ![s] = NoRepo]
    /\ Advance(s)
    /\ UNCHANGED <<origin, pc, opts, report, outcome, history, count>>

RolledBack ==
    /\ pc = "rollback" /\ step = "open" /\ next > Len(list)
    /\ pc' = "idle" /\ outcome' = "rolledBack"
    /\ UNCHANGED <<origin, repo, syncing, opts, loop, history, count>>

-----------------------------------------------------------------------------
(* What syncs are for: an update executes a plan and ends, a server syncs  *)
(* at each tick of its timer and for each request.                         *)

Finish ==
    /\ pc = "ready" /\ mode = "update"
    /\ pc' = "idle"
    /\ UNCHANGED <<origin, repo, syncing, opts, loop, outcome, history, count>>

SyncTo(c) ==
    /\ pc = "ready" /\ mode = "server"
    /\ pc' = "sync" /\ revision' = c /\ next' = 1 /\ since' = origin
    /\ UNCHANGED <<origin, repo, syncing, mode, list, report, left, outcome, before>>

(* Mutant: the revision of the last request is kept.                       *)
TickPinned == SyncTo(revision) /\ UNCHANGED count

Tick == SyncTo(0) /\ UNCHANGED count

Request == \E c \in 1..LastCommit[Primary] : SyncTo(c) /\ Bounded("request", MaxRequests)

Crash ==
    /\ pc # "idle" /\ Bounded("fault", MaxFaults)
    /\ pc' = "idle" /\ outcome' = "crashed"
    /\ step' = "open" /\ at' = NoSource /\ old' = 0
    /\ UNCHANGED <<origin, repo, opts, loop, history>>

Commit(s) ==
    /\ origin[s] < LastCommit[s]
    /\ origin' = [origin EXCEPT ![s] = @ + 1]
    /\ UNCHANGED <<repo, pc, syncing, opts, loop, outcome, history, count>>

Sync == (\E s \in Srcs : Open(s) \/ Clone(s)) \/ EnsureBranch \/ Pull
            \/ CheckoutRevision \/ Unresolved

LoadRemotes == (\E s \in Remotes : RemoveStale(s)) \/ Loaded

Rollback == (\E s \in Srcs : RefuseRollback(s) \/ CleanSource(s)) \/ RolledBack

Work == Sync \/ Synced \/ LoadRemotes \/ Rollback

Next ==
    \/ Begin \/ BeginWithoutSync \/ Work \/ AskRollback \/ Finish \/ Tick \/ Request
    \/ NetworkFails \/ Crash
    \/ \E s \in Srcs : Commit(s)

Spec == Init /\ [][Next]_vars

(* The timers start updates and syncs (an update with --nosync is somebody *)
(* else's), a process goes on.                                             *)
FairSpec ==
    Spec /\ SF_vars(Begin) /\ WF_vars(Work) /\ WF_vars(Finish) /\ WF_vars(Tick)

-----------------------------------------------------------------------------
(* Properties *)

Listed == {list[i] : i \in DOMAIN list}

TypeOK ==
    /\ origin \in [Srcs -> Nat] /\ before \in [Srcs -> Nat] /\ since \in [Srcs -> Nat]
    /\ at \in Srcs \cup {NoSource} /\ left \subseteq Remotes /\ list \in Seq(Srcs)
    /\ report \in [Srcs -> Nat \cup {NoReport}]
    /\ \A s \in Srcs :
          /\ repo[s].head <= repo[s].fetched /\ repo[s].branch <= repo[s].fetched
          /\ repo[s].fetched <= origin[s]

(* "Materia will checkout whatever commit the local repository cache was   *)
(* on before the most recent sync": a rollback that succeeds undoes the    *)
(* sync of every source, the clones it made included, whatever earlier     *)
(* rollbacks, requests, faults and crashes left behind.                    *)
RollbackUndoes ==
    pc = "idle" /\ outcome = "rolledBack" => \A s \in Listed : repo[s].head = before[s]

(* A sync that succeeds brings every source to what its remote had when    *)
(* the sync began, or later, from a detached HEAD as from the branch.      *)
SyncIsCurrent ==
    pc = "ready" /\ outcome = "synced" /\ revision = 0 =>
        \A s \in Listed : repo[s].head >= since[s]

(* After an update's sync the remote components on the disk are those the  *)
(* checked out manifest names, no more and no fewer.                       *)
RemotesLoaded ==
    pc = "ready" /\ mode = "update" /\ outcome = "synced" =>
        \A s \in Remotes : Cloned(s) <=> s \in RemotesIn[repo[Primary].head]

(* Whatever failed on the way, when the remotes change no more the sources *)
(* end up at their last commits and stay there.                            *)
CatchesUp == <>[](\A s \in Listed : repo[s].head = origin[s])
=============================================================================
