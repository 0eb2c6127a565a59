------------------------------- MODULE PlanCode -------------------------------
(***************************************************************************)
(* Plan.Steps() as the code computes it: per-component lists kept sorted,  *)
(* service changes coalesced in one pass, both lists merged by cursor.     *)
(* Module MCPlan checks that it computes the order modules Plan and        *)
(* PlanSteps describe.  Entries are those of module Plan.                  *)
(***************************************************************************)
EXTENDS PlanSteps, SequencesExt

(* Appended for a service that is only enabled or disabled.                *)
ZeroAction == [todo |-> "Unknown", kind |-> "Unknown", comp |-> 0, path |-> 0,
               prio |-> 0, list |-> "service"]

SortedBy(S, Before(_, _)) ==
    SortSeq(FoldSet(LAMBDA e, s : Append(s, e), <<>>, S), Before)

(* slices.SortStableFunc(_, prioritizeActions) *)
SortStable(s) ==
    LET order == SortedBy(DOMAIN s, LAMBDA i, j :
                     s[i].prio < s[j].prio \/ (s[i].prio = s[j].prio /\ i < j))
    IN  [k \in DOMAIN s |-> s[order[k]]]

(* One pass over the changes of a component: toggles pass through, every   *)
(* other change replaces the one kept for its service when it is stronger. *)
StrongerThan(todo, end) ==
    \/ todo = "Reload"  /\ end < 1
    \/ todo = "Start"   /\ end < 2
    \/ todo = "Restart" /\ end < 3
    \/ todo = "Stop"    /\ end < 4

CoalesceServices(changes) ==
    LET paths == {changes[i].path : i \in DOMAIN changes}
        start == [toggles |-> <<>>, end |-> [p \in paths |-> 0],
                  act |-> [p \in paths |-> ZeroAction]]
        visit(acc, a) ==
            IF a.todo \in {"Enable", "Disable"}
            THEN [acc EXCEPT !.toggles = Append(@, a)]
            ELSE IF StrongerThan(a.todo, acc.end[a.path])
            THEN [acc EXCEPT !.end[a.path] = EndOf(a.todo), !.act[a.path] = a]
            ELSE acc
        last == FoldLeft(visit, start, changes)
        sorted == SortedBy(paths, <)
    IN  last.toggles \o [k \in DOMAIN sorted |-> last.act[sorted[k]]]

(* mergeStepsIntoPlan *)
MergeSteps(resources, svcs) ==
    LET emit(acc, r) ==
            LET upTo == Len(SelectSeq(svcs, LAMBDA s : s.prio <= r.prio))
            IN  [out |-> acc.out \o SubSeq(svcs, acc.si, upTo) \o <<r>>,
                 si  |-> IF upTo < acc.si THEN acc.si ELSE upTo + 1]
        last == FoldLeft(emit, [out |-> <<>>, si |-> 1], resources)
    IN  last.out \o SubSeq(svcs, last.si, Len(svcs))

(* The changes of each component, in the order they were added.            *)
CodeSteps(changes, reload) ==
    LET comps == SortedBy({c \in DOMAIN changes : changes[c] # <<>>}, <)
        of(c, l) == SortStable(SelectSeq(changes[c], LAMBDA e : e.list = l))
        resources == FlattenSeq([k \in DOMAIN comps |-> of(comps[k], "resource")])
        svcs == FlattenSeq([k \in DOMAIN comps |-> CoalesceServices(of(comps[k], "service"))])
    IN  MergeSteps(resources \o (IF reload THEN <<HostReload>> ELSE <<>>), SortStable(svcs))
=============================================================================
