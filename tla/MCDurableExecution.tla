-------------------------- MODULE MCDurableExecution --------------------------
(* Tasks a and b write the same key.  The two callers act for two workers,  *)
(* or for the same one (a repeated call while the first is still running).  *)
EXTENDS DurableExecution, Scheduler, TLC

CONSTANTS a, b, c1, c2, w1, w2, k, l1, l2, MaxTime

MCDependencies == [t \in Tasks |-> {}]
MCWriteKeysOf == [t \in Tasks |-> {k}]
MCAssignedRole == [t \in Tasks |-> "engineer"]
MCRoleOf == [w \in Workers |-> "engineer"]
MCInitialStatus == [t \in Tasks |-> IF t = a THEN "ready" ELSE "pending"]
MCTime == 0..MaxTime

TwoWorkers == c1 :> w1 @@ c2 :> w2
OneWorker == c1 :> w1 @@ c2 :> w1

\* Task lists: every graph of three tasks that share up to two keys, and short
\* lists that are wrong in every other way.
OneTask(id, dependencies, keys) ==
    [id |-> id, dependencies |-> dependencies, keys |-> keys, goal |-> "goal",
     status |-> "pending", role |-> "engineer"]
Keyed == SUBSET {"left", "right"}
Graphs3 ==
    {<<OneTask(1, d1, k1), OneTask(2, d2, k2), OneTask(3, d3, k3)>> :
        d1 \in SUBSET (1..3), d2 \in SUBSET (1..3), d3 \in SUBSET (1..3),
        k1 \in Keyed, k2 \in Keyed, k3 \in Keyed}
Odd ==
    {[OneTask(id, dependencies, {}) EXCEPT !.goal = goal, !.status = status, !.role = role] :
        id \in 1..2, dependencies \in SUBSET (1..3), goal \in {"goal", "other"},
        status \in {"pending", "ready"}, role \in {"reviewer", "coordinator"}}
MCTaskLists == Graphs3 \cup {<< >>} \cup {<<x>> : x \in Odd} \cup {<<x, y>> : x \in Odd, y \in Odd}

\* TLC evaluates what depends on no variable before it has any state.
SchedulesAreSound == row # None => EveryPlanCanBeExecuted

Symmetry == Permutations({l1, l2})
=============================================================================
