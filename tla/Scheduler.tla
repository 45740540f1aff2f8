------------------------------ MODULE Scheduler ------------------------------
(***************************************************************************)
(* From the tasks of a goal to a run that can be executed: schedule_tasks  *)
(* (src/rust/ovca-runtime-core/src/scheduler.rs), build_planned_run and    *)
(* initialize_execution (src/rust/ovca-langgraph/src/goal_runtime.rs).     *)
(*                                                                         *)
(* The functions are pure, and so are their models.  A task list is the    *)
(* sequence that the caller comes with; ids are numbers, for the order of  *)
(* names.  The events of a planned run are its plan here; RunReplay has    *)
(* the replay of them.  What the scheduler arranges in waves, the kernel   *)
(* executes by rules of its own.                                           *)
(***************************************************************************)
EXTENDS ExecutionKernel, Sequences, FiniteSets

CONSTANTS
    TaskLists,      \* task lists that a caller may come with
    TheGoal         \* the goal that they are meant for

Task == [id : Nat, dependencies : SUBSET Nat, keys : SUBSET STRING, goal : STRING,
         status : {"pending", "ready", "completed"}, role : Roles]

ASSUME TaskListAssumption ==
    \A list \in TaskLists : \A i \in DOMAIN list : list[i] \in Task

Ids(list) == {list[i].id : i \in DOMAIN list}
TaskOf(list, t) == list[CHOOSE i \in DOMAIN list : list[i].id = t]
DependenciesOf(list, t) == TaskOf(list, t).dependencies
KeysOf(list, t) == TaskOf(list, t).keys

-----------------------------------------------------------------------------
(***************************************************************************)
(* schedule_tasks: checks in the order of the code, then wave after wave.  *)
(***************************************************************************)

\* Fault: what is ready counts as completed for the tasks after it.
ReadyWithTheWave(list, done) ==
    LET first == {t \in Ids(list) \ done : DependenciesOf(list, t) \subseteq done}
    IN {t \in Ids(list) \ done : DependenciesOf(list, t) \subseteq done \cup first}

\* The tasks whose dependencies were completed before the wave began.
Ready(list, done) ==
    {t \in Ids(list) \ done : DependenciesOf(list, t) \subseteq done}

\* Ready tasks in the order of their names, each if its keys are still free.
Wave(list, ready) ==
    LET last == IF ready = {} THEN 0 ELSE CHOOSE t \in ready : \A u \in ready : u <= t
        taken[n \in 0..last] ==
            IF n = 0 THEN {}
            ELSE LET before == taken[n - 1] IN
                 IF n \in ready /\ \A t \in before : KeysOf(list, t) \cap KeysOf(list, n) = {}
                 THEN before \cup {n} ELSE before
    IN taken[last]

\* The waves until nothing remains or nothing is ready.
Waves(list) ==
    LET waves[n \in 0..Cardinality(Ids(list))] ==
            IF n = 0 THEN << >>
            ELSE LET before == waves[n - 1]
                     wave == Wave(list, Ready(list, UNION {before[i] : i \in DOMAIN before}))
                 IN IF wave = {} THEN before ELSE Append(before, wave)
    IN waves[Cardinality(Ids(list))]

Done(waves) == UNION {waves[i] : i \in DOMAIN waves}

Rejected(error) == [error |-> error, waves |-> << >>]

ScheduleTasks(list) ==
    IF Cardinality(Ids(list)) # Len(list) THEN Rejected("DuplicateTaskId")
    ELSE IF \E t \in Ids(list) : ~(DependenciesOf(list, t) \subseteq Ids(list) \ {t})
    THEN LET t == CHOOSE u \in Ids(list) :
                    /\ ~(DependenciesOf(list, u) \subseteq Ids(list) \ {u})
                    /\ \A v \in Ids(list) : v < u =>
                            DependenciesOf(list, v) \subseteq Ids(list) \ {v}
         IN Rejected(IF t \in DependenciesOf(list, t) THEN "SelfDependency"
                     ELSE "MissingDependency")
    ELSE LET waves == Waves(list)
         IN IF Done(waves) # Ids(list) THEN Rejected("Cycle")
            ELSE [error |-> "none", waves |-> waves]

-----------------------------------------------------------------------------
(***************************************************************************)
(* build_planned_run and initialize_execution.                             *)
(***************************************************************************)

\* validate_execution_plan of the replay: every declared task once.
PlanReplays(waves, declared) ==
    /\ Done(waves) = declared
    /\ \A i, j \in DOMAIN waves : i # j => waves[i] \cap waves[j] = {}

\* build_planned_run: what create_run records, or nothing.
BuildPlannedRun(list) ==
    LET plan == ScheduleTasks(list) IN
    IF /\ \A i \in DOMAIN list : list[i].goal = TheGoal /\ list[i].status = "pending"
       /\ plan.error = "none"
       /\ PlanReplays(plan.waves, Ids(list))
    THEN [tasks |-> Ids(list), waves |-> plan.waves]
    ELSE None

\* validate_execution_bootstrap: the list is compared with what was recorded,
\* of which the dependencies and the keys are no part.
Bootstraps(recorded, list) ==
    /\ list # << >> /\ \A i \in DOMAIN list : list[i].goal = TheGoal
    /\ Ids(list) = recorded.tasks /\ Cardinality(Ids(list)) = Len(list)
    /\ \A i \in DOMAIN list : list[i].status = "pending"
    /\ ScheduleTasks(list) = [error |-> "none", waves |-> recorded.waves]

\* ExecutionLifecycleKernel::new, which initialize_run calls.
KernelAccepts(list) ==
    /\ Cardinality(Ids(list)) = Len(list)
    /\ \A i \in DOMAIN list :
        /\ list[i].role \in WorkerRoles
        /\ list[i].status \in {"pending", "ready"}
        /\ list[i].goal = list[1].goal
        /\ list[i].dependencies \subseteq Ids(list)

\* The kernel of a run that is started with the list, with a worker for each
\* role that the tasks have; the name of a lease is that of its task.
KernelOf(list) == INSTANCE ExecutionKernel WITH
    Tasks <- Ids(list), Workers <- WorkerRoles, LeaseIds <- Ids(list),
    IdempotencyKeys <- {"done"}, WriteKeys <- UNION {KeysOf(list, t) : t \in Ids(list)},
    Dependencies <- [t \in Ids(list) |-> DependenciesOf(list, t)],
    WriteKeysOf <- [t \in Ids(list) |-> KeysOf(list, t)],
    AssignedRole <- [t \in Ids(list) |-> TaskOf(list, t).role],
    RoleOf <- [role \in WorkerRoles |-> role],
    InitialStatus <- [t \in Ids(list) |-> TaskOf(list, t).status],
    MaxAttempts <- 1, Time <- 0..2

-----------------------------------------------------------------------------
(***************************************************************************)
(* What a plan is for.                                                     *)
(***************************************************************************)

\* By its dependencies t comes to u.
Follows(list, t, u) ==
    \E way \in UNION {[1..n -> Ids(list)] : n \in 2..(Len(list) + 1)} :
        /\ way[1] = t /\ way[Len(way)] = u
        /\ \A i \in 1..(Len(way) - 1) : way[i + 1] \in DependenciesOf(list, way[i])

\* A list is refused just when it makes no sense as a graph.
RefusedRightly(list) ==
    ScheduleTasks(list).error = "none" <=>
        /\ Cardinality(Ids(list)) = Len(list)
        /\ \A t \in Ids(list) :
            DependenciesOf(list, t) \subseteq Ids(list) /\ ~Follows(list, t, t)

\* A task waits for a wave only if it has to: for what it depends on, or for
\* its keys, which a task of the wave before has that comes first by name.
NothingWaitsInVain(list, waves) ==
    \A i \in 2..Len(waves) : \A t \in waves[i] :
        \E u \in waves[i - 1] :
            \/ u \in DependenciesOf(list, t)
            \/ u < t /\ KeysOf(list, u) \cap KeysOf(list, t) # {}

\* Someone of the right role claims t, or completes it.
Claim(list, t) == [op |-> "claim", task |-> t, worker |-> TaskOf(list, t).role,
                   lease |-> t, now |-> 0, expires |-> 2]
Finish(list, t) == [op |-> "complete", task |-> t, worker |-> TaskOf(list, t).role,
                    lease |-> t, now |-> 1, key |-> "done"]

\* The kernel after the tasks of a set made one step each, or None if one of
\* them may not; the tasks of a wave run at one time.
AllStep(list, state, wave, RequestFor(_, _)) ==
    LET last == CHOOSE t \in wave : \A u \in wave : u <= t
        stepped[n \in 0..last] ==
            IF n = 0 THEN state
            ELSE LET before == stepped[n - 1] IN
                 IF n \notin wave \/ before = None THEN before
                 ELSE IF KernelOf(list)!Changes(before, RequestFor(list, n))
                 THEN KernelOf(list)!Effect(before, RequestFor(list, n)) ELSE None
    IN stepped[last]

\* The kernel after the first n waves, each claimed as a whole and finished.
RunsWaveByWave(list, waves) ==
    LET after[n \in 0..Len(waves)] ==
            IF n = 0 THEN KernelOf(list)!NewRun
            ELSE LET before == after[n - 1] IN
                 IF before = None THEN None
                 ELSE LET claimed == AllStep(list, before, waves[n], Claim)
                      IN IF claimed = None THEN None
                         ELSE AllStep(list, claimed, waves[n], Finish)
    IN after[Len(waves)] # None

\* For every list: it is refused just when its graph is none, and a plan keeps
\* nobody waiting.  A planned run is bootstrapped if it has tasks and all of them
\* are for workers; then the kernel takes it and lets every wave run as a whole.
EveryPlanCanBeExecuted ==
    \A list \in TaskLists :
        LET recorded == BuildPlannedRun(list) IN
        /\ RefusedRightly(list)
        /\ recorded # None =>
            /\ NothingWaitsInVain(list, recorded.waves)
            /\ Bootstraps(recorded, list) <=> list # << >>
            /\ KernelAccepts(list) <=> \A i \in DOMAIN list : list[i].role \in WorkerRoles
            /\ KernelAccepts(list) => RunsWaveByWave(list, recorded.waves)
=============================================================================
