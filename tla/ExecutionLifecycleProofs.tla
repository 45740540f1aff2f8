----------------------- MODULE ExecutionLifecycleProofs -----------------------
(***************************************************************************)
(* Theorems about the in-memory kernel, for every task graph, retry        *)
(* budget, set of instants and lag.                                        *)
(***************************************************************************)
EXTENDS ExecutionLifecycle, TLAPS

USE DefinitionAssumption, NoneAssumption

LEMMA TimeIsNat == Time \subseteq Nat
  BY DEF DefinitionAssumption

-----------------------------------------------------------------------------
\* Each operation maps snapshots to snapshots.

LEMMA NewRunType == NewRun \in Snapshot
  BY DEF NewRun, Snapshot, TaskState, Statuses, TerminalStatuses

LEMMA NewLeaseType ==
    ASSUME NEW s \in Snapshot, NEW r \in ClaimRequest
    PROVE  NewLease(s, r) \in Lease
  BY DEF NewLease, Lease, Snapshot, TaskState, ClaimRequest

LEMMA OwnerForType ==
    ASSUME NEW t \in Tasks, NEW lease \in Lease
    PROVE  OwnerFor(t, lease) \in WriteKeyOwner
  BY DEF OwnerFor, Lease, WriteKeyOwner

LEMMA ClaimEffectType ==
    ASSUME NEW s \in Snapshot, NEW r \in ClaimRequest
    PROVE  ClaimEffect(s, r) \in Snapshot
  <1>. DEFINE e == ClaimEffect(s, r)
  <1>1. NewLease(s, r) \in Lease
    BY NewLeaseType
  <1>2. r.task \in Tasks
    BY DEF ClaimRequest
  <1>3. OwnerFor(r.task, NewLease(s, r)) \in WriteKeyOwner
    BY <1>1, <1>2, OwnerForType
  <1>4. ClaimedTask(s, r) \in TaskState
    BY <1>1, <1>2 DEF ClaimedTask, Snapshot, TaskState, Statuses
  <1>5. e.tasks \in [Tasks -> TaskState]
    BY <1>2, <1>4 DEF ClaimEffect, Snapshot
  <1>6. e.owners \in [WriteKeys -> WriteKeyOwner \union {None}]
    BY <1>3 DEF ClaimEffect, Snapshot, Unexpired
  <1>. QED
    BY <1>5, <1>6 DEF ClaimEffect, Snapshot

LEMMA HeartbeatEffectType ==
    ASSUME NEW s \in Snapshot, NEW r \in HeartbeatRequest,
           s.tasks[r.task].lease # None, OwnersPresent(s, r.task)
    PROVE  HeartbeatEffect(s, r) \in Snapshot
  <1>. DEFINE st == s.tasks[r.task]
              e == HeartbeatEffect(s, r)
  <1>1. r.task \in Tasks /\ r.now \in Time /\ r.expires \in Time
    BY DEF HeartbeatRequest
  <1>2. st \in TaskState /\ st.lease \in Lease
    BY <1>1 DEF Snapshot, TaskState
  <1>3. ExtendedLease(st.lease, r) \in Lease
    BY <1>1, <1>2 DEF ExtendedLease, Lease
  <1>4. ExtendedTask(st, r) \in TaskState
    BY <1>2, <1>3 DEF ExtendedTask, TaskState
  <1>5. e.tasks \in [Tasks -> TaskState]
    BY <1>1, <1>4 DEF HeartbeatEffect, Snapshot
  <1>6. e.owners \in [WriteKeys -> WriteKeyOwner \union {None}]
    BY <1>1 DEF HeartbeatEffect, Snapshot, OwnersPresent, WriteKeyOwner
  <1>. QED
    BY <1>5, <1>6 DEF HeartbeatEffect, Snapshot

LEMMA ReleasedOwnersType ==
    ASSUME NEW s \in Snapshot, NEW t \in Tasks
    PROVE  ReleasedOwners(s, t) \in [WriteKeys -> WriteKeyOwner \union {None}]
  BY DEF ReleasedOwners, Snapshot

LEMMA TerminalEffectType ==
    ASSUME NEW s \in Snapshot, NEW r \in TerminalRequest
    PROVE  TerminalEffect(s, r) \in Snapshot
  <1>1. r.task \in Tasks
    BY DEF TerminalRequest
  <1>2. s.tasks[r.task] \in TaskState
    BY <1>1 DEF Snapshot
  <1>3. RecordOf(r) \in TerminalRecord
    BY DEF RecordOf, TerminalRequest, TerminalRecord, OutcomeOf, Outcomes
  <1>4. FinishedTask(s.tasks[r.task], r) \in TaskState
    BY <1>2, <1>3 DEF FinishedTask, TaskState, OutcomeOf, Statuses,
                      TerminalStatuses
  <1>5. TerminalEffect(s, r).tasks \in [Tasks -> TaskState]
    BY <1>1, <1>4 DEF TerminalEffect, Snapshot
  <1>. QED
    BY <1>1, <1>5, ReleasedOwnersType DEF TerminalEffect, Snapshot

LEMMA FailureEffectType ==
    ASSUME NEW s \in Snapshot, NEW r \in FailureRequest
    PROVE  FailureEffect(s, r) \in Snapshot
  <1>1. r.task \in Tasks
    BY DEF FailureRequest
  <1>2. s.tasks[r.task] \in TaskState
    BY <1>1 DEF Snapshot
  <1>3. FailedTask(s.tasks[r.task]) \in TaskState
    BY <1>2 DEF FailedTask, TaskState, StatusAfterFailure, Statuses,
                TerminalStatuses
  <1>4. FailureEffect(s, r).tasks \in [Tasks -> TaskState]
    BY <1>1, <1>3 DEF FailureEffect, Snapshot
  <1>. QED
    BY <1>1, <1>4, ReleasedOwnersType DEF FailureEffect, Snapshot

-----------------------------------------------------------------------------
\* An operation on one task leaves every other task's state alone.

LEMMA OtherTasksKept ==
    ASSUME NEW s \in Snapshot, NEW r \in Request, NEW t \in Tasks,
           t # r.task
    PROVE  /\ ClaimEffect(s, r).tasks[t] = s.tasks[t]
           /\ HeartbeatEffect(s, r).tasks[t] = s.tasks[t]
           /\ TerminalEffect(s, r).tasks[t] = s.tasks[t]
           /\ FailureEffect(s, r).tasks[t] = s.tasks[t]
  BY DEF Snapshot, ClaimEffect, HeartbeatEffect, TerminalEffect, FailureEffect

\* The state an operation gives to the task it names.
LEMMA NamedTaskChanged ==
    ASSUME NEW s \in Snapshot, NEW r, r.task \in Tasks
    PROVE  /\ ClaimEffect(s, r).tasks[r.task] = ClaimedTask(s, r)
           /\ HeartbeatEffect(s, r).tasks[r.task]
                = ExtendedTask(s.tasks[r.task], r)
           /\ TerminalEffect(s, r).tasks[r.task]
                = FinishedTask(s.tasks[r.task], r)
           /\ FailureEffect(s, r).tasks[r.task] = FailedTask(s.tasks[r.task])
  BY DEF Snapshot, ClaimEffect, HeartbeatEffect, TerminalEffect, FailureEffect

-----------------------------------------------------------------------------
\* Each operation, where its guard allows it, keeps a task's status, attempts,
\* lease and terminal record in step.

LEMMA ClaimedTaskFits ==
    ASSUME NEW s \in Snapshot, NEW r \in ClaimRequest, ClaimAllowed(s, r)
    PROVE  TaskFits(ClaimedTask(s, r))
  <1>1. s.tasks[r.task] \in TaskState
    BY DEF Snapshot, ClaimRequest
  <1>2. NewLease(s, r) \in Lease
    BY NewLeaseType
  <1>. QED
    BY <1>1, <1>2 DEF ClaimedTask, NewLease, ClaimAllowed, AttemptLeft, TaskFits,
         AttemptsFit, LeaseFits, RecordFits, Outcomes, TaskState

LEMMA ExtendedTaskFits ==
    ASSUME NEW st \in TaskState, NEW r \in HeartbeatRequest,
           st.lease # None, TaskFits(st)
    PROVE  TaskFits(ExtendedTask(st, r))
  <1>1. st.lease \in Lease
    BY DEF TaskState
  <1>2. ExtendedLease(st.lease, r) \in Lease
    BY <1>1 DEF ExtendedLease, Lease, HeartbeatRequest
  <1>3. ExtendedLease(st.lease, r).attempt = st.lease.attempt
    BY <1>1 DEF ExtendedLease, Lease
  <1>. QED
    BY <1>2, <1>3 DEF ExtendedTask, TaskFits, AttemptsFit, LeaseFits,
                      RecordFits, TaskState

LEMMA FinishedTaskFits ==
    ASSUME NEW st \in TaskState, NEW r \in TerminalRequest,
           st.status = "running", TaskFits(st)
    PROVE  TaskFits(FinishedTask(st, r))
  <1>1. RecordOf(r) \in TerminalRecord /\ RecordOf(r).outcome = OutcomeOf(r)
    BY DEF RecordOf, TerminalRequest, TerminalRecord, OutcomeOf, Outcomes
  <1>2. OutcomeOf(r) \in Outcomes
    BY DEF OutcomeOf, Outcomes
  <1>. QED
    BY <1>1, <1>2 DEF FinishedTask, TaskFits, AttemptsFit, LeaseFits,
                      RecordFits, TaskState, Outcomes

LEMMA FailedTaskFits ==
    ASSUME NEW st \in TaskState, st.status = "running", TaskFits(st)
    PROVE  TaskFits(FailedTask(st))
  BY DEF FailedTask, StatusAfterFailure, TaskFits, AttemptsFit, LeaseFits,
         RecordFits, TaskState, Outcomes

-----------------------------------------------------------------------------
(* The kernel's state.                                                     *)

\* The kernel's state is well typed: every operation returns a snapshot, and a
\* panic keeps the old one.
THEOREM TypeCorrect == Spec => []TypeOK
  <1>1. Init => TypeOK
    BY NewRunType DEF Init, TypeOK
  <1>2. TypeOK /\ [Next]_vars => TypeOK'
    <2>. SUFFICES ASSUME TypeOK, [Next]_vars PROVE TypeOK'
      OBVIOUS
    <2>. USE DEF TypeOK
    <2>1. ASSUME NEW r \in ClaimRequest, Claim(r) PROVE TypeOK'
      BY <2>1, ClaimEffectType DEF Claim
    <2>2. ASSUME NEW r \in HeartbeatRequest, Heartbeat(r) PROVE TypeOK'
      BY <2>2, HeartbeatEffectType DEF Heartbeat, HeartbeatAllowed, HoldsLease
    <2>3. ASSUME NEW r \in HeartbeatRequest, HeartbeatPanics(r) PROVE TypeOK'
      BY <2>3 DEF HeartbeatPanics
    <2>4. ASSUME NEW r \in TerminalRequest, Finish(r) PROVE TypeOK'
      BY <2>4, TerminalEffectType DEF Finish
    <2>5. ASSUME NEW r \in FailureRequest, Fail(r) PROVE TypeOK'
      BY <2>5, FailureEffectType DEF Fail
    <2>6. CASE Tick
      BY <2>6 DEF Tick
    <2>7. CASE UNCHANGED vars
      BY <2>7 DEF vars
    <2>. QED
      BY <2>1, <2>2, <2>3, <2>4, <2>5, <2>6, <2>7 DEF Next
  <1>. QED
    BY <1>1, <1>2, PTL DEF Spec

-----------------------------------------------------------------------------
\* What a step does to the run, whatever the action: nothing, or one kernel
\* operation on a request in flight.

RunStep ==
    \/ run' = run
    \/ \E r \in ClaimRequest :
          InFlight(r) /\ ClaimAllowed(run, r) /\ run' = ClaimEffect(run, r)
    \/ \E r \in HeartbeatRequest :
          /\ InFlight(r) /\ HeartbeatAllowed(run, r) /\ OwnersPresent(run, r.task)
          /\ run' = HeartbeatEffect(run, r)
    \/ \E r \in TerminalRequest :
          InFlight(r) /\ TerminalAllowed(run, r) /\ run' = TerminalEffect(run, r)
    \/ \E r \in FailureRequest :
          InFlight(r) /\ FailureAllowed(run, r) /\ run' = FailureEffect(run, r)

LEMMA StepIsRunStep == [Next]_vars => RunStep
  BY DEF RunStep, Next, vars, Claim, Heartbeat, HeartbeatPanics, Finish, Fail,
         Tick

\* A task's state after a step: as it was, or the named task's new state.
LEMMA TaskStep ==
    ASSUME TypeOK, [Next]_vars, NEW t \in Tasks
    PROVE  \/ run'.tasks[t] = run.tasks[t]
           \/ \E r \in ClaimRequest :
                 /\ r.task = t /\ InFlight(r) /\ ClaimAllowed(run, r)
                 /\ run'.tasks[t] = ClaimedTask(run, r)
           \/ \E r \in HeartbeatRequest :
                 /\ r.task = t /\ HeartbeatAllowed(run, r)
                 /\ run'.tasks[t] = ExtendedTask(run.tasks[t], r)
           \/ \E r \in TerminalRequest :
                 /\ r.task = t /\ TerminalAllowed(run, r)
                 /\ run'.tasks[t] = FinishedTask(run.tasks[t], r)
           \/ \E r \in FailureRequest :
                 /\ r.task = t /\ FailureAllowed(run, r)
                 /\ run'.tasks[t] = FailedTask(run.tasks[t])
  <1>0. run \in Snapshot
    BY DEF TypeOK
  <1>1. CASE run' = run
    BY <1>1
  <1>2. ASSUME NEW r \in ClaimRequest, InFlight(r), ClaimAllowed(run, r),
               run' = ClaimEffect(run, r)
        PROVE  \/ run'.tasks[t] = run.tasks[t]
               \/ r.task = t /\ run'.tasks[t] = ClaimedTask(run, r)
    BY <1>0, <1>2, OtherTasksKept, NamedTaskChanged DEF Request
  <1>3. ASSUME NEW r \in HeartbeatRequest, run' = HeartbeatEffect(run, r)
        PROVE  \/ run'.tasks[t] = run.tasks[t]
               \/ r.task = t /\ run'.tasks[t] = ExtendedTask(run.tasks[t], r)
    BY <1>0, <1>3, OtherTasksKept, NamedTaskChanged DEF Request
  <1>4. ASSUME NEW r \in TerminalRequest, run' = TerminalEffect(run, r)
        PROVE  \/ run'.tasks[t] = run.tasks[t]
               \/ r.task = t /\ run'.tasks[t] = FinishedTask(run.tasks[t], r)
    BY <1>0, <1>4, OtherTasksKept, NamedTaskChanged DEF Request
  <1>5. ASSUME NEW r \in FailureRequest, run' = FailureEffect(run, r)
        PROVE  \/ run'.tasks[t] = run.tasks[t]
               \/ r.task = t /\ run'.tasks[t] = FailedTask(run.tasks[t])
    BY <1>0, <1>5, OtherTasksKept, NamedTaskChanged DEF Request
  <1>. QED
    BY <1>1, <1>2, <1>3, <1>4, <1>5, StepIsRunStep DEF RunStep

-----------------------------------------------------------------------------
\* Status, attempts, lease and record of every task stay in step: the per-task
\* half of `restore` accepts every state the kernel can reach.

LEMMA TasksFitInductive == TypeOK /\ TasksFit /\ [Next]_vars => TasksFit'
  <1>. SUFFICES ASSUME TypeOK, TasksFit, [Next]_vars, NEW t \in Tasks
                PROVE  TaskFits(run'.tasks[t])
    BY DEF TasksFit
  <1>1. run \in Snapshot /\ run.tasks[t] \in TaskState /\ TaskFits(run.tasks[t])
    BY DEF TypeOK, Snapshot, TasksFit
  <1>2. CASE run'.tasks[t] = run.tasks[t]
    BY <1>1, <1>2
  <1>3. ASSUME NEW r \in ClaimRequest, ClaimAllowed(run, r),
               run'.tasks[t] = ClaimedTask(run, r)
        PROVE  TaskFits(run'.tasks[t])
    BY <1>1, <1>3, ClaimedTaskFits
  <1>4. ASSUME NEW r \in HeartbeatRequest, r.task = t, HeartbeatAllowed(run, r),
               run'.tasks[t] = ExtendedTask(run.tasks[t], r)
        PROVE  TaskFits(run'.tasks[t])
    BY <1>1, <1>4, ExtendedTaskFits DEF HeartbeatAllowed, HoldsLease
  <1>5. ASSUME NEW r \in TerminalRequest, r.task = t, TerminalAllowed(run, r),
               run'.tasks[t] = FinishedTask(run.tasks[t], r)
        PROVE  TaskFits(run'.tasks[t])
    BY <1>1, <1>5, FinishedTaskFits DEF TerminalAllowed, ActiveOwner
  <1>6. ASSUME NEW r \in FailureRequest, r.task = t, FailureAllowed(run, r),
               run'.tasks[t] = FailedTask(run.tasks[t])
        PROVE  TaskFits(run'.tasks[t])
    BY <1>1, <1>6, FailedTaskFits DEF FailureAllowed, ActiveOwner
  <1>. QED
    BY <1>2, <1>3, <1>4, <1>5, <1>6, TaskStep

THEOREM TasksAlwaysFit == Spec => []TasksFit
  <1>1. ASSUME NEW t \in Tasks PROVE TaskFits(NewRun.tasks[t])
    <2>1. InitialStatus[t] \in {"pending", "ready"} /\ MaxAttempts \in Nat \ {0}
      BY DefinitionAssumption DEF DefinitionAssumption
    <2>. QED
      BY <2>1 DEF NewRun, TaskFits, AttemptsFit, LeaseFits, RecordFits, Outcomes
  <1>2. Init => TasksFit
    BY <1>1 DEF Init, TasksFit
  <1>. QED
    BY <1>2, TypeCorrect, TasksFitInductive, PTL DEF Spec

\* A terminal status, its record and its attempt count never change again.
THEOREM TerminalStaysFinal == Spec => TerminalIsFinal
  <1>1. TypeOK /\ TasksFit /\ [Next]_vars =>
          \A t \in Tasks : run.tasks[t].status \in TerminalStatuses =>
              run'.tasks[t] = run.tasks[t]
    <2>. SUFFICES ASSUME TypeOK, TasksFit, [Next]_vars, NEW t \in Tasks,
                         run.tasks[t].status \in TerminalStatuses
                  PROVE  run'.tasks[t] = run.tasks[t]
      OBVIOUS
    <2>1. run.tasks[t].status \notin {"pending", "ready", "running"}
      BY DEF TerminalStatuses
    <2>2. run.tasks[t].lease = None
      BY <2>1 DEF TasksFit, TaskFits, LeaseFits
    <2>. QED
      BY <2>1, <2>2, TaskStep DEF ClaimAllowed, Unclaimed, LeaseRanOut,
           HeartbeatAllowed, HoldsLease, TerminalAllowed, FailureAllowed,
           ActiveOwner
  <1>. QED
    BY <1>1, TypeCorrect, TasksAlwaysFit, PTL DEF Spec, TerminalIsFinal

-----------------------------------------------------------------------------
\* A task that was started depends on completed tasks only, for good.
THEOREM DependenciesAlwaysCompleted == Spec => []DependenciesStayCompleted
  <1>1. Init => DependenciesStayCompleted
    BY DEF Init, DependenciesStayCompleted, NewRun
  <1>2. /\ TypeOK /\ TasksFit /\ DependenciesStayCompleted
        /\ (\A t \in Tasks : run.tasks[t].status \in TerminalStatuses =>
              run'.tasks[t] = run.tasks[t])
        /\ [Next]_vars
        => DependenciesStayCompleted'
    <2>. SUFFICES ASSUME TypeOK, TasksFit, DependenciesStayCompleted, [Next]_vars,
                         \A u \in Tasks : run.tasks[u].status \in TerminalStatuses
                            => run'.tasks[u] = run.tasks[u],
                         NEW t \in Tasks, run'.tasks[t].attempts > 0,
                         NEW d \in Dependencies[t]
                  PROVE  run'.tasks[d].status = "completed"
      BY DEF DependenciesStayCompleted, DependenciesCompleted
    <2>1. d \in Tasks /\ run.tasks[t] \in TaskState
      BY DefinitionAssumption DEF TypeOK, Snapshot, DefinitionAssumption
    <2>2. run.tasks[t].attempts > 0 => DependenciesCompleted(run, t)
      BY DEF DependenciesStayCompleted
    <2>3. CASE run.tasks[t].attempts > 0
      BY <2>1, <2>2, <2>3 DEF DependenciesCompleted, TerminalStatuses
    <2>4. CASE ~(run.tasks[t].attempts > 0)
      <3>1. run.tasks[t].attempts = 0 /\ run.tasks[t].status # "running"
            /\ run.tasks[t].lease = None
        BY <2>1, <2>4 DEF TaskState, TasksFit, TaskFits, AttemptsFit, LeaseFits
      <3>2. \E r \in ClaimRequest : r.task = t /\ ClaimAllowed(run, r)
        BY <3>1, TaskStep DEF HeartbeatAllowed, HoldsLease, TerminalAllowed,
             FailureAllowed, ActiveOwner
      <3>3. DependenciesCompleted(run, t)
        BY <3>2 DEF ClaimAllowed
      <3>. QED
        BY <2>1, <3>3 DEF DependenciesCompleted, TerminalStatuses
    <2>. QED
      BY <2>3, <2>4
  <1>3. Spec => [][\A t \in Tasks :
            run.tasks[t].status \in TerminalStatuses =>
                run'.tasks[t] = run.tasks[t]]_vars
    BY TerminalStaysFinal DEF TerminalIsFinal
  <1>4. UNCHANGED vars => \A t \in Tasks :
            run.tasks[t].status \in TerminalStatuses =>
                run'.tasks[t] = run.tasks[t]
    BY DEF vars
  <1>. QED
    BY <1>1, <1>2, <1>3, <1>4, TypeCorrect, TasksAlwaysFit, PTL DEF Spec

\* A lease that has not run out is never replaced under its holder: whoever
\* claims must present an instant at or after its expiry, and none lies ahead
\* of the clock.
THEOREM ActiveLeaseNeverReplaced == Spec => ActiveLeaseIsNotReplaced
  <1>1. TypeOK /\ TasksFit /\ [Next]_vars =>
          \A t \in Tasks : Active(t) /\ run'.tasks[t].lease # None =>
              /\ run'.tasks[t].lease.id = run.tasks[t].lease.id
              /\ run'.tasks[t].lease.worker = run.tasks[t].lease.worker
              /\ run'.tasks[t].lease.attempt = run.tasks[t].lease.attempt
    <2>. SUFFICES ASSUME TypeOK, TasksFit, [Next]_vars, NEW t \in Tasks,
                         Active(t), run'.tasks[t].lease # None
                  PROVE  /\ run'.tasks[t].lease.id = run.tasks[t].lease.id
                         /\ run'.tasks[t].lease.worker = run.tasks[t].lease.worker
                         /\ run'.tasks[t].lease.attempt = run.tasks[t].lease.attempt
      OBVIOUS
    <2>1. run.tasks[t] \in TaskState /\ run.tasks[t].lease \in Lease
      BY DEF TypeOK, Snapshot, TaskState, Active
    <2>2. run.tasks[t].status = "running" /\ run.tasks[t].lease.expires > clock
      BY DEF Active, TasksFit, TaskFits, LeaseFits
    <2>3. run.tasks[t].lease.expires \in Nat /\ clock \in Nat
      BY <2>1, TimeIsNat DEF Lease, TypeOK
    <2>4. ASSUME NEW r \in ClaimRequest, r.task = t, InFlight(r),
                 ClaimAllowed(run, r)
          PROVE  FALSE
      <3>1. r.now \in Nat /\ r.now <= clock
        BY <2>4, TimeIsNat DEF ClaimRequest, InFlight
      <3>2. run.tasks[t].lease.expires <= r.now
        BY <2>2, <2>4 DEF ClaimAllowed, Unclaimed, LeaseRanOut
      <3>. QED
        BY <2>2, <2>3, <3>1, <3>2
    <2>5. ASSUME NEW r \in HeartbeatRequest,
                 run'.tasks[t] = ExtendedTask(run.tasks[t], r)
          PROVE  /\ run'.tasks[t].lease.id = run.tasks[t].lease.id
                 /\ run'.tasks[t].lease.worker = run.tasks[t].lease.worker
                 /\ run'.tasks[t].lease.attempt = run.tasks[t].lease.attempt
      BY <2>1, <2>5 DEF ExtendedTask, ExtendedLease, TaskState, Lease
    <2>6. ASSUME NEW r, \/ run'.tasks[t] = FinishedTask(run.tasks[t], r)
                        \/ run'.tasks[t] = FailedTask(run.tasks[t])
          PROVE  FALSE
      BY <2>1, <2>6 DEF FinishedTask, FailedTask, TaskState
    <2>. QED
      BY <2>4, <2>5, <2>6, TaskStep
  <1>. QED
    BY <1>1, TypeCorrect, TasksAlwaysFit, PTL DEF Spec, ActiveLeaseIsNotReplaced

-----------------------------------------------------------------------------
\* Every owner entry points at the lease that took the key.

LEMMA OwnerHoldsLeaseInductive ==
    TypeOK /\ OwnerHoldsLease /\ [Next]_vars => OwnerHoldsLease'
  <1>. SUFFICES ASSUME TypeOK, OwnerHoldsLease, [Next]_vars,
                       NEW k \in WriteKeys, run'.owners[k] # None
                PROVE  /\ k \in WriteKeysOf[run'.owners[k].task]
                       /\ run'.tasks[run'.owners[k].task].lease # None
                       /\ run'.tasks[run'.owners[k].task].lease.worker
                            = run'.owners[k].worker
                       /\ run'.tasks[run'.owners[k].task].lease.id
                            = run'.owners[k].lease
    BY DEF OwnerHoldsLease
  <1>. DEFINE Held(s) == /\ k \in WriteKeysOf[s.owners[k].task]
                         /\ s.tasks[s.owners[k].task].lease # None
                         /\ s.tasks[s.owners[k].task].lease.worker
                              = s.owners[k].worker
                         /\ s.tasks[s.owners[k].task].lease.id
                              = s.owners[k].lease
  <1>1. run \in Snapshot /\ (run.owners[k] # None => Held(run))
    BY DEF TypeOK, OwnerHoldsLease
  <1>2. CASE run' = run
    BY <1>1, <1>2
  <1>3. ASSUME NEW r \in ClaimRequest, run' = ClaimEffect(run, r),
               ClaimAllowed(run, r)
        PROVE  Held(run')
    <2>1. r.task \in Tasks /\ r \in Request /\ NewLease(run, r) \in Lease
      BY <1>1, NewLeaseType DEF ClaimRequest, Request
    <2>2. CASE k \in WriteKeysOf[r.task]
      <3>1. run'.owners[k] = OwnerFor(r.task, NewLease(run, r))
        BY <1>3, <2>2 DEF ClaimEffect
      <3>2. run'.tasks[r.task] = ClaimedTask(run, r)
        BY <1>1, <1>3, <2>1, NamedTaskChanged
      <3>3. run'.tasks[r.task].lease = NewLease(run, r)
        BY <3>2 DEF ClaimedTask
      <3>. QED
        BY <2>1, <2>2, <3>1, <3>3, NoneAssumption DEF OwnerFor, NoneAssumption
    <2>3. CASE k \notin WriteKeysOf[r.task]
      <3>1. run'.owners[k] = run.owners[k] /\ run.owners[k] # None
        BY <1>3, <2>3 DEF ClaimEffect, Unexpired
      <3>2. run.owners[k].task \in Tasks /\ run.owners[k].task # r.task
        BY <1>1, <2>3, <3>1 DEF Snapshot, WriteKeyOwner
      <3>3. run'.tasks[run.owners[k].task] = run.tasks[run.owners[k].task]
        BY <1>1, <1>3, <2>1, <3>2, OtherTasksKept
      <3>. QED
        BY <1>1, <3>1, <3>3
    <2>. QED
      BY <2>2, <2>3
  <1>4. ASSUME NEW r \in HeartbeatRequest, run' = HeartbeatEffect(run, r),
               HeartbeatAllowed(run, r), OwnersPresent(run, r.task)
        PROVE  Held(run')
    <2>1. r.task \in Tasks /\ r \in Request
      BY DEF HeartbeatRequest, Request
    <2>2. run.owners[k] \in WriteKeyOwner
      BY <1>1, <1>4 DEF Snapshot, HeartbeatEffect, OwnersPresent
    <2>3. /\ run'.owners[k].task = run.owners[k].task
          /\ run'.owners[k].worker = run.owners[k].worker
          /\ run'.owners[k].lease = run.owners[k].lease
      BY <1>4, <2>2 DEF HeartbeatEffect, WriteKeyOwner
    <2>4. run.owners[k].task \in Tasks /\ run.owners[k] # None
      BY <2>2, NoneAssumption DEF WriteKeyOwner, NoneAssumption
    <2>5. CASE run.owners[k].task = r.task
      <3>1. run.tasks[r.task] \in TaskState /\ run.tasks[r.task].lease \in Lease
        BY <1>1, <1>4, <2>1 DEF Snapshot, TaskState, HeartbeatAllowed, HoldsLease
      <3>2. run'.tasks[r.task] = ExtendedTask(run.tasks[r.task], r)
        BY <1>1, <1>4, <2>1, NamedTaskChanged
      <3>3. run'.tasks[r.task].lease = ExtendedLease(run.tasks[r.task].lease, r)
        BY <3>1, <3>2 DEF ExtendedTask, TaskState
      <3>4. /\ ExtendedLease(run.tasks[r.task].lease, r) \in Lease
            /\ ExtendedLease(run.tasks[r.task].lease, r).worker
                 = run.tasks[r.task].lease.worker
            /\ ExtendedLease(run.tasks[r.task].lease, r).id
                 = run.tasks[r.task].lease.id
        BY <3>1 DEF ExtendedLease, Lease, HeartbeatRequest
      <3>. QED
        BY <1>1, <2>3, <2>4, <2>5, <3>3, <3>4, NoneAssumption DEF NoneAssumption
    <2>6. CASE run.owners[k].task # r.task
      BY <1>1, <1>4, <2>1, <2>3, <2>4, <2>6, OtherTasksKept
    <2>. QED
      BY <2>5, <2>6
  <1>5. ASSUME NEW r \in Request, run'.owners = ReleasedOwners(run, r.task),
               r.task \in Tasks, ActiveOwner(run, r),
               \A t \in Tasks : t # r.task => run'.tasks[t] = run.tasks[t]
        PROVE  Held(run')
    <2>1. run'.owners[k] = run.owners[k] /\ run.owners[k] # None
      BY <1>5 DEF ReleasedOwners
    <2>2. run.owners[k].task \in Tasks
      BY <1>1, <2>1 DEF Snapshot, WriteKeyOwner
    <2>3. run.owners[k].task # r.task
      BY <1>1, <1>5, <2>1 DEF ReleasedOwners
    <2>. QED
      BY <1>1, <1>5, <2>1, <2>2, <2>3
  <1>6. ASSUME NEW r \in TerminalRequest, run' = TerminalEffect(run, r),
               TerminalAllowed(run, r)
        PROVE  Held(run')
    <2>1. r.task \in Tasks /\ r \in Request
      BY DEF TerminalRequest, Request
    <2>. QED
      BY <1>1, <1>5, <1>6, <2>1, OtherTasksKept DEF TerminalEffect, TerminalAllowed
  <1>7. ASSUME NEW r \in FailureRequest, run' = FailureEffect(run, r),
               FailureAllowed(run, r)
        PROVE  Held(run')
    <2>1. r.task \in Tasks /\ r \in Request
      BY DEF FailureRequest, Request
    <2>. QED
      BY <1>1, <1>5, <1>7, <2>1, OtherTasksKept DEF FailureEffect, FailureAllowed
  <1>. QED
    BY <1>2, <1>3, <1>4, <1>6, <1>7, StepIsRunStep DEF RunStep

THEOREM OwnersAlwaysHoldLeases == Spec => []OwnerHoldsLease
  <1>1. Init => OwnerHoldsLease
    BY DEF Init, OwnerHoldsLease, NewRun
  <1>. QED
    BY <1>1, TypeCorrect, OwnerHoldsLeaseInductive, PTL DEF Spec

-----------------------------------------------------------------------------
\* With requests that carry the current instant (MaxLag = 0), write ownership
\* is exclusive and no heartbeat panics.  The invariant that carries the
\* argument: a lease that has not run out owns each of its keys, entry for
\* entry; an owner names one task, so two such leases share no key.

ActiveLeaseOwnsKeys ==
    \A t \in Tasks : Active(t) => \A k \in WriteKeysOf[t] :
        run.owners[k] = OwnerFor(t, run.tasks[t].lease)

LEMMA ExactInstant ==
    ASSUME MaxLag = 0, TypeOK, NEW r, r.now \in Time, InFlight(r)
    PROVE  r.now = clock /\ r.now \in Nat
  <1>1. r.now \in Nat /\ clock \in Nat
    BY TimeIsNat DEF TypeOK
  <1>2. r.now <= clock /\ clock <= r.now
    BY <1>1 DEF InFlight
  <1>. QED
    BY <1>1, <1>2

LEMMA OwnerForTask == \A t, lease : OwnerFor(t, lease).task = t
  BY DEF OwnerFor

LEMMA WriteKeyTypes == \A t \in Tasks : WriteKeysOf[t] \subseteq WriteKeys
  BY DefinitionAssumption DEF DefinitionAssumption

LEMMA ActiveLeaseOwnsKeysInductive ==
    ASSUME MaxLag = 0, TypeOK, TasksFit, ActiveLeaseOwnsKeys, [Next]_vars
    PROVE  ActiveLeaseOwnsKeys'
  <1>. SUFFICES ASSUME NEW t \in Tasks, run'.tasks[t].lease # None,
                       run'.tasks[t].lease.expires > clock',
                       NEW k \in WriteKeysOf[t]
                PROVE  run'.owners[k] = OwnerFor(t, run'.tasks[t].lease)
    BY DEF ActiveLeaseOwnsKeys, Active
  <1>1. /\ run \in Snapshot /\ clock \in Nat /\ k \in WriteKeys
        /\ run.tasks[t] \in TaskState
    BY TimeIsNat, WriteKeyTypes DEF TypeOK, Snapshot
  <1>2. run'.tasks[t] = run.tasks[t] /\ clock' >= clock => Active(t)
    <2>. SUFFICES ASSUME run'.tasks[t] = run.tasks[t], clock' >= clock
                  PROVE  run.tasks[t].lease.expires > clock
      BY DEF Active
    <2>1. run.tasks[t].lease.expires \in Nat
      BY <1>1, TimeIsNat DEF TaskState, Lease
    <2>2. run.tasks[t].lease.expires > clock'
      OBVIOUS
    <2>3. clock' \in Nat
      BY <1>1, TimeIsNat DEF Next, vars, Claim, Heartbeat, HeartbeatPanics,
         Finish, Fail, Tick
    <2>. QED
      BY <1>1, <2>1, <2>2, <2>3
  <1>3. clock' >= clock
    BY <1>1, TimeIsNat DEF Next, vars, Claim, Heartbeat, HeartbeatPanics,
       Finish, Fail, Tick
  <1>4. Active(t) => run.owners[k] = OwnerFor(t, run.tasks[t].lease)
    BY DEF ActiveLeaseOwnsKeys
  <1>5. Active(t) => /\ run.owners[k] # None
                     /\ run.owners[k].task = t
                     /\ run.owners[k].expires > clock
    <2>1. Active(t) => OwnerFor(t, run.tasks[t].lease) \in WriteKeyOwner
      BY <1>1, OwnerForType DEF Active, TaskState
    <2>. QED
      BY <1>4, <2>1, NoneAssumption DEF NoneAssumption, Active, OwnerFor
  <1>6. CASE run' = run
    BY <1>2, <1>3, <1>4, <1>6
  <1>7. ASSUME NEW r \in ClaimRequest, InFlight(r), ClaimAllowed(run, r),
               run' = ClaimEffect(run, r)
        PROVE  run'.owners[k] = OwnerFor(t, run'.tasks[t].lease)
    <2>1. r.task \in Tasks /\ r \in Request /\ r.now \in Nat /\ r.now = clock
      BY <1>7, ExactInstant DEF ClaimRequest, Request
    <2>2. CASE t = r.task
      <3>1. run'.tasks[t] = ClaimedTask(run, r)
        BY <1>1, <1>7, <2>1, <2>2, NamedTaskChanged
      <3>2. run'.tasks[t].lease = NewLease(run, r)
        BY <3>1 DEF ClaimedTask
      <3>. QED
        BY <1>1, <1>7, <2>2, <3>2 DEF ClaimEffect
    <2>3. CASE t # r.task
      <3>1. run'.tasks[t] = run.tasks[t]
        BY <1>1, <1>7, <2>1, <2>3, OtherTasksKept
      <3>2. Active(t)
        BY <1>2, <1>3, <3>1
      <3>3. run.owners[k].expires \in Nat
        BY <1>1, <1>5, <3>2, TimeIsNat DEF Snapshot, WriteKeyOwner
      <3>4. k \notin WriteKeysOf[r.task]
        BY <1>1, <1>5, <1>7, <2>1, <2>3, <3>2, <3>3 DEF ClaimAllowed, WriteKeysFree
      <3>5. run'.owners[k] = run.owners[k]
        BY <1>1, <1>5, <1>7, <2>1, <3>2, <3>4 DEF ClaimEffect, Unexpired
      <3>. QED
        BY <1>4, <3>1, <3>2, <3>5
    <2>. QED
      BY <2>2, <2>3
  <1>8. ASSUME NEW r \in HeartbeatRequest, InFlight(r), HeartbeatAllowed(run, r),
               OwnersPresent(run, r.task), run' = HeartbeatEffect(run, r)
        PROVE  run'.owners[k] = OwnerFor(t, run'.tasks[t].lease)
    <2>1. r.task \in Tasks /\ r \in Request /\ r.now \in Nat /\ r.now = clock
      BY <1>8, ExactInstant DEF HeartbeatRequest, Request
    <2>2. Active(r.task)
      BY <1>8, <2>1 DEF HeartbeatAllowed, HoldsLease, Active
    <2>3. CASE t = r.task
      <3>1. run.tasks[t].lease \in Lease
        BY <1>1, <2>2, <2>3 DEF TaskState, Active
      <3>2. run'.tasks[t] = ExtendedTask(run.tasks[t], r)
        BY <1>1, <1>8, <2>1, <2>3, NamedTaskChanged
      <3>3. run'.tasks[t].lease = ExtendedLease(run.tasks[t].lease, r)
        BY <1>1, <3>2 DEF ExtendedTask, TaskState
      <3>4. run'.owners[k] = [OwnerFor(t, run.tasks[t].lease)
                                EXCEPT !.expires = r.expires]
        BY <1>1, <1>4, <1>8, <2>2, <2>3 DEF HeartbeatEffect
      <3>. QED
        BY <3>1, <3>3, <3>4 DEF OwnerFor, ExtendedLease, Lease
    <2>4. CASE t # r.task
      <3>1. run'.tasks[t] = run.tasks[t]
        BY <1>1, <1>8, <2>1, <2>4, OtherTasksKept
      <3>2. Active(t)
        BY <1>2, <1>3, <3>1
      <3>3. k \notin WriteKeysOf[r.task]
        BY <1>5, <2>1, <2>2, <2>4, <3>2, OwnerForTask DEF ActiveLeaseOwnsKeys
      <3>4. run'.owners[k] = run.owners[k]
        BY <1>1, <1>8, <3>3 DEF HeartbeatEffect
      <3>. QED
        BY <1>4, <3>1, <3>2, <3>4
    <2>. QED
      BY <2>3, <2>4
  <1>9. ASSUME NEW r \in Request, r.task \in Tasks,
               run'.tasks[r.task].lease = None,
               run'.owners = ReleasedOwners(run, r.task),
               \A u \in Tasks : u # r.task => run'.tasks[u] = run.tasks[u]
        PROVE  run'.owners[k] = OwnerFor(t, run'.tasks[t].lease)
    <2>1. t # r.task /\ run'.tasks[t] = run.tasks[t]
      BY <1>9
    <2>2. Active(t)
      BY <1>2, <1>3, <2>1
    <2>3. run'.owners[k] = run.owners[k]
      BY <1>1, <1>5, <1>9, <2>1, <2>2 DEF ReleasedOwners
    <2>. QED
      BY <1>4, <2>1, <2>2, <2>3
  <1>10. ASSUME NEW r \in TerminalRequest, run' = TerminalEffect(run, r)
         PROVE  run'.owners[k] = OwnerFor(t, run'.tasks[t].lease)
    <2>1. r.task \in Tasks /\ r \in Request
      BY DEF TerminalRequest, Request
    <2>2. run'.tasks[r.task] = FinishedTask(run.tasks[r.task], r)
      BY <1>1, <1>10, <2>1, NamedTaskChanged
    <2>3. run.tasks[r.task] \in TaskState
      BY <1>1, <2>1 DEF Snapshot
    <2>4. run'.tasks[r.task].lease = None
      BY <2>2, <2>3 DEF FinishedTask, TaskState
    <2>5. run'.owners = ReleasedOwners(run, r.task)
      BY <1>10 DEF TerminalEffect
    <2>. QED
      BY <1>1, <1>9, <1>10, <2>1, <2>4, <2>5, OtherTasksKept
  <1>11. ASSUME NEW r \in FailureRequest, run' = FailureEffect(run, r)
         PROVE  run'.owners[k] = OwnerFor(t, run'.tasks[t].lease)
    <2>1. r.task \in Tasks /\ r \in Request
      BY DEF FailureRequest, Request
    <2>2. run'.tasks[r.task] = FailedTask(run.tasks[r.task])
      BY <1>1, <1>11, <2>1, NamedTaskChanged
    <2>3. run.tasks[r.task] \in TaskState
      BY <1>1, <2>1 DEF Snapshot
    <2>4. run'.tasks[r.task].lease = None
      BY <2>2, <2>3 DEF FailedTask, TaskState
    <2>5. run'.owners = ReleasedOwners(run, r.task)
      BY <1>11 DEF FailureEffect
    <2>. QED
      BY <1>1, <1>9, <1>11, <2>1, <2>4, <2>5, OtherTasksKept
  <1>. QED
    BY <1>6, <1>7, <1>8, <1>10, <1>11, StepIsRunStep DEF RunStep

LEMMA ActiveLeasesOwnKeys ==
    ASSUME MaxLag = 0 PROVE Spec => []ActiveLeaseOwnsKeys
  <1>1. Init => ActiveLeaseOwnsKeys
    BY DEF Init, NewRun, ActiveLeaseOwnsKeys, Active
  <1>2. TypeOK /\ TasksFit /\ ActiveLeaseOwnsKeys /\ [Next]_vars
          => ActiveLeaseOwnsKeys'
    BY ActiveLeaseOwnsKeysInductive
  <1>. QED
    BY <1>1, <1>2, TypeCorrect, TasksAlwaysFit, PTL DEF Spec

\* While their leases have not run out, two tasks never write a common key.
THEOREM ActiveWritersAlwaysDisjoint ==
    ASSUME MaxLag = 0 PROVE Spec => []ActiveWritersDisjoint
  <1>1. ActiveLeaseOwnsKeys => ActiveWritersDisjoint
    <2>. SUFFICES ASSUME ActiveLeaseOwnsKeys, NEW t1 \in Tasks, NEW t2 \in Tasks,
                         Active(t1), Active(t2),
                         NEW k \in WriteKeysOf[t1], k \in WriteKeysOf[t2]
                  PROVE  t1 = t2
      BY DEF ActiveWritersDisjoint
    <2>1. run.owners[k].task = t1 /\ run.owners[k].task = t2
      BY OwnerForTask DEF ActiveLeaseOwnsKeys
    <2>. QED
      BY <2>1
  <1>. QED
    BY <1>1, ActiveLeasesOwnKeys, PTL

\* The assertion in `apply_heartbeat` holds: an accepted heartbeat finds every
\* owner it extends.
THEOREM HeartbeatNeverPanics ==
    ASSUME MaxLag = 0 PROVE Spec => []LeaseOwnsWriteKey
  <1>1. Init => LeaseOwnsWriteKey
    BY DEF Init, LeaseOwnsWriteKey
  <1>2. TypeOK /\ ActiveLeaseOwnsKeys /\ LeaseOwnsWriteKey /\ [Next]_vars
          => LeaseOwnsWriteKey'
    <2>. SUFFICES ASSUME TypeOK, ActiveLeaseOwnsKeys,
                         NEW r \in HeartbeatRequest, HeartbeatPanics(r)
                  PROVE  FALSE
      BY DEF LeaseOwnsWriteKey, Next, vars, Claim, Heartbeat, Finish, Fail, Tick
    <2>1. /\ r.task \in Tasks /\ r.now \in Nat /\ clock \in Nat
          /\ run.tasks[r.task] \in TaskState
      BY TimeIsNat DEF HeartbeatRequest, TypeOK, Snapshot
    <2>2. r.now = clock
      BY <2>1 DEF HeartbeatPanics, InFlight
    <2>3. Active(r.task)
      BY <2>2 DEF HeartbeatPanics, HeartbeatAllowed, HoldsLease, Active
    <2>4. OwnerFor(r.task, run.tasks[r.task].lease) \in WriteKeyOwner
      BY <2>1, <2>3, OwnerForType DEF Active, TaskState
    <2>5. OwnersPresent(run, r.task)
      BY <2>1, <2>3, <2>4, NoneAssumption
         DEF ActiveLeaseOwnsKeys, OwnersPresent, NoneAssumption
    <2>. QED
      BY <2>5 DEF HeartbeatPanics
  <1>. QED
    BY <1>1, <1>2, TypeCorrect, ActiveLeasesOwnKeys, PTL DEF Spec
=============================================================================
