--------------------------- MODULE ExecutionKernel ---------------------------
(***************************************************************************)
(* The value-level core of rust/ovca-runtime-core/src/                     *)
(* execution_lifecycle.rs: the snapshot of one run's tasks, the guard of   *)
(* each kernel operation and the snapshot it produces, and the check that  *)
(* `restore` makes before it accepts a snapshot.  Every operation of the   *)
(* source works on a clone and commits it whole, so an operation is a      *)
(* guard and a function from snapshots to snapshots.                       *)
(*                                                                         *)
(* Abstracted: contract versions, run and goal identity (one run), reason  *)
(* texts (only their presence is kept), and the lease fields that copy the *)
(* task definition (write_keys, max_attempts, worker_role).                *)
(***************************************************************************)
EXTENDS Naturals

CONSTANTS
    Tasks,             \* task identifiers of the run
    Workers,           \* worker identifiers
    LeaseIds,          \* lease identifiers the callers choose from
    IdempotencyKeys,   \* idempotency keys of completions and cancellations
    WriteKeys,         \* write keys that tasks declare
    Dependencies,      \* task -> tasks it depends on
    WriteKeysOf,       \* task -> write keys it declares
    AssignedRole,      \* task -> role it is assigned to
    RoleOf,            \* worker -> role it presents
    InitialStatus,     \* task -> status in the definition
    MaxAttempts,       \* retry_budget.max_attempts
    Time,              \* instants that requests may carry
    None               \* Option::None

WorkerRoles == {"engineer", "reviewer", "auditor"}
Roles == WorkerRoles \union {"coordinator"}
TerminalStatuses == {"completed", "failed", "cancelled"}
Statuses == {"pending", "ready", "running"} \union TerminalStatuses
Outcomes == {"completed", "cancelled"}

Lease == [worker : Workers, id : LeaseIds, attempt : Nat,
          claimed : Time, heartbeat : Time, expires : Time]
TerminalRecord == [worker : Workers, lease : LeaseIds,
                   key : IdempotencyKeys, outcome : Outcomes]
WriteKeyOwner == [task : Tasks, worker : Workers, lease : LeaseIds,
                  expires : Time]

ASSUME DefinitionAssumption ==
    /\ Dependencies \in [Tasks -> SUBSET Tasks]
    /\ WriteKeysOf \in [Tasks -> SUBSET WriteKeys]
    /\ AssignedRole \in [Tasks -> WorkerRoles]
    /\ RoleOf \in [Workers -> Roles]
    /\ InitialStatus \in [Tasks -> {"pending", "ready"}]
    /\ MaxAttempts \in Nat \ {0}
    /\ Time \subseteq Nat

ASSUME NoneAssumption ==
    /\ None \notin Lease
    /\ None \notin TerminalRecord
    /\ None \notin WriteKeyOwner

TaskState == [status : Statuses,
              attempts : Nat,
              lease : Lease \union {None},
              terminal : TerminalRecord \union {None},
              failedOnce : BOOLEAN]

Snapshot == [tasks : [Tasks -> TaskState],
             owners : [WriteKeys -> WriteKeyOwner \union {None}]]

\* `ExecutionLifecycleKernel::new`
NewRun ==
    [tasks |-> [t \in Tasks |-> [status |-> InitialStatus[t], attempts |-> 0,
                                 lease |-> None, terminal |-> None,
                                 failedOnce |-> FALSE]],
     owners |-> [k \in WriteKeys |-> None]]

-----------------------------------------------------------------------------
\* Requests, as the caller fills them in.

ClaimRequest == [op : {"claim"}, task : Tasks, worker : Workers,
                 lease : LeaseIds, now : Time, expires : Time]
HeartbeatRequest == [op : {"heartbeat"}, task : Tasks, worker : Workers,
                     lease : LeaseIds, now : Time, expires : Time]
FailureRequest == [op : {"fail"}, task : Tasks, worker : Workers,
                   lease : LeaseIds, now : Time]
TerminalRequest == [op : {"complete", "cancel"}, task : Tasks,
                    worker : Workers, lease : LeaseIds, now : Time,
                    key : IdempotencyKeys]
Request == ClaimRequest \union HeartbeatRequest \union FailureRequest
             \union TerminalRequest

OutcomeOf(r) == IF r.op = "complete" THEN "completed" ELSE "cancelled"

\* `validate_role`: a coordinator matches no assigned role.
RoleMatches(r) == RoleOf[r.worker] = AssignedRole[r.task]

-----------------------------------------------------------------------------
\* Claim: a fresh or retried task, or one whose lease ran out.

Unclaimed(st) == st.status \in {"pending", "ready"}

LeaseRanOut(st, now) ==
    st.status = "running" /\ st.lease # None /\ st.lease.expires <= now

AttemptLeft(st) == st.attempts + 1 <= MaxAttempts

DependenciesCompleted(s, t) ==
    \A d \in Dependencies[t] : s.tasks[d].status = "completed"

\* No write key of the task belongs, unexpired, to another task.
WriteKeysFree(s, t, now) ==
    \A k \in WriteKeysOf[t] : s.owners[k] # None =>
        s.owners[k].expires <= now \/ s.owners[k].task = t

ClaimAllowed(s, r) ==
    LET st == s.tasks[r.task] IN
    /\ RoleMatches(r)
    /\ r.expires > r.now
    /\ Unclaimed(st) \/ LeaseRanOut(st, r.now)
    /\ DependenciesCompleted(s, r.task)
    /\ AttemptLeft(st)
    /\ WriteKeysFree(s, r.task, r.now)

\* `write_key_owners.retain(expires_at > now)`, whichever task the owner is.
Unexpired(owner, now) ==
    IF owner # None /\ owner.expires > now THEN owner ELSE None

OwnerFor(t, lease) == [task |-> t, worker |-> lease.worker,
                       lease |-> lease.id, expires |-> lease.expires]

NewLease(s, r) ==
    [worker |-> r.worker, id |-> r.lease,
     attempt |-> s.tasks[r.task].attempts + 1,
     claimed |-> r.now, heartbeat |-> r.now, expires |-> r.expires]

ClaimedTask(s, r) ==
    [status |-> "running",
     attempts |-> s.tasks[r.task].attempts + 1,
     lease |-> NewLease(s, r),
     terminal |-> None,
     failedOnce |-> s.tasks[r.task].failedOnce]

ClaimEffect(s, r) ==
    [tasks |-> [s.tasks EXCEPT ![r.task] = ClaimedTask(s, r)],
     owners |-> [k \in WriteKeys |->
                  IF k \in WriteKeysOf[r.task]
                  THEN OwnerFor(r.task, NewLease(s, r))
                  ELSE Unexpired(s.owners[k], r.now)]]

-----------------------------------------------------------------------------
\* Heartbeat: extends the lease and the expiry of each of its keys' owners.

HoldsLease(s, r) ==
    LET lease == s.tasks[r.task].lease IN
    /\ lease # None
    /\ lease.worker = r.worker
    /\ lease.id = r.lease

HeartbeatAllowed(s, r) ==
    /\ RoleMatches(r)
    /\ HoldsLease(s, r)
    /\ r.now < s.tasks[r.task].lease.expires
    /\ r.expires > s.tasks[r.task].lease.expires

\* The owner look-up is `.expect("lease owns write key")`.
OwnersPresent(s, t) == \A k \in WriteKeysOf[t] : s.owners[k] # None

ExtendedLease(lease, r) ==
    [lease EXCEPT !.heartbeat = r.now, !.expires = r.expires]

ExtendedTask(st, r) == [st EXCEPT !.lease = ExtendedLease(st.lease, r)]

HeartbeatEffect(s, r) ==
    [tasks |-> [s.tasks EXCEPT ![r.task] = ExtendedTask(s.tasks[r.task], r)],
     owners |-> [k \in WriteKeys |->
                  IF k \in WriteKeysOf[r.task]
                  THEN [s.owners[k] EXCEPT !.expires = r.expires]
                  ELSE s.owners[k]]]

-----------------------------------------------------------------------------
\* Completion, cancellation and failure: only the holder of an active lease.

ActiveOwner(s, r) ==
    /\ RoleMatches(r)
    /\ s.tasks[r.task].status = "running"
    /\ HoldsLease(s, r)
    /\ s.tasks[r.task].lease.expires > r.now

\* `release_current_lease`: gives back the keys this very lease owns.
ReleasedOwners(s, t) ==
    [k \in WriteKeys |->
        IF /\ k \in WriteKeysOf[t]
           /\ s.owners[k] # None
           /\ s.owners[k].task = t
           /\ s.owners[k].lease = s.tasks[t].lease.id
        THEN None ELSE s.owners[k]]

\* Fault: a repetition is recognised without comparing the outcome.
TerminalRetryAnyOutcome(s, r) ==
    LET record == s.tasks[r.task].terminal IN
    /\ RoleMatches(r)
    /\ record # None
    /\ record.key = r.key
    /\ record.worker = r.worker
    /\ record.lease = r.lease

\* The same completion or cancellation again: answered from the record.
TerminalRetry(s, r) ==
    LET record == s.tasks[r.task].terminal IN
    /\ RoleMatches(r)
    /\ record # None
    /\ record.key = r.key
    /\ record.outcome = OutcomeOf(r)
    /\ record.worker = r.worker
    /\ record.lease = r.lease

TerminalAllowed(s, r) ==
    /\ s.tasks[r.task].terminal = None
    /\ s.tasks[r.task].status \notin TerminalStatuses
    /\ ActiveOwner(s, r)

RecordOf(r) == [worker |-> r.worker, lease |-> r.lease,
                key |-> r.key, outcome |-> OutcomeOf(r)]

FinishedTask(st, r) ==
    [st EXCEPT !.status = OutcomeOf(r), !.lease = None,
               !.terminal = RecordOf(r)]

TerminalEffect(s, r) ==
    [tasks |-> [s.tasks EXCEPT ![r.task] = FinishedTask(s.tasks[r.task], r)],
     owners |-> ReleasedOwners(s, r.task)]

FailureAllowed(s, r) == ActiveOwner(s, r)

StatusAfterFailure(attempts) ==
    IF attempts >= MaxAttempts THEN "failed" ELSE "ready"

FailedTask(st) ==
    [st EXCEPT !.status = StatusAfterFailure(st.attempts),
               !.lease = None, !.failedOnce = TRUE]

FailureEffect(s, r) ==
    [tasks |-> [s.tasks EXCEPT ![r.task] = FailedTask(s.tasks[r.task])],
     owners |-> ReleasedOwners(s, r.task)]

-----------------------------------------------------------------------------
\* One request of any kind, as the durable authority dispatches it.

\* The operation changes the snapshot.
Changes(s, r) ==
    \/ r.op = "claim" /\ ClaimAllowed(s, r)
    \/ r.op = "heartbeat" /\ HeartbeatAllowed(s, r) /\ OwnersPresent(s, r.task)
    \/ r.op \in {"complete", "cancel"} /\ TerminalAllowed(s, r)
    \/ r.op = "fail" /\ FailureAllowed(s, r)

\* The operation answers Ok without a change.
Repeats(s, r) == r.op \in {"complete", "cancel"} /\ TerminalRetry(s, r)

Effect(s, r) ==
    CASE r.op = "claim" -> ClaimEffect(s, r)
      [] r.op = "heartbeat" -> HeartbeatEffect(s, r)
      [] r.op = "fail" -> FailureEffect(s, r)
      [] OTHER -> TerminalEffect(s, r)

-----------------------------------------------------------------------------
\* `restore`: the strict check of a stored snapshot.

AttemptsFit(st) ==
    /\ st.attempts <= MaxAttempts
    /\ st.status = "pending" => st.attempts = 0
    /\ st.status = "ready" => st.attempts < MaxAttempts
    /\ st.status \in {"running", "completed", "cancelled"} => st.attempts >= 1
    /\ st.status = "failed" => st.attempts = MaxAttempts
    /\ st.failedOnce => st.attempts > 0

LeaseFits(st) ==
    /\ (st.status = "running") <=> (st.lease # None)
    /\ st.lease # None => st.lease.attempt = st.attempts

RecordFits(st) ==
    /\ st.status \in Outcomes =>
          st.terminal # None /\ st.terminal.outcome = st.status
    /\ st.status \notin Outcomes => st.terminal = None

LeaseTimesFit(st) ==
    st.lease # None => /\ st.lease.claimed <= st.lease.heartbeat
                       /\ st.lease.heartbeat < st.lease.expires

\* What `restore` checks of one task by itself.
TaskFits(st) == AttemptsFit(st) /\ LeaseFits(st) /\ RecordFits(st)

\* The owner map is exactly the one the running leases induce; two leases on
\* one key fit no owner map.
OwnersFit(s) ==
    /\ \A t \in Tasks : s.tasks[t].lease # None =>
          \A k \in WriteKeysOf[t] :
              s.owners[k] = OwnerFor(t, s.tasks[t].lease)
    /\ \A k \in WriteKeys : s.owners[k] # None =>
          \E t \in Tasks : s.tasks[t].lease # None /\ k \in WriteKeysOf[t]

Restorable(s) ==
    /\ \A t \in Tasks : TaskFits(s.tasks[t]) /\ LeaseTimesFit(s.tasks[t])
    /\ OwnersFit(s)
=============================================================================
