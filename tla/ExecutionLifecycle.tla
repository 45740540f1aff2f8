-------------------------- MODULE ExecutionLifecycle --------------------------
(***************************************************************************)
(* The in-memory kernel: one `ExecutionLifecycleKernel` and its callers.   *)
(* A request carries the instant its caller read from a clock; the kernel  *)
(* never compares it with an earlier one, so the request may be MaxLag     *)
(* behind the latest instant any caller has seen.  A rejected request and  *)
(* the idempotent repetition of a completion or cancellation leave the     *)
(* kernel as it was: they are stuttering steps.                            *)
(***************************************************************************)
EXTENDS ExecutionKernel

CONSTANT MaxLag         \* how far behind the clock a request's instant may be

VARIABLES
    run,        \* the kernel: task states and write-key owners
    clock,      \* the latest instant any caller has read
    panicked    \* a call hit `.expect("lease owns write key")`

vars == <<run, clock, panicked>>

TypeOK ==
    /\ run \in Snapshot
    /\ clock \in Time
    /\ panicked \in BOOLEAN

Init ==
    /\ run = NewRun
    /\ clock \in Time
    /\ \A n \in Time : clock <= n
    /\ panicked = FALSE

\* A request in flight carries an instant some caller has read.
InFlight(r) == r.now <= clock /\ clock <= r.now + MaxLag

Claim(r) ==
    /\ InFlight(r)
    /\ ClaimAllowed(run, r)
    /\ run' = ClaimEffect(run, r)
    /\ UNCHANGED <<clock, panicked>>

Heartbeat(r) ==
    /\ InFlight(r)
    /\ HeartbeatAllowed(run, r)
    /\ OwnersPresent(run, r.task)
    /\ run' = HeartbeatEffect(run, r)
    /\ UNCHANGED <<clock, panicked>>

\* The clone is dropped by the unwinding: the kernel itself keeps its state.
HeartbeatPanics(r) ==
    /\ InFlight(r)
    /\ HeartbeatAllowed(run, r)
    /\ ~OwnersPresent(run, r.task)
    /\ panicked' = TRUE
    /\ UNCHANGED <<run, clock>>

Finish(r) ==
    /\ InFlight(r)
    /\ TerminalAllowed(run, r)
    /\ run' = TerminalEffect(run, r)
    /\ UNCHANGED <<clock, panicked>>

Fail(r) ==
    /\ InFlight(r)
    /\ FailureAllowed(run, r)
    /\ run' = FailureEffect(run, r)
    /\ UNCHANGED <<clock, panicked>>

Tick ==
    /\ \E n \in Time : n > clock /\ clock' = n
    /\ UNCHANGED <<run, panicked>>

Next ==
    \/ \E r \in ClaimRequest : Claim(r)
    \/ \E r \in HeartbeatRequest : Heartbeat(r)
    \/ \E r \in HeartbeatRequest : HeartbeatPanics(r)
    \/ \E r \in TerminalRequest : Finish(r)
    \/ \E r \in FailureRequest : Fail(r)
    \/ Tick

Spec == Init /\ [][Next]_vars

-----------------------------------------------------------------------------
\* Properties.

\* The per-task half of `restore` holds of every reachable kernel: status,
\* attempts, lease and terminal record never fall out of step, whatever the
\* order of claims, expiries, failures and completions.
TasksFit == \A t \in Tasks : TaskFits(run.tasks[t])

\* A task that was ever started had all its dependencies completed, and they
\* still are: nothing that can happen later takes a completion back.
DependenciesStayCompleted ==
    \A t \in Tasks : run.tasks[t].attempts > 0 => DependenciesCompleted(run, t)

\* Every owner entry points at the lease that took the key: a release, a
\* reclaim or the pruning done by another task's claim never leaves an entry
\* of a lease that is gone.
OwnerHoldsLease ==
    \A k \in WriteKeys : run.owners[k] # None =>
        LET o == run.owners[k] IN
        /\ k \in WriteKeysOf[o.task]
        /\ run.tasks[o.task].lease # None
        /\ run.tasks[o.task].lease.worker = o.worker
        /\ run.tasks[o.task].lease.id = o.lease

Active(t) == run.tasks[t].lease # None /\ run.tasks[t].lease.expires > clock

\* Write ownership is exclusive: two tasks with leases that have not run out
\* never declare a common write key.
ActiveWritersDisjoint ==
    \A t1, t2 \in Tasks : t1 # t2 /\ Active(t1) /\ Active(t2) =>
        WriteKeysOf[t1] \intersect WriteKeysOf[t2] = {}

\* The assertion of `apply_heartbeat`, "lease owns write key": an accepted
\* heartbeat finds an owner for each of its keys.
LeaseOwnsWriteKey == ~panicked

\* A terminal status, its record and its attempt count are final.
TerminalIsFinal ==
    [][\A t \in Tasks : run.tasks[t].status \in TerminalStatuses =>
          run'.tasks[t] = run.tasks[t]]_vars

\* A lease that has not run out is never replaced under its holder: it may
\* be extended or given back, and only then can the task be claimed again.
ActiveLeaseIsNotReplaced ==
    [][\A t \in Tasks : Active(t) /\ run'.tasks[t].lease # None =>
          /\ run'.tasks[t].lease.id = run.tasks[t].lease.id
          /\ run'.tasks[t].lease.worker = run.tasks[t].lease.worker
          /\ run'.tasks[t].lease.attempt = run.tasks[t].lease.attempt]_vars
=============================================================================
