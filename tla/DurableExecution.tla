--------------------------- MODULE DurableExecution ---------------------------
(***************************************************************************)
(* DurableExecutionAuthority of rust/ovca-runtime-core/src/                *)
(* sqlite_execution.rs over the versioned row that                         *)
(* rust/ovca-storage/src/versioned_state.rs keeps in SQLite.  Callers, in  *)
(* one process or in several, work on the row of one run at the same time: *)
(* each loads it, runs the kernel operation on what it loaded, and writes  *)
(* the result back with a compare-and-swap on the revision, retrying a     *)
(* bounded number of times on what the conflict returned.                  *)
(*                                                                         *)
(* A step is one SQLite transaction with the computation that follows it,  *)
(* which touches nothing shared.  A caller may crash between two steps or  *)
(* before its answer arrives.  The envelope is the execution snapshot and  *)
(* the Engineer-to-Verifier projection, of which only the number of        *)
(* installed successors matters here.                                      *)
(***************************************************************************)
EXTENDS ExecutionKernel

CONSTANTS
    Callers,           \* concurrent calls into the authority
    WorkerOf,          \* caller -> the worker on whose behalf it calls
    CasRetryLimit,     \* conflicts a call survives
    StampLag,          \* how old a request's instant may be when a call starts
    MaxProjection,     \* bound on projection installs (model checking)
    MaxLag             \* bound on a request's age when it takes effect

ASSUME DurableAssumption ==
    /\ WorkerOf \in [Callers -> Workers]
    /\ CasRetryLimit \in Nat
    /\ StampLag \in Nat
    /\ MaxProjection \in Nat
    /\ MaxLag \in Nat
    /\ \A n \in Time : n <= MaxLag

VARIABLES
    row,       \* the versioned row of the run, None before initialize_run
    calls,     \* each caller's call in progress, or the answer to its last
    clock      \* the wall clock from which callers stamp requests

vars == <<row, calls, clock>>

Row == [revision : Nat, snapshot : Snapshot, projection : Nat]

ASSUME RowAssumption == None \notin Row /\ None \notin Request

\* Of the answers, the errors that report no change and that no property reads
\* are one: the call is over.
Replies == {"none", "ok", "exhausted"}

Call == [pc : {"idle", "swap", "install"},
         request : Request \union {None},
         loaded : Row \union {None},
         conflicts : Nat,
         first : Nat,       \* history: the revision the call first loaded
         attempt : Nat,     \* the attempt of the lease a command answered
         reply : Replies]

TypeOK ==
    /\ row \in Row \union {None}
    /\ calls \in [Callers -> Call]
    /\ clock \in Time

Idle == [pc |-> "idle", request |-> None, loaded |-> None,
         conflicts |-> 0, first |-> 0, attempt |-> 0, reply |-> "none"]

Init ==
    /\ row = None
    /\ calls = [c \in Callers |-> Idle]
    /\ clock \in Time
    /\ \A n \in Time : clock <= n

\* The call is over: an error, or Ok with the command's output.
AnswerError(c) == calls' = [calls EXCEPT ![c] = Idle]

AnswerOk(c, r, envelope) ==
    calls' = [calls EXCEPT ![c] =
        [Idle EXCEPT !.request = r,
                     !.attempt = envelope.snapshot.tasks[r.task].attempts,
                     !.reply = "ok"]]

-----------------------------------------------------------------------------
\* initialize_run: INSERT ... ON CONFLICT DO NOTHING.  The constants describe
\* the definition that was inserted first.  On a row that exists the call
\* writes nothing: it answers with the row, or that the definition differs.

InitializeRun(c) ==
    /\ calls[c].pc = "idle"
    /\ row = None
    /\ row' = [revision |-> 0, snapshot |-> NewRun, projection |-> 0]
    /\ calls' = [calls EXCEPT ![c] = [Idle EXCEPT !.reply = "ok"]]
    /\ UNCHANGED clock

-----------------------------------------------------------------------------
\* claim, heartbeat, fail, complete, cancel: `apply`.  After each load, and on
\* the state each conflict returned, the call decodes and restores the row and
\* runs the operation on it.

\* Fault: the result is stored without trying to restore it.
ReadyToSwapUnchecked(s, r) == Restorable(s) /\ Changes(s, r)

\* The strict restore accepts the row, the operation goes through, and its
\* result would survive the strict restore of the next command.
ReadyToSwap(s, r) ==
    /\ Restorable(s)
    /\ Changes(s, r)
    /\ Restorable(Effect(s, r))

\* The operation goes through and changes nothing: no write.
Unchanged(s, r) ==
    /\ Restorable(s)
    /\ ~Changes(s, r)
    /\ Repeats(s, r)

\* The kernel rejects the request, or restore finds a corrupt state: nothing
\* is written.  A call refused at its first load is a stuttering step.
Refused(s, r) == ~ReadyToSwap(s, r) /\ ~Unchanged(s, r)

\* A caller idle in the authority stamps a request and the run is there.
MayStart(c, r) ==
    /\ calls[c].pc = "idle"
    /\ row # None
    /\ r.worker = WorkerOf[c]
    /\ r.now <= clock /\ clock <= r.now + StampLag

Start(c, r) ==
    /\ MayStart(c, r)
    /\ ReadyToSwap(row.snapshot, r)
    /\ calls' = [calls EXCEPT ![c] =
                   [Idle EXCEPT !.pc = "swap", !.request = r,
                                !.loaded = row, !.first = row.revision]]
    /\ UNCHANGED <<row, clock>>

StartUnchanged(c, r) ==
    /\ MayStart(c, r)
    /\ Unchanged(row.snapshot, r)
    /\ AnswerOk(c, r, row)
    /\ UNCHANGED <<row, clock>>

Req(c) == calls[c].request

\* Fault: the swap does not compare.
RevisionIgnored(c) == TRUE

\* The compare of `compare_and_swap`, inside its IMMEDIATE transaction.
RevisionMatches(c) == row.revision = calls[c].loaded.revision

Swapped(c) ==
    [revision |-> calls[c].loaded.revision + 1,
     snapshot |-> Effect(calls[c].loaded.snapshot, Req(c)),
     projection |-> calls[c].loaded.projection]

Commit(c) ==
    /\ calls[c].pc = "swap"
    /\ RevisionMatches(c)
    /\ row' = Swapped(c)
    /\ AnswerOk(c, Req(c), Swapped(c))
    /\ UNCHANGED clock

Conflicted(c) ==
    /\ calls[c].pc = "swap"
    /\ ~RevisionMatches(c)

ContentionExhausted(c) ==
    /\ Conflicted(c)
    /\ calls[c].conflicts >= CasRetryLimit
    /\ calls' = [calls EXCEPT ![c] = [Idle EXCEPT !.first = calls[c].first,
                                                  !.reply = "exhausted"]]
    /\ UNCHANGED <<row, clock>>

\* Fault: the loop goes round without recording anything.
ReloadedNot(c) == calls[c]

\* The next round works on the state the conflict returned.
Reloaded(c) == [calls[c] EXCEPT !.loaded = row, !.conflicts = @ + 1]

Retry(c) ==
    /\ Conflicted(c)
    /\ calls[c].conflicts < CasRetryLimit
    /\ ReadyToSwap(row.snapshot, Req(c))
    /\ calls' = [calls EXCEPT ![c] = Reloaded(c)]
    /\ UNCHANGED <<row, clock>>

RetryUnchanged(c) ==
    /\ Conflicted(c)
    /\ calls[c].conflicts < CasRetryLimit
    /\ Unchanged(row.snapshot, Req(c))
    /\ AnswerOk(c, Req(c), row)
    /\ UNCHANGED <<row, clock>>

RetryRefused(c) ==
    /\ Conflicted(c)
    /\ calls[c].conflicts < CasRetryLimit
    /\ Refused(row.snapshot, Req(c))
    /\ AnswerError(c)
    /\ UNCHANGED <<row, clock>>

-----------------------------------------------------------------------------
\* compare_and_swap_engineer_verifier: one attempt, on the revision and the
\* projection the caller read earlier.  Its own load repeats the comparison
\* that the swap makes, so the two are one step.

ReadForInstall(c) ==
    /\ calls[c].pc = "idle"
    /\ row # None
    /\ row.projection < MaxProjection
    /\ calls' = [calls EXCEPT ![c] =
                   [Idle EXCEPT !.pc = "install", !.loaded = row]]
    /\ UNCHANGED <<row, clock>>

Installed(c) ==
    [revision |-> calls[c].loaded.revision + 1,
     snapshot |-> calls[c].loaded.snapshot,
     projection |-> calls[c].loaded.projection + 1]

Install(c) ==
    /\ calls[c].pc = "install"
    /\ RevisionMatches(c)
    /\ row' = Installed(c)
    /\ calls' = [calls EXCEPT ![c] = [Idle EXCEPT !.reply = "ok"]]
    /\ UNCHANGED clock

InstallConflict(c) ==
    /\ calls[c].pc = "install"
    /\ ~RevisionMatches(c)
    /\ AnswerError(c)
    /\ UNCHANGED <<row, clock>>

-----------------------------------------------------------------------------
\* The caller's process dies, or its answer is lost: what it wrote stays.
Crash(c) ==
    /\ calls[c] # Idle
    /\ calls' = [calls EXCEPT ![c] = Idle]
    /\ UNCHANGED <<row, clock>>

Tick ==
    /\ \E n \in Time : n > clock /\ clock' = n
    /\ UNCHANGED <<row, calls>>

\* What a call in progress does next; exactly one of these is enabled.
Proceed(c) ==
    \/ Commit(c)
    \/ ContentionExhausted(c)
    \/ Retry(c)
    \/ RetryUnchanged(c)
    \/ RetryRefused(c)
    \/ Install(c)
    \/ InstallConflict(c)

Next ==
    \/ \E c \in Callers : InitializeRun(c)
    \/ \E c \in Callers, r \in Request : Start(c, r)
    \/ \E c \in Callers, r \in Request : StartUnchanged(c, r)
    \/ \E c \in Callers : ReadForInstall(c)
    \/ \E c \in Callers : Proceed(c)
    \/ \E c \in Callers : Crash(c)
    \/ Tick

Spec == Init /\ [][Next]_vars

\* A thread that entered the authority keeps running until it returns or dies.
FairSpec == Spec /\ \A c \in Callers : WF_vars(Proceed(c))

-----------------------------------------------------------------------------
\* Properties.

\* Every row ever written can be read back: no interleaving stores a snapshot
\* that the strict restore of the next command would refuse.
StoredSnapshotRestorable == row # None => Restorable(row.snapshot)

Running(t) == row # None /\ row.snapshot.tasks[t].status = "running"

\* Write keys are exclusive in the store whatever the clocks of the callers
\* say: two running tasks, expired or not, never declare a common key.
WritersExclusive ==
    \A t1, t2 \in Tasks : t1 # t2 /\ Running(t1) /\ Running(t2) =>
        WriteKeysOf[t1] \intersect WriteKeysOf[t2] = {}

Ok(c, ops) ==
    /\ calls[c].reply = "ok"
    /\ calls[c].request # None
    /\ calls[c].request.op \in ops

\* No two callers are told they won the same attempt of a task.
AttemptsAreWonOnce ==
    \A c1, c2 \in Callers :
        /\ c1 # c2
        /\ Ok(c1, {"claim"}) /\ Ok(c2, {"claim"})
        /\ Req(c1).task = Req(c2).task
        => calls[c1].attempt # calls[c2].attempt

\* Completion and cancellation of a task race to one winner: every caller that
\* was told Ok asked for the same outcome with the same key under the same
\* lease, and the store holds that record.
OneTerminalWinner ==
    \A c \in Callers : Ok(c, {"complete", "cancel"}) =>
        row.snapshot.tasks[Req(c).task].terminal =
            RecordOf(Req(c))

\* A claim never gets past a writer whose lease ran out: the pruned owner
\* entry fails the strict restore, so while the expired task still holds its
\* lease in the snapshot no other task starts.
NoClaimPassesAnExpiredWriter ==
    [][\A t, u \in Tasks :
         /\ t # u /\ Running(t) /\ WriteKeysOf[t] # {}
         /\ row'.snapshot.tasks[u].attempts > row.snapshot.tasks[u].attempts
         => row.snapshot.tasks[t].lease.expires
              > row'.snapshot.tasks[u].lease.claimed]_vars

\* Every call into the authority returns: contention is bounded by the retry
\* limit, so no caller is kept going round by the others.
EveryCallReturns ==
    \A c \in Callers : (calls[c].pc # "idle") ~> (calls[c].pc = "idle")

\* The authority implements the kernel: each commit is one kernel operation on
\* the state of that moment, with a request of any age, and nothing else
\* changes the run.
Kernel == INSTANCE ExecutionLifecycle WITH
    run <- IF row = None THEN NewRun ELSE row.snapshot,
    panicked <- FALSE

KernelSpec == Kernel!Spec
=============================================================================
