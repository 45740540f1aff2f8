# OVCA core: a verification development

TLA+ modules, TLC runs and TLAPS proofs for the Rust run-time core under
`src/rust`: the part that decides who may work on what, what counts as done, and
what the owner has to approve.  `PROJECT.json` is the index: components, runs,
the map from definitions to source lines, the hazards and the theorems.

## 1. The system

A goal run has an append-only JSONL event log (what was planned and decided) and,
in SQLite files of versioned rows, an execution row per run (who holds which
task, and how far the two controllers are), one row per owner approval, and the
evidence bank (what was verified).  Every process opens these files itself:
there is no server, and no lock above SQLite's transactions, a mutex per log
file within one process, and the lock file of a workspace.  All instants of the
kernel are supplied by the callers.

| Component | State it keeps | Operations | Interacts by |
|---|---|---|---|
| Execution lifecycle kernel (`ovca-runtime-core/src/execution_lifecycle.rs`) | per task: status, attempts, lease, terminal record; owner per write key | new, restore, claim, heartbeat, complete, cancel, fail | called by the authority on a restored snapshot |
| Versioned state store (`ovca-storage/src/versioned_state.rs`) | rows (key, revision, payload) | initialize, load, compare_and_swap | SQLite, immediate transactions |
| Durable execution authority (`sqlite_execution.rs`) | one row per run: kernel snapshot and projections | initialize_run, the five commands, installs of projections, workspace recovery permits | load, run the kernel, swap; retry on conflict |
| Guard policy (`guardrails.rs`) | none | evaluate_guard_request | called by the ledger |
| Durable approval ledger (`durable_guardrails.rs`) | one row per approval | evaluate_and_record, execute_guarded, resume_approved, record_decision | store; invokes the caller's effect |
| Run event log (`run_events.rs`) | lines of one file shared by all runs | append, load_all, load_run | file append, mutex per process |
| Replay reducer (`replay.rs`) | none | replay_run, validate_event_chain | pure, on what load_run returns |
| Goal runtime façade (`ovca-langgraph/src/goal_runtime.rs`) | its completion policy | create_run, append_event, guard recording, verified completion, initialize_execution | log, replay, both SQLite authorities, evidence bank |
| Scheduler (`scheduler.rs`) | none | schedule_tasks | pure; before a run is created |
| Review and audit policy (`review_audit.rs`) | none | derive the policy, validate and resolve decisions | called by replay and the review |
| Engineer-to-Verifier controller (`engineer_verifier.rs`, `engineer_verifier_loop.rs`) | projection in the execution row; frozen phase events | drive, heartbeat, request_cancellation | authority, executor, broker, verifier, bank, log |
| Workspace capability (`workspace_capability.rs`) | leases, grants, receipts, keys; a private root on disk | open, grant, execute, prepare, recover, seal, close | authority (epoch, fence), file system |
| Role executor and contracts (`role_executor.rs`, `control_plane.rs`, `foundation.rs`, `tool_boundary.rs`) | the journal of an invocation | one call and its checks; replay of a journal | both controllers, the broker |
| Verifier (`ovca-verifier`) | a temporary snapshot | verify_and_publish | file system, processes, bank |
| Local verification (`ovca-storage` `local_verification`, `ovca-types` `local_verification`) | evidence bank: records, current rows, generations, archives | publish, choose, mark stale, rebuild, archive, recover, migrate, lease; select a targeted rerun; route a failure | SQLite; read by controller, review and completion |
| Independent review (`independent_review.rs`, `review_audit_loop.rs`) | projection in the execution row | reviewer and auditor calls, resolution, repair chain | authority, executor, bank lease, log |
| Coordinator finalization (`finalization.rs`, `local_verification_completion.rs`) | none | final response, completion material | goal runtime |
| Task locks, brain files, Brain, MCP, LLM client, policy tools, role servers, scripts, observability | files, caches, HTTP | request and response services | outside the run-time core |

The way of a goal.  Tasks are scheduled and bootstrapped into a run (log and
execution row).  For each task the Engineer-to-Verifier controller claims it,
has the engineer called once, performs the planned effects in a leased
workspace, seals it, has it verified, and admits the published bundle to
`Reviewing`.  The independent review calls a reviewer and an auditor on that
bundle; their verdicts end in a pass, a repair directive (which starts a
successor run) or an escalation.  A completion is appended to the log when the
bundles of all tasks are still current under a lease of the bank.

What makes it hard, and what correct means:

* **Leases on caller-supplied instants.** A lease is active while `now < expiry`;
  a claim prunes every expired owner entry, and requests may be older than the
  last one applied.  Two active leases never share a write key; an active lease
  is not replaced; a terminal task is never touched again.
* **Optimistic concurrency.** Processes load, compute and swap.  Each command
  takes effect once or not at all, on the state it answers about; a repeated
  command is recognised; retries end.
* **Strict restore.** Every load checks the whole snapshot.  A command whose
  result would be refused must not be stored, and is not; the price is that some
  legal steps can never be taken (section 5).
* **Spend, then perform.** An approval is spent before its effect runs; a role
  call is recorded as started before it is made; a write is prepared before it is
  made.  A crash between the two loses an effect or leaves it to be recognised
  on disk, and never repeats it.
* **Several stores without one transaction.** Log, execution row, bank and
  workspace root are written one after the other, and a crash falls between any
  two.  A frozen event is appended exactly as frozen; what is found on disk is
  explained by the row.
* **Currency.** Evidence is superseded, marked stale, dropped and recovered while
  it is relied upon.  An old token matches nothing new; nothing is admitted,
  passed or completed on evidence that is not current then.
* **Untrusted surroundings.** Commands, executables, sources and roots change
  under the hands of the verifier and the broker, and run over time and caps.

The hazards of `PROJECT.json` list these at their lines.

## 2. Modules and the code

Abstract or pure modules are at the left of the arrows; `A <- B` says that B
extends A.

    ExecutionKernel <- ExecutionLifecycle
    ExecutionKernel <- DurableExecution (implements ExecutionLifecycle)
    ExecutionKernel <- Scheduler
    GuardPolicy <- ApprovalLedger (implements ApprovalContract)
    RunReplay <- GoalRuntime          RunReplay <- ReviewAudit <- ReviewPackets
    EngineerVerifierState <- WorkspaceCapability <- EngineerVerifier
    EvidenceBank <- Verifier, IndependentReview, TargetedRerun <- CompletionAdmission
    CommandExecution <- Verifier
    Verifier, IndependentReview, FailureRouting <- EvidenceSystem
    Foundation <- RoleExecution <- RoleContracts
    RoleExecution <- ToolBoundary <- ToolBroker, VerifierReplay

**`ExecutionKernel`** holds the operators on a snapshot: `Claim…`, `Heartbeat…`,
`Terminal…`, `Failure…` come in pairs, `…Allowed` for every early return of
`apply_claim`, `apply_heartbeat`, `apply_terminal`, `apply_failure`, and
`…Effect` for what they assign.  `Restorable` is `restore`, split into
`AttemptsFit`, `LeaseFits`, `RecordFits`, `LeaseTimesFit` per task and
`OwnersFit` across tasks.  **`ExecutionLifecycle`** is the kernel in one process:
`run` is its snapshot, `clock` the latest instant, `panicked` the `.expect` of
`apply_heartbeat`.  A request carries an instant up to `MaxLag` behind the clock.

**`Scheduler`** has `schedule_tasks`, the plan that `build_planned_run` makes of
a task list and what `initialize_execution` compares of it.  Its property holds
every task list of the instance against a declaration by reachability: the waves
are the longest paths, a cycle is reported just when there is one, tasks of one
wave share no write key, and every wave is what the kernel would let start.

**`DurableExecution`** is `DurableExecutionAuthority::apply` for concurrent
callers on one run row.  `row` is the row, `calls` the program counter and local
variables of each caller.  A step is one SQLite transaction and the computation
up to the next.  `Install` writes a projection into the same row.  `Crash` ends
a call at any point without an answer and stands for the death of a process, a
lost answer and a SQLite error alike.

**`GuardPolicy`** is `evaluate_guard_request` as operators.  **`ApprovalLedger`**
is `DurableGuardrailAuthority`: `ledger` holds the rows, `calls` the calls in
progress; `ran`, `lost` and `direct` are history variables.
**`ApprovalContract`** is the promise per approval: absent, pending, approved or
denied, consumed, performed.

**`RunReplay`** is `replay_run` as operators: `Chained` is `validate_event_chain`,
`Accepts` and `After` are the arms of its `match` on one event, `Replay` folds a
stream into a view or the refusal.  **`GoalRuntime`** is `DurableGoalRuntime` over
the shared file: `log` holds the lines, `Malformed` a line that does not parse,
`unended` whether the last line has its newline.  A step is one read of the file
with the checks that follow it, one append, or one transaction.
`AppendVerifiedCompletion` holds `lease` from its checks to its append.

**`ReviewAudit`** goes below what `RunReplay` knows of a decision: criteria, claim,
catalog, assessments, references, and derives the verdict from them.
**`ReviewPackets`** is what reviewer and auditor are handed, what they may answer
and what sends a candidate to repair.

**`EngineerVerifierState`** is the projection: what a state may hold, which may
follow which, and the phase event frozen with a transition.
**`WorkspaceCapability`** is the broker as the controller uses it: epoch, fence,
prepared write, inspection after a crash, seal, close.  **`EngineerVerifier`**
composes both with the row, the log, the roots and the bank's current record: a
broker is a process in `drive`, a visitor a thread in `heartbeat` or
`request_cancellation`; a step is one access to a store; every fault of `Faults`
may happen between two steps.  **`VerifierReplay`** is what the loop freezes
before it calls the verifier and compares afterwards, by content: the state
machine only knows that inputs fit or do not.

**`EvidenceBank`** is the store: `definitions` and `bundles` are the immutable
records, `capability` and `evidence` the current rows, `capabilityMax` and
`evidenceMax` the generations given out, `archives`, `migrated`, `lease`.  A
refused call changes nothing and has no action; a caller may present an old token
at any time.  **`CommandExecution`** is one command: the checked executable, the
containment, the two readers with their cap, the watching loop.  **`Verifier`** is
`verify_and_publish` around it, command by command.  **`IndependentReview`** is
the projection of a review and the drivers that advance it.
**`FailureRouting`** is the routing of classified failures.
**`EvidenceSystem`** puts these over one bank; `errand` says which of them a
behaviour runs, so that the interleavings are those of parties that share rows.

**`TargetedRerun`** is the selection of capabilities for changed paths.
**`CompletionAdmission`** is the enforced completion: the policy fixed at
construction, the prepared material, the second look under the lease and the
append, while sources, capabilities and bundles change.

**`Foundation`**, **`RoleExecution`**, **`ToolBoundary`** are the contract types
that decide something.  **`RoleContracts`** declares what a journal, an answer and
an authority may be, and holds the code's checks against that.  **`ToolBroker`**
is `WorkspaceCapabilityBroker` as an invoked role meets it; others write to the
root at any time, in the middle of a call as well.

`MC…` modules give the constants their values.  Operators marked *Fault* are
variants that a plausible bug would produce; the `mutants` of `PROJECT.json` put
each in the place of the definition next to it, and TLC finds the named property
violated.

Where a module is pure (`Scheduler`, `ReviewAudit`, `ReviewPackets`,
`TargetedRerun`, `RoleContracts`, `VerifierReplay`) its property compares the
translated algorithm with a declaration written without it, over every input of
the instance.  TLC evaluates such a property once, in the run of the state
machine that calls the functions.

## 3. Runs

| Run | Instance | What it shows |
|---|---|---|
| `lifecycle_expect` | tasks `a`, `b` with one write key, `c` after `a`; requests up to one instant late | *violation*: the `.expect("lease owns write key")` of `apply_heartbeat` can fail (5.1) |
| `durable_competing` | two callers, two tasks with one write key, late clocks; every task list of three tasks | the authority implements the kernel; no claim passes an expired writer; what the scheduler derives is sound and can be executed |
| `durable_repeated` | one worker repeating its calls beside projection installs and crashes | no attempt is won twice, one terminal outcome, every call returns |
| `approval_ledger` | three callers, one approval, a retry | at most one effect, for the very request approved; the ledger implements its contract |
| `runtime_shared` | two callers, a run each: one to be created, one planned; one approval; torn writes and deaths | a file that can be read replays; a retry is recorded once; no event disappears from a readable file; an approval answered before its event was appended stays unnamed |
| `runtime_gated` | one run with its gates, while its evidence moves; every catalog and decision of the instance | a completed run has its evidence and a pass of every gate before the completion; a gate passes just when the declaration says so |
| `controller_alone` | one broker at a time, a read and a write, two attempts, all faults | the write is applied once, the row explains the disk, every call returns |
| `controller_shared` | two brokers and a thread that beats and cancels, two of them at a time | the executor is called once per attempt, no phase is lost from the log, a fenced broker keeps its hands off the root, an admission is earned |
| `controller_reviewable` | one broker, no fault | *violation*: a run that needed a second attempt ends in `Reviewing` with a log that the review refuses (5.1) |
| `evidence_system` | upkeep of the bank, a verification, two drivers of a repair chain, and routing, over one bank | an old token matches nothing; a pass was run and its transcript is whole; each verdict happens once, on the admitted evidence; a repair follows a directive; the loop is never refused; sensitive failures have two witnesses |
| `goal_completion` | a goal of two tasks completed while sources, capabilities and bundles change | the selection is exact; what is completed was verified as a whole; tasks share only helpers |
| `tool_broker` | an engineer and a reviewer on one lease, others writing in the middle of their requests, a failing file system | receipts tell the contents, a grant writes once, a key answers once; and, against declarations: journals, answers, authority and replay |

Deadlock is not checked in these runs: in every one of them the work ends, and
generations, lines, opens or attempts are bounded.

## 4. Bounds

A bound appears as a guard of an action or as a set that a `.cfg` gives.

* **Kernel and authority.** `lifecycle_expect` has three instants, two attempts
  and `MaxLag` 1: a lease, a claim after it ran out and a late heartbeat.
  `durable_competing` has two callers, one attempt, instants 0 to 2, a lag of one
  (`StampLag`) and one retry: a conflict needs one other writer, and a second
  conflict exhausts the retry.  `durable_repeated` has one task with two attempts
  and one install (`MaxProjection`).  `TaskLists` are all graphs of three tasks
  over two write keys, and lists that repeat an id or name an unknown one.
* **Ledger.** Three callers are two opposite decisions and a resume, or two
  resumes and a decision.  Callers are interchangeable, and no property or action
  names one.
* **Goal runtime.** `MaxLines` 8 hold a bootstrap beside another run, or a run
  from creation to completion without gates; 13 hold one with both gates.
  `Planned` is the run whose bootstrap is in the file at the start, where its
  beginning is not the subject.
  `Fallible` names the callers that may fail: both in `runtime_shared`, none in
  `runtime_gated`, where the order of events is the subject.
* **Controller.** Two attempts are the least with a retry and an exhausted
  budget; `MaxOpens` 2 a second workspace, `MaxEpoch` 3 two recovery claims of
  one, `MaxBusy` the calls in progress.  `controller_alone` includes every fault,
  one call at a time; `controller_shared` two calls at a time without them: its
  subject is what the callers do to each other, and the thread that beats and
  cancels is the other user of the row.  Brokers are interchangeable.  The inductive invariant was model-checked, before it
  was proved, on these and on two brokers with crashes, torn writes, sweeps and
  failing backends.
* **Evidence system.** One set of bounds for one bank: two capabilities, a
  chain of two keys (the least with a repair), `MaxGeneration` 2 (a row, and one
  that replaces it), one archive, one verification (`MaxJobs`) with a cap of one
  unit and two written (`OutputCap`, `MaxBytes`: below, at and over), two log
  lines per run, two classified failures (a word and its confirmation) among
  three workers, one tick.  `Errands` names what a behaviour does, so that a
  verification does not multiply with a review that shares no row with it; the
  bank is shared by all.  Drivers are interchangeable.  Three more bounds keep
  apart what does not meet: a rival publishes while the verifier is about to
  (`Meetings`; the verifier reads the bank when it starts and when it publishes,
  so an earlier moment after its start has the same outcome), bundles are marked
  stale for the first key of the chain (`Markable`), and the log with a foreign
  event is that of the second (`Noisy`).  The theorems hold for every choice of
  the three.
* **Completion.** Two tasks, four capabilities (one per criterion, a shared
  helper, and one that a change does not affect), two generations, two appends.
* **Broker.** One lease, two grants (so that one can be spent and its sibling
  used), three receipts of which one is a denial, two keys, and grants of which
  the reviewer's has expired.  Others may write the path that the grant writes,
  change what was seeded and is read, or put an odd file in its place.  An authority
  is in any status and visibility, and its callers keep the digest of one of them,
  of something else, or none.  Of the resumed verifications: 264 supplies, of which 86 freeze
  something, 142 resume with something changed and 85 reach an admission.

## 5. What the checks show

### 5.1 Findings

*The assertion of `apply_heartbeat`.*  `apply_claim` prunes every owner entry
whose expiry is at or before the claim's instant, of other tasks too; instants are
the callers', and a heartbeat stamped earlier but applied later passes every check
and reaches `.expect("lease owns write key")` (`execution_lifecycle.rs:862`) with
no entry.  `HeartbeatNeverPanics` proves that this needs lagging instants.  The
durable authority does not reach it, as the strict restore refuses the pruned
state first.

*Reviewing that cannot be reviewed.*  The check of the event chain compares the
execution binding of every event with that of the row
(`engineer_verifier_loop.rs:2827`, `:2853`), but the binding is computed over the
attempt, which a retry increments.  A run that was retried once ends in
`Reviewing` and is refused by the review for good.

### 5.2 Facts that no document denies

These follow from the code, are in the model, and no document promises otherwise;
they are no findings, and a maintainer should know of them.

* **The wedge of the kernel.**  While the lease of a writer has run out, a claim
  by any other task computes a state without its owner entry, which the restore
  refuses; only a reclaim of that very task passes, and without attempts left no
  command changes the run (`NoClaimPassesAnExpiredWriter`, `sqlite_execution.rs:602`).
* **One writer per run.**  The documents ask for it, and `append_event` needs it:
  with two, the stream stops replaying.
* **Planned, never executed.**  `create_run` accepts an empty list, or a task of
  the Coordinator, and that run can never be bootstrapped.
* **Gates.**  The replay collects evidence in the order of events while
  `validate_catalog` refuses an unsorted catalog: references out of order and one
  recorded decision refuse the completion for ever (`review_audit.rs:556`).  A
  reviewer can only confirm a claim; disagreement comes from the auditor; a packet
  whose manifest omits a claimed criterion ends in an escalation.
* **Controller.**  After these, no call moves the run: a crash between the
  admission and the closing of its workspace, when there was a retry; a
  cancellation while the verification is started, after the last effect, or with
  a prepared write that was never made; two reconcilers that append the same
  frozen event; a close whose root is gone while its row is open; a torn write;
  evidence that goes stale in between.  ADR 0005 asks for a sole writer and does
  not promise clean-up after a kill.  The safety properties hold throughout.
* **Resumption.**  A resumed verification is held to what was frozen: another
  transcript conflicts with the current record for ever.  A planned write of what
  is already there is refused at prepare, and only a cancellation ends it.
* **Visibility.**  `validate_visibility_transition` compares the owner's approval
  with the digest that its caller supplies and never computes it from the
  authority (`foundation.rs:619`): a caller that keeps an approval and its digest
  shows more of an authority that is stale or revoked.  ADR 0001 makes the digest
  of the current bytes the caller's duty
  (`docs/adr/0001-shared-authority-evidence-compatibility.md:28`); done so, the
  approval serves again only when the authority is back at what was approved.
  Nothing in the run-time core calls the function.
* **Broker.**  A request denied once stays denied under its key; a grant writes
  at most once; the copy of an authority in an invocation does not see a later
  revocation; a removal that failed at close cannot be tried again; the persisted
  outcome is checked less than the live one (the code of a timeout).
* **Review.**  Evidence that moves between the pass and its logging leaves the
  decisions unlogged; a second driver or a heartbeat during a call loses the
  answer, and the run escalates as `OutcomeUnknown`; a busy bank escalates as
  `EvidenceInvalid`; a decision event that was followed by a foreign one is a
  conflict for ever.
* **Bank and verifier.**  A rebuild that resets a key can revive an old bundle; a
  changed capability makes bundles of its old revision unhealthy; a corrupt legacy
  archive blocks all of them; a capability without criteria whose command fails
  keeps the bundle from being published; on Unix an executable can be swapped and
  put back unseen between its check and its start, hence `windows` in `RanWell`.
* **Completion.**  The policy is fixed at construction; evidence is recorded once
  per run, so a bundle replaced afterwards blocks the completion; a change that two
  tasks' capabilities share completes neither; the source is not protected between
  the second look and the append.

### 5.3 Fairness

`EveryCallReturns` assumes weak fairness of each caller's next step
(`FairSpec` of `DurableExecution`), and `CallReturns` of each broker's and
visitor's (`FairSpec` of `EngineerVerifier`): a thread inside the authority or the
controller keeps running until it returns or dies.  Nothing is assumed of callers
that have not started, of crashes, installs, faults or the clock.

## 6. Proofs

For every value of the constants that the named `ASSUME`s admit.  An inductive
invariant was first checked by TLC on the runs' instances.

**`ExecutionLifecycleProofs`** begins with the kernel's operators: each effect
preserves the types, what an effect leaves alone, what a claim and a release do to
owners (`DurableExecutionProofs` has those of these lemmas that it needs). Then
types, `TasksFit`, owners that hold their leases
and, when `MaxLag = 0`, that every active lease owns its write keys.
`ActiveWritersDisjoint` and `LeaseOwnsWriteKey` rest on the last conjunct:
exclusiveness of keys alone is not inductive, since a claim consults the owners and
not the leases.  The theorems that need it assume `MaxLag = 0` in their
statements; without it they are false.

**`DurableExecutionProofs`**: `IInv` says that the row a call loaded is never newer
than the stored one and equals it when the revisions agree, and that what it is about
to write is the effect of its command on what it loaded, and restorable.  From it
follow `StoredAlwaysRestorable`, `WritersAlwaysExclusive` and `ImplementsKernel`:
a swap that matches is a kernel step, every other step stutters.  `WinInv` adds
what callers were told: an attempt that was won is at most the row's counter, and a
terminal record told of is the one stored.  Both survive since attempts only grow
and terminal records are never replaced (`RowGrows`), which gives
`AttemptsAlwaysWonOnce` and `TerminalAlwaysOneWinner`.  `ClaimsNeverPass` rests on
`IInv`: a swap writes a restorable row, and a restorable row has no running
writer without an owner entry.

**`ApprovalLedgerProofs`**: a row is pending at revision 0, decided at 1, consumed at
2; what a call loaded is never newer and equal at equal revisions; a consumed
approval is performed, about to be performed by one caller, or lost with it.  The
revisions make it inductive: a conflict means that the row has moved on for good,
which also proves that the conflict answer of a resume is dead code
(`LosersAlwaysLearn`).  `KeepsContract` maps each matching swap and each effect to
a step of `ApprovalContract`.

**`EvidenceSystemProofs`** begins with the review by itself. `LoopInv` is `RowInv`
(a stored row fits and its chain is repaired by directives; a driver's copy is the
row while it is *fresh*, and its place in the code fits its copy), `LeaseInv` (who
decides under the lease holds it, and what it looked at under it still holds),
`CallInv` (a role is called for no row that does not show it as started, and only
one driver has a call to make), `CopyInv` and `LogInv` (what a logging driver has
not seen is not a decision). `LoopIsNeverRefused` is the theorem that the loop and
the rules of the row, written apart in two crates, agree: for each step that
stores a row, that row passes `validate_successor`.

Then comes the bank by itself: an allocator bounds every row its key ever had, so
a row that is current again is the allocator's (`AllocatorBounds`). Without the
allocators, which outlive the rows, the statement is false after a drop. Next are
the review's five properties beside the other users of the bank. What makes the
invariant carry over is `ReviewsAreApart`, and that whoever changes a current row
needs the lease, which a deciding driver holds. `RoutingInv` keeps for each
failure its name, its route and the first word it confirms. `CommandInv` is the
command: `ProcessInv` (a process is there while it is watched), `BytesInv`
(captured and unread bytes are what was written, until the captures are frozen)
and `WatcherInv` (why the loop ended). A reply `Completed` needs that nothing
froze the captures, whence `TranscriptsAreWhole`. `JobInv` is the verification:
what was passed so far was earned (`EarnedBefore`), the command in progress is the
plan's next (`Watched`, `Started`), and a decided verdict stays earned
(`Settled`); `LaterCriteria` says that the criteria of a finished capability are
not those of a later one's commands. It rests on `PlanInOrder`: flattening the
commands of the capabilities keeps their order. The library defines the flattening
by a recursive function, and the prover has no induction over data; `UpTo` stands
in for it: a set of numbers that has the first one and goes on from each has all
of them, since a least one that is missing would follow one that is not. With it
`Joins` builds the values of the recursion and `JoinsInOrder` goes along them.

Last, `SystemCurrentIsNewest` is the bank's promise in the whole system.  The verifier
publishes bundles it computes, so the step to show is that each of them is one the
bank can hold: `JobShape` keeps the results functions from the request's criteria to
verdicts and the transcript a sequence of replies, and `BundleValid`, which the code
checks before it publishes, bounds the transcript by the plan.
`PublishableAssumption` asks of the constant `Bundles` that it has every bundle of
that form, no more: a smaller set would hide publications.  A review touches
nothing of the bank but its lease.

**`EngineerVerifierProofs`**: `CtlInv` relates the row, the copies and places of all
calls, the log, the leases and the disk.  `CallInv`: each call is sound for its
place (`CopySound`, `PlaceSound`, `InvokeSound`, `LeaseSound`), no two calls are at
the executor for one attempt nor at the recovery of one epoch.  `CurrentInv`: a
copy that is current is the row.  `InvokedInv`: an attempt was called for after its
row said `Started`.  `LogInv`: the log has what was acknowledged and at most the
frozen event besides.  `LeaseInv`: a lease of the row's workspace has no later
epoch than the row, and no two have the same.  `DiskInv`: a workspace was written at
most once and the row explains its own.  The hard steps are the recovery claim,
where lease and row change at different times, and the write with its receipt,
where disk and row do.  None of these parts is inductive alone.
`StaleBrokersAreFenced` assumes that nobody sweeps roots from outside, in its
statement; the fault `sweep` removes a root without a lease by definition.

**`ToolBrokerProofs`**: `BrokerInv` has, besides the three properties, that a lease's
snapshot only moves on (`LeaseSound`, `ReceiptSound`: the snapshot at which
something was written has a smaller generation than the one the lease holds now),
that grants are for leases that exist (`GrantInv`), that no receipt speaks of a
lease before it was opened (`ReceiptInv`), and that the request of every receipt is
found again under its key (`KeyInv`).  `ReceiptsTellTheContents` is stated without
recursion: the last write before a receipt says what was held then
(`HeldBefore`, `Leads`), and `TellsOn` shows that one more receipt keeps it.
A grant writes at most once because its snapshot is left behind for good by the
first write; a key is answered once because what is remembered is never forgotten.
None of this depends on what others do to the roots, since no conjunct mentions
them.

**`GoalRuntimeProofs`**: what the shared file keeps, for any callers, runs,
approvals and lengths. Both `load_run` and `replay_run` go along a sequence, and
both are recursive functions; `EventsRead` and `ReplayGoes` give the values along
the way, by the set of numbers `UpTo` again, and `EventsAppend` says what one more
line does to what is read of a run. `Queued` adds to the types what a call in
progress carries: events of its own run, under stamps that it has used up.
`IdsInv`, for `RecordedOnce`: an identifier belongs to the run its caller writes
(`Owned`), and what a call is about to append is not in the file (`Fresh`). The
second survives the appends of others because of the first, and a torn append
because the event that was spoiled is no event any more. `CompletedIsEarned` is no
induction over steps: whatever a stream holds, a view that the replay computes
from it tells what was recorded before (`Tracks`, kept by each event that is
accepted), so a stream that is read as completed earned it. `ReplayInv`, for
`OneWriterReplays`, adds that what a call is about to append goes on with what is
read of its run *now* (`Onward`): the one event that was replayed behind it, or
the rest of the bootstrap of a new run. It needs `OneWriter` (no two callers write
one run), which is in the statement of the theorem: with two writers the replayed
prefix has moved when the append comes, and the statement is false.
`NothingLostSilently` and `StrandedForGood` look at one step: an append can only
complete a spoiled line, which makes the file unreadable, and an approval that
nobody carries can only be carried again by an evaluation that finds it pending.

**`CompletionAdmissionProofs`**: the first half is about graphs.  `Rounds` gives the
values that a loop goes through, so that `Settled`, `Impacted` and `Needed` can be
reasoned about round by round.  What a loop adds is reached by a walk along the
dependencies, of any length (`Comes`), and what is reached by a way of the
declaration is added in time; the two agree because the shortest walk does not meet
itself (`CutWalk`, `ShortWalk`), and an injection into the registry is no longer
than the registry.  For cycles: what the search leaves has a walk of every length
before it (`LeftBehind`), and a walk longer than the registry turns
(`LongWalkTurns`, the pigeonhole).  `SelectionsAreExact` puts them together for every
finite registry and every request.  The second half is the completion:
`AdmissionIInv` says that the bank keeps offered bundles, that a policy is what was
selected from its registry (`Made`), that a call which is not idle has the
reservation and a policy, and that before the append what was admitted still holds
for the source that was looked at (`CallPart`).  `CompletionIsCovered` alone is not
inductive: nothing in it speaks of the instant between admission and append.  The
reservation keeps the bank, `OpenRuntime` waits for an idle call, and a review that
was passed is not taken back; so `ReadyIsCovered` applies when the line is written.

Assumptions: the named `ASSUME`s, which say of constants what the code's
constructors check or what keeps `None` apart from records, all evaluated by TLC
on the runs: `DefinitionAssumption`, `NoneAssumption`, `NoneDistinct`,
`RowAssumption`, `DurableAssumption`, `LedgerAssumption`, `BankAssumption`,
`ReviewAssumption`, `CommandAssumption`, `VerifierAssumption`,
`PublishableAssumption`, `RoutingAssumption`, `SystemAssumption`,
`BoundaryAssumption`, `PlanIsOrdered`, `AttemptsAreCounted`, `ErrandsAreKnown`,
`BoundsAreCounts`, `NothingIsNoValue`, `ReplayAssumption` (`None` is no view and
no verdict), `RuntimeAssumption` (bounds are counts; a run that is there from the
start has its bootstrap within the stamps of the caller that writes it), `RegistryAssumption` (a registry has
finitely many rows), `AdmissionAssumption`, `OfferedValid` (whoever publishes a
bundle passes `VerificationBundle::validate`).

## 7. Only model-checked

* `EveryCallReturns`, `CallReturns`: liveness, beyond the prover.
* `SchedulesAreSound`, `GatesAreGrounded`, `JournalsTellOneStory`,
  `AnswersFitTheJournal`, `AuthoritiesAreOwned`, `ReplayExact`: comparisons of an
  algorithm with a declaration over every input of the instance; the algorithms
  are folds or closures over records of many kinds, and the declaration quantifies
  over all of them.

## 8. Not modelled

`PROJECT.json` names the components that are left out, each with its reason.  Of the
modelled ones: `reconcile_completion_append`, which changes nothing; schema creation,
file paths, directory handles and the lock file; wire formats, identifier texts and
digests (an equality of contents stands for an equality of digests); the wording of
errors.  Three corners that are read and left: a retry limit of 0 is reported as
contention before the stored decision is compared (`durable_guardrails.rs:396`);
an identical guard request evaluated after the owner decided is answered as a
conflict of definitions (`:215`); and the clean-up of stale advisory task locks can
free the lock of the next holder (`ovca-storage/src/sqlite.rs:43`), which nothing
in the run-time core relies on.
