---------------------------- MODULE EngineerVerifier ----------------------------
(***************************************************************************)
(* The Engineer-to-Verifier controller (ovca-langgraph,                    *)
(* engineer_verifier_loop.rs) over the stores it drives: the execution row *)
(* with its revision, the run's event log, the brokers' private workspace  *)
(* roots and the evidence bank's current record for the task.              *)
(*                                                                         *)
(* A broker is a process that calls drive() with its own capability        *)
(* broker; a visitor is a thread that calls request_cancellation() or      *)
(* heartbeat().  A call is a sequence of steps, one for each access to a   *)
(* store, with a copy of the row it loaded; between two steps anybody else *)
(* may act, and a broker may crash.  A copy is `current' while nobody else *)
(* has written the row, which is what the revision comparison asks.        *)
(***************************************************************************)
EXTENDS WorkspaceCapability, FiniteSets

CONSTANTS
    Brokers, Visitors,
    Errands,     \* what the visitors come for: "request" and "beat"
    Faults,      \* which of the disturbances below a run includes
    MaxOpens,    \* bound: workspaces opened
    MaxEpoch,    \* bound: recovery claims of one workspace
    MaxBusy,     \* bound: calls in progress at a time
    Nobody

ASSUME ErrandsAreKnown == Errands \subseteq {"request", "beat"}

ASSUME BoundsAreCounts == MaxOpens \in Nat /\ MaxEpoch \in Nat

Callers == Brokers \union Visitors

VARIABLES
    row,      \* the engineer_verifier part of the execution row, or None
    log,      \* the run's event log
    root,     \* what each workspace root holds on disk
    opened,   \* how many workspaces were opened: each call names a fresh one
    bank,     \* the bank's current record for the task
    expired,  \* the lease and grant windows are over
    holder,   \* the live broker whose instance the row names, if any
    lease,    \* the lease in each broker's registry
    current,  \* the callers whose copy is the stored row
    unmoved,  \* the brokers whose lease was opened at the stored revision
    call,     \* what each caller is doing
    invoked,  \* history: how often the executor was called for an attempt
    writes    \* history: how often a workspace was written

vars == <<row, log, root, opened, bank, expired, holder, lease, current,
          unmoved, call, invoked, writes>>
disk == <<root, opened, lease, writes>>
world == <<bank, expired, invoked>>

Workspaces == 1..MaxOpens
Bank == {"Absent", "Pass", "Fail", "Stale", "Other"}

Labels == {"idle", "look", "append", "check", "clear", "resume", "recover",
           "open", "install", "invoke", "calling", "record", "result",
           "effects", "execute", "settle", "startVerifier", "reseal", "verify",
           "observe", "admit", "closeRoot", "closeRow", "finish", "done",
           "request", "beat"}

\* How a drive ends: the transition, and whether the workspace is closed
\* before it, after it, or was closed already.
Endings == [to : Phases, trigger : Triggers, tidy : {"first", "last", "none"}]

ASSUME NothingIsNoValue ==
    /\ None \notin Rows \union Events \union Endings
    /\ NoLease \notin Leases

Calls == [at : Labels, then : Labels, copy : Rows \union {None},
          end : Endings \union {None},
          got : {"None", "Absent"} \union Outcomes \union Resolutions \union Bank]

Idle == [at |-> "idle", then |-> "done", copy |-> None, end |-> None, got |-> "None"]

Init ==
    /\ row = None /\ log = << >> /\ opened = 0
    /\ root = [w \in Workspaces |-> "absent"]
    /\ bank = "Absent" /\ expired = FALSE /\ holder = Nobody
    /\ lease = [b \in Brokers |-> NoLease]
    /\ current = {} /\ unmoved = {}
    /\ call = [c \in Callers |-> Idle]
    /\ invoked = [n \in 1..MaxAttempts |-> 0]
    /\ writes = [w \in Workspaces |-> 0]

-----------------------------------------------------------------------------
(* The row.                                                                *)

At(c, label) == call[c].at = label

Free(c) == At(c, "idle") /\ Cardinality({d \in Callers : ~At(d, "idle")}) < MaxBusy

Goto(c, next) == call' = [call EXCEPT ![c] = next]

\* The call returns, with an outcome or an error: nothing else is undone.
Return(c) == Goto(c, Idle) /\ current' = current \ {c}

Step(c, label) == [call[c] EXCEPT !.at = label]

\* cas_replace: the copy's revision, then the row's own validators.
Wins(c, next) == c \in current /\ Accepts(row, next)

Store(c, next, onward) ==
    /\ row' = next
    /\ current' = {c}
    /\ unmoved' = {}
    /\ Goto(c, IF onward.at = "done" THEN Idle ELSE [onward EXCEPT !.copy = next])

\* Fault: a lost comparison is tried again with the same copy.
SwapSpinning(c, next, onward) ==
    IF Wins(c, next) THEN Store(c, next, onward)
    ELSE UNCHANGED <<row, unmoved, call, current>>

Swap(c, next, onward) ==
    IF Wins(c, next) THEN Store(c, next, onward)
    ELSE Return(c) /\ UNCHANGED <<row, unmoved>>

Touched(r) == [r EXCEPT !.stamped = FALSE]      \* controller_time = now

Ending(c, to, trigger, tidy) ==
    [Step(c, "finish") EXCEPT !.end = [to |-> to, trigger |-> trigger, tidy |-> tidy]]

Closing(c, to, trigger) ==
    [Ending(c, to, trigger, "first") EXCEPT !.at = "closeRoot"]

-----------------------------------------------------------------------------
(* reconcile_pending: the frozen event of the last transition is looked up *)
(* in the log, appended when it is missing, and acknowledged in the row.   *)

\* Fault: the frozen event is acknowledged in the row before it is appended.
LookTrusting(c) ==
    /\ At(c, "look")
    /\ Goto(c, IF call[c].copy.pending # None THEN Step(c, "clear")
               ELSE IF call[c].then = "done" THEN Idle ELSE Step(c, call[c].then))
    /\ UNCHANGED <<row, log, disk, world, holder, unmoved, current>>

\* The log is read once: an event found must be its tail.
Look(c) ==
    /\ At(c, "look")
    /\ LET r == call[c].copy
           p == r.pending
       IN  IF ~ChainIntact(log) THEN Return(c)
           ELSE IF p = None
           THEN IF Cursor(log) # r.projected THEN Return(c)
                ELSE /\ Goto(c, IF call[c].then = "done" THEN Idle
                                ELSE Step(c, call[c].then))
                     /\ UNCHANGED current
           ELSE IF Logged(log, p)
           THEN IF Cursor(log) # p THEN Return(c)
                ELSE Goto(c, Step(c, "clear")) /\ UNCHANGED current
           ELSE IF Cursor(log) # r.projected THEN Return(c)
           ELSE Goto(c, Step(c, "append")) /\ UNCHANGED current
    /\ UNCHANGED <<row, log, disk, world, holder, unmoved>>

AppendFrozen(c) ==
    /\ At(c, "append")
    /\ log' = Append(log, call[c].copy.pending)
    /\ Goto(c, Step(c, "check"))
    /\ UNCHANGED <<row, disk, world, holder, unmoved, current>>

\* The log is read again: the frozen event must be its tail now.
CheckAppended(c) ==
    /\ At(c, "check")
    /\ IF ChainIntact(log) /\ Cursor(log) = call[c].copy.pending
       THEN Goto(c, Step(c, "clear")) /\ UNCHANGED current
       ELSE Return(c)
    /\ UNCHANGED <<row, log, disk, world, holder, unmoved>>

Acknowledge(c) ==
    /\ At(c, "clear")
    /\ Swap(c, Acknowledged(call[c].copy), Step(c, call[c].then))
    /\ UNCHANGED <<log, disk, world, holder>>

Reconcile(c) == Look(c) \/ AppendFrozen(c) \/ CheckAppended(c) \/ Acknowledge(c)

-----------------------------------------------------------------------------
(* drive: a fresh run opens a workspace, a stored one is resumed.          *)

StartDrive(b) ==
    /\ Free(b)
    /\ Goto(b, IF row = None THEN [Idle EXCEPT !.at = "open"]
               ELSE [Idle EXCEPT !.at = "look", !.then = "resume", !.copy = row])
    /\ current' = current \union {b}
    /\ UNCHANGED <<row, log, disk, world, holder, unmoved>>

\* open_recoverable_lease, for the first attempt or a retry.
OpenLease(b) ==
    /\ At(b, "open")
    /\ IF b \in current /\ opened < MaxOpens
       THEN /\ opened' = opened + 1
            /\ root' = [root EXCEPT ![opened + 1] = "before"]
            /\ lease' = [lease EXCEPT ![b] = Opened(opened + 1)]
            /\ unmoved' = unmoved \union {b}
            /\ Goto(b, Step(b, "install"))
            /\ UNCHANGED current
       ELSE Return(b) /\ UNCHANGED <<opened, root, lease, unmoved>>
    /\ UNCHANGED <<row, log, writes, world, holder>>

\* close_lease of a lease the row does not refuse it for.
CloseOwned(b) ==
    IF CanClose(row, lease[b], b \in unmoved)
    THEN /\ root' = [root EXCEPT ![lease[b].ws] = "absent"]
         /\ lease' = [lease EXCEPT ![b] = Closed(@)]
    ELSE UNCHANGED <<root, lease>>

\* The seeds hold the write already (NoChange), or differ from the first
\* attempt's: the lease is given up before the row names it.
GiveUp(b) ==
    /\ At(b, "install")
    /\ CloseOwned(b)
    /\ Return(b)
    /\ UNCHANGED <<row, log, opened, writes, world, holder, unmoved>>

\* The state drive_fresh or claim_retry installs.
Claimed(b) ==
    IF call[b].copy = None
    THEN Moved(Planned(lease[b].ws, Cursor(log)), "Engineering", "ClaimAccepted")
    ELSE Moved(Retried(call[b].copy, lease[b].ws), "Engineering", "RetryClaimAccepted")

Install(b) ==
    /\ At(b, "install")
    /\ IF /\ ~expired
          /\ ChainIntact(log) /\ Claimed(b).projected = Cursor(log)
          /\ Wins(b, Claimed(b))
       THEN /\ Store(b, Claimed(b), [Step(b, "look") EXCEPT !.then = "invoke"])
            /\ holder' = b
            /\ UNCHANGED <<root, lease>>
       ELSE CloseOwned(b) /\ Return(b) /\ UNCHANGED <<row, unmoved, holder>>
    /\ UNCHANGED <<log, opened, writes, world>>

-----------------------------------------------------------------------------
(* resume_existing: what is left to do of a stored run.                    *)

Resuming(b) == At(b, "resume")
Seen(b) == call[b].copy

\* The outcome of a closed run, or of a retry whose root is still there.
ReturnStored(b) ==
    /\ Resuming(b)
    /\ \/ Seen(b).phase \in Terminal /\ Seen(b).closed
       \/ /\ Seen(b).phase = "RetryPending" /\ ~Seen(b).cancelled
          /\ root[Seen(b).ws] # "absent"
    /\ Return(b)
    /\ UNCHANGED <<row, log, disk, world, holder, unmoved>>

\* cleanup_terminal_resume, when the root is gone.
CloseAbsentRoot(b) ==
    /\ Resuming(b)
    /\ Seen(b).phase \in Terminal /\ ~Seen(b).closed
    /\ root[Seen(b).ws] = "absent"
    /\ Swap(b, [Seen(b) EXCEPT !.closed = TRUE, !.cleanup = FALSE], Idle)
    /\ UNCHANGED <<log, disk, world, holder>>

CancelRetry(b) ==
    /\ Resuming(b)
    /\ Seen(b).phase = "RetryPending" /\ Seen(b).cancelled
    /\ Goto(b, Ending(b, "Cancelled", "CancellationAccepted", "none"))
    /\ UNCHANGED <<row, log, disk, world, holder, unmoved, current>>

\* claim_retry, up to the opening of the workspace.
ClaimRetry(b) ==
    /\ Resuming(b)
    /\ Seen(b).phase = "RetryPending" /\ ~Seen(b).cancelled
    /\ root[Seen(b).ws] = "absent"
    /\ Goto(b, IF Seen(b).attempt < MaxAttempts THEN Step(b, "open")
               ELSE Ending(b, "Failed", "RetryExhausted", "none"))
    /\ UNCHANGED <<row, log, disk, world, holder, unmoved, current>>

\* claim_workspace_recovery: the next epoch, for another instance.
ClaimRecovery(b) ==
    /\ Resuming(b)
    /\ \/ Seen(b).phase \in {"Engineering", "Verifying"}
       \/ /\ Seen(b).phase \in Terminal /\ ~Seen(b).closed
          /\ root[Seen(b).ws] # "absent"
    /\ LET next == Touched([Seen(b) EXCEPT !.epoch = @ + 1])
       IN  IF /\ ~Seen(b).closed /\ ~Seen(b).cleanup
              /\ holder # b /\ ~expired /\ Seen(b).epoch < MaxEpoch
              /\ Wins(b, next)
           THEN Store(b, next, Step(b, "recover")) /\ holder' = b
           ELSE Return(b) /\ UNCHANGED <<row, unmoved, holder>>
    /\ UNCHANGED <<log, disk, world>>

\* What follows the executor's recorded outcome (continue_after_executor).
AfterExecutor(b, r) ==
    CASE r.executor = "RetryRequired" -> Closing(b, "RetryPending", "RetryRequired")
      [] r.executor \in {"Failed", "TimedOut"} -> Closing(b, "Failed", "FailureRecorded")
      [] r.executor = "Cancelled" -> Closing(b, "Cancelled", "CancellationAccepted")
      [] OTHER -> Step(b, IF r.result THEN "effects" ELSE "result")

\* What follows in Verifying (resume_verifying).
AfterVerifying(b, r) ==
    IF r.verifier \in {"Observed", "ObservedStale"} THEN Step(b, "admit")
    ELSE IF r.cancelled /\ r.verifier = "NotStarted"
    THEN Closing(b, "Cancelled", "CancellationAccepted")
    ELSE Step(b, "reseal")

\* Fault: a call found Started is made again.
AfterRecoveryReinvoking(b, r) ==
    IF r.phase \in Terminal THEN Step(b, "closeRoot")
    ELSE IF r.phase = "Verifying" THEN AfterVerifying(b, r)
    ELSE IF r.executor \in {"NotStarted", "Started"} THEN Step(b, "invoke")
    ELSE AfterExecutor(b, r)

AfterRecovery(b, r) ==
    IF r.phase \in Terminal THEN Step(b, "closeRoot")
    ELSE IF r.phase = "Verifying" THEN AfterVerifying(b, r)
    ELSE IF r.executor = "Started" THEN Closing(b, "Failed", "ExecutorOutcomeUnknown")
    ELSE IF r.executor # "NotStarted" THEN AfterExecutor(b, r)
    ELSE IF r.cancelled THEN Closing(b, "Cancelled", "CancellationAccepted")
    ELSE Step(b, "invoke")

\* recover_lease with the permit of the claim.
RecoverLease(b) ==
    /\ At(b, "recover")
    /\ LET content == root[Seen(b).ws] IN
       IF /\ Current(row, [ws |-> Seen(b).ws, epoch |-> Seen(b).epoch])
          /\ CanRecover(Seen(b), lease[b], content)
       THEN /\ lease' = [lease EXCEPT ![b] = Recovered(Seen(b), content)]
            /\ Goto(b, AfterRecovery(b, Seen(b)))
            /\ UNCHANGED current
       ELSE Return(b) /\ UNCHANGED lease
    /\ UNCHANGED <<row, log, root, opened, writes, world, holder, unmoved>>

Resume(b) ==
    \/ ReturnStored(b) \/ CloseAbsentRoot(b) \/ CancelRetry(b)
    \/ ClaimRetry(b) \/ ClaimRecovery(b) \/ RecoverLease(b)

-----------------------------------------------------------------------------
(* invoke_and_continue: only who stores Started calls the executor.        *)

StoreStarted(b) ==
    /\ At(b, "invoke")
    /\ Swap(b, Touched([Seen(b) EXCEPT !.executor = "Started"]), Step(b, "calling"))
    /\ UNCHANGED <<log, disk, world, holder>>

\* The executor fails, or returns an outcome that can be recorded or not.
CallExecutor(b) ==
    /\ At(b, "calling")
    /\ invoked' = [invoked EXCEPT ![Seen(b).attempt] = @ + 1]
    /\ \E outcome \in Outcomes \union {"None"} :
         IF outcome = "None" \/ (outcome = "RetryRequired" /\ Seen(b).attempt = MaxAttempts)
         THEN Return(b)
         ELSE Goto(b, [Step(b, "record") EXCEPT !.got = outcome]) /\ UNCHANGED current
    /\ UNCHANGED <<row, log, disk, bank, expired, holder, unmoved>>

RecordOutcome(b) ==
    /\ At(b, "record")
    /\ LET next == Touched([Seen(b) EXCEPT !.executor = call[b].got])
       IN  Swap(b, next, AfterExecutor(b, next))
    /\ UNCHANGED <<log, disk, world, holder>>

RecordResult(b) ==
    /\ At(b, "result")
    /\ Swap(b, Touched([Seen(b) EXCEPT !.result = TRUE]), Step(b, "effects"))
    /\ UNCHANGED <<log, disk, world, holder>>

Executor(b) == StoreStarted(b) \/ CallExecutor(b) \/ RecordOutcome(b) \/ RecordResult(b)

-----------------------------------------------------------------------------
(* execute_effects: the planned effects in order, the write prepared in    *)
(* the row before the broker performs it.                                  *)

Due(b) == At(b, "effects") /\ Len(Seen(b).ledger) < Len(Plan)
NextEffect(b) == Plan[Len(Seen(b).ledger) + 1]

Resolved(r, resolution) ==
    Touched([r EXCEPT !.ledger = Append(@, resolution), !.prepared = FALSE])

CancelEffects(b) ==
    /\ Due(b) /\ Seen(b).cancelled /\ ~Seen(b).prepared
    /\ Goto(b, Ending(b, "Cancelled", "CancellationAccepted", "last"))
    /\ UNCHANGED <<row, log, disk, world, holder, unmoved, current>>

\* prepare_write.
PrepareWrite(b) ==
    /\ Due(b) /\ ~Seen(b).cancelled /\ ~Seen(b).prepared
    /\ NextEffect(b) = "write"
    /\ Swap(b, Touched([Seen(b) EXCEPT !.prepared = TRUE]), Step(b, "execute"))
    /\ UNCHANGED <<log, disk, world, holder>>

\* A prepared write found on resuming is classified by what the root holds.
Inspection(b) ==
    IF Active(lease[b]) /\ RequirePrepared(row, lease[b], b \in unmoved)
    THEN Inspected(root[lease[b].ws]) ELSE "Refused"

InspectRefused(b) ==
    /\ Due(b) /\ Seen(b).prepared /\ Inspection(b) = "Refused"
    /\ Return(b)
    /\ UNCHANGED <<row, log, disk, world, holder, unmoved>>

\* The row without the prepared write that a cancellation overtook.
Unprepared(r) == Touched([r EXCEPT !.prepared = FALSE])

InspectBefore(b) ==
    /\ Due(b) /\ Seen(b).prepared /\ Inspection(b) = "ExpectedBefore"
    /\ IF Seen(b).cancelled
       THEN Swap(b, Unprepared(Seen(b)),
                 Ending(b, "Cancelled", "CancellationAccepted", "last"))
       ELSE Goto(b, Step(b, "execute")) /\ UNCHANGED <<row, unmoved, current>>
    /\ UNCHANGED <<log, disk, world, holder>>

InspectAfter(b) ==
    /\ Due(b) /\ Seen(b).prepared /\ Inspection(b) = "IntendedAfter"
    /\ lease' = [lease EXCEPT ![b].snap = "after"]
    /\ Swap(b, Resolved(Seen(b), "Reconciled"),
            IF Seen(b).cancelled
            THEN Ending(b, "Cancelled", "CancellationAccepted", "last")
            ELSE Step(b, "effects"))
    /\ UNCHANGED <<log, root, opened, writes, world, holder>>

InspectUnknown(b) ==
    /\ Due(b) /\ Seen(b).prepared /\ Inspection(b) \in {"Missing", "ThirdState"}
    /\ Swap(b, Touched([Seen(b) EXCEPT !.cleanup = TRUE]),
            Ending(b, "Failed", "FailureRecorded", "last"))
    /\ UNCHANGED <<log, disk, world, holder>>

\* At the call of broker.execute: a read is asked for straight away.
Executing(b) ==
    \/ At(b, "execute")
    \/ /\ Due(b) /\ ~Seen(b).cancelled /\ ~Seen(b).prepared
       /\ NextEffect(b) = "read"

ExecuteEffect(b) ==
    /\ Executing(b)
    /\ IF Active(lease[b]) /\ Requested(row, lease[b], b \in unmoved, Seen(b))
       THEN LET ws == lease[b].ws
                receipt == Receipt(NextEffect(b), lease[b], root[ws], expired)
            IN  /\ root' = [root EXCEPT ![ws] = ContentAfter(receipt, @)]
                /\ lease' = [lease EXCEPT ![b].snap =
                                IF receipt = "Written" THEN "after" ELSE @]
                /\ writes' = [writes EXCEPT ![ws] =
                                IF receipt = "Written" THEN @ + 1 ELSE @]
                /\ Goto(b, [Step(b, "settle") EXCEPT !.got = receipt])
                /\ UNCHANGED current
       ELSE Return(b) /\ UNCHANGED <<root, lease, writes>>
    /\ UNCHANGED <<row, log, opened, world, holder, unmoved>>

\* backend_failure: the file system refused, and the root is removed.
FailBackend(b) ==
    /\ "backend" \in Faults
    /\ Executing(b)
    /\ Active(lease[b]) /\ Requested(row, lease[b], b \in unmoved, Seen(b))
    /\ Admitted(lease[b], root[lease[b].ws], expired)
    /\ root' = [root EXCEPT ![lease[b].ws] = "absent"]
    /\ lease' = [lease EXCEPT ![b] = Closed(@)]
    /\ Return(b)
    /\ UNCHANGED <<row, log, opened, writes, world, holder, unmoved>>

\* The receipt becomes a ledger entry if the grant is still live.
SettleEffect(b) ==
    /\ At(b, "settle")
    /\ IF Live(row, lease[b], b \in unmoved)
       THEN Swap(b, Resolved(Seen(b), call[b].got),
                 IF call[b].got = "Denied"
                 THEN Ending(b, "Failed", "FailureRecorded", "last")
                 ELSE Step(b, "effects"))
       ELSE Return(b) /\ UNCHANGED <<row, unmoved>>
    /\ UNCHANGED <<log, disk, world, holder>>

Effects(b) ==
    \/ CancelEffects(b) \/ PrepareWrite(b)
    \/ InspectRefused(b) \/ InspectBefore(b) \/ InspectAfter(b) \/ InspectUnknown(b)
    \/ ExecuteEffect(b) \/ FailBackend(b) \/ SettleEffect(b)

-----------------------------------------------------------------------------
(* verify_and_admit: the sealed workspace is verified, the bundle          *)
(* published, and admitted while it is the bank's current one.             *)

Sealable(b) ==
    CanSeal(row, lease[b], b \in unmoved, root[lease[b].ws])

Seal(b) ==
    /\ At(b, "effects") /\ Len(Seen(b).ledger) = Len(Plan)
    /\ IF bank = "Absent" /\ Sealable(b)
       THEN Swap(b, Touched([Seen(b) EXCEPT !.verifier = "NotStarted"]),
                 Ending(b, "Verifying", "EngineerCompleted", "none"))
       ELSE Return(b) /\ UNCHANGED <<row, unmoved>>
    /\ UNCHANGED <<log, disk, world, holder>>

StartVerifier(b) ==
    /\ At(b, "startVerifier")
    /\ Swap(b, Touched([Seen(b) EXCEPT !.verifier = "Started"]),
            [Step(b, "verify") EXCEPT !.got = "Absent"])
    /\ UNCHANGED <<log, disk, world, holder>>

\* resume_verifying: sealed again, and what is current now is remembered.
Reseal(b) ==
    /\ At(b, "reseal")
    /\ LET onward == [Step(b, "verify") EXCEPT !.got = bank] IN
       IF ~Sealable(b) THEN Return(b) /\ UNCHANGED <<row, unmoved>>
       ELSE IF Seen(b).verifier = "Started"
       THEN Goto(b, onward) /\ UNCHANGED <<row, unmoved, current>>
       ELSE IF bank = "Absent"
       THEN Swap(b, Touched([Seen(b) EXCEPT !.verifier = "Started"]), onward)
       ELSE Return(b) /\ UNCHANGED <<row, unmoved>>
    /\ UNCHANGED <<log, disk, world, holder>>

\* verify_and_publish: into the bank when nothing was current, else into a
\* disposable bank whose bundle must be the current one.
Verify(b) ==
    /\ At(b, "verify")
    /\ \E verdict \in {"Pass", "Fail", "Rejected"} :
         /\ bank' = IF call[b].got = "Absent" /\ bank = "Absent" /\ verdict # "Rejected"
                    THEN verdict ELSE bank
         /\ IF verdict # "Pass"
            THEN /\ Goto(b, Ending(b, "Failed", "FailureRecorded", "last"))
                 /\ UNCHANGED current
            ELSE IF IF call[b].got = "Absent" THEN bank = "Absent"
                    ELSE call[b].got \in {"Pass", "Stale"}
            THEN Goto(b, Step(b, "observe")) /\ UNCHANGED current
            ELSE Return(b)
    /\ UNCHANGED <<row, log, disk, expired, invoked, holder, unmoved>>

\* authoritative_publication re-reads what was published.
Observe(b) ==
    /\ At(b, "observe")
    /\ IF call[b].got = "Absent" /\ bank # "Pass"
       THEN Return(b) /\ UNCHANGED <<row, unmoved>>
       ELSE Swap(b, Touched([Seen(b) EXCEPT !.verifier =
                               IF call[b].got = "Stale" THEN "ObservedStale"
                               ELSE "Observed"]),
                 Step(b, "admit"))
    /\ UNCHANGED <<log, disk, world, holder>>

\* Fault: a cancellation that is pending does not win.
AdmittedRowRegardless(r) ==
    Moved([r EXCEPT !.verifier = "Admitted"], "Reviewing",
          "VerificationEvidenceAccepted")

\* The state admit_observed_publication stores under the bank's lease.
AdmittedRow(r) ==
    IF r.cancelled THEN Moved(r, "Cancelled", "CancellationAccepted")
    ELSE Moved([r EXCEPT !.verifier = "Admitted"], "Reviewing",
               "VerificationEvidenceAccepted")

Observed(b) ==
    bank = IF Seen(b).verifier = "Observed" THEN "Pass" ELSE "Stale"

\* Anything but the observed bundle, its capabilities and a row nobody has
\* moved fails the run; evidence observed stale is an error of the lease.
Admit(b) ==
    /\ At(b, "admit")
    /\ \E fits \in IF "registry" \in Faults THEN BOOLEAN ELSE {TRUE} :
       IF Observed(b) /\ bank = "Stale"
       THEN Return(b) /\ UNCHANGED <<row, unmoved>>
       ELSE IF /\ Observed(b) /\ fits
               /\ Seen(b).pending = None
               /\ ChainIntact(log) /\ Cursor(log) = Seen(b).projected
               /\ b \in current
       THEN Swap(b, AdmittedRow(Seen(b)), [Step(b, "look") EXCEPT !.then = "closeRoot"])
       ELSE /\ Goto(b, Closing(b, "Failed", "FailureRecorded"))
            /\ UNCHANGED <<row, unmoved, current>>
    /\ UNCHANGED <<log, disk, world, holder>>

Verifier(b) ==
    Seal(b) \/ StartVerifier(b) \/ Reseal(b) \/ Verify(b) \/ Observe(b) \/ Admit(b)

-----------------------------------------------------------------------------
(* The end of a drive.                                                     *)

\* close_lease, whose refusal ends the call.
CloseRoot(b) ==
    /\ At(b, "closeRoot")
    /\ CloseOwned(b)
    /\ IF CanClose(row, lease[b], b \in unmoved)
       THEN Goto(b, Step(b, "closeRow")) /\ UNCHANGED current
       ELSE Return(b)
    /\ UNCHANGED <<row, log, opened, writes, world, holder, unmoved>>

\* close_durable_workspace, after the root is gone.
CloseRow(b) ==
    /\ At(b, "closeRow")
    /\ Swap(b, [Seen(b) EXCEPT !.closed = TRUE, !.cleanup = FALSE],
            Step(b, IF call[b].end # None /\ call[b].end.tidy = "first"
                    THEN "finish" ELSE "done"))
    /\ UNCHANGED <<log, disk, world, holder>>

\* transition_with_event.
Finish(b) ==
    /\ At(b, "finish")
    /\ LET end == call[b].end
           onward == IF end.tidy = "last" THEN "closeRoot"
                     ELSE IF end.to = "Verifying" THEN "startVerifier" ELSE "done"
       IN  IF /\ Seen(b).pending = None
              /\ ChainIntact(log) /\ Cursor(log) = Seen(b).projected
              /\ transition_allowed(Seen(b).phase, end.trigger, end.to)
           THEN Swap(b, Moved(Seen(b), end.to, end.trigger),
                     [Step(b, "look") EXCEPT !.then = onward])
           ELSE Return(b) /\ UNCHANGED <<row, unmoved>>
    /\ UNCHANGED <<log, disk, world, holder>>

Closure(b) == CloseRoot(b) \/ CloseRow(b) \/ Finish(b)

-----------------------------------------------------------------------------
(* request_cancellation and heartbeat.                                     *)

StartVisit(v) ==
    /\ Free(v) /\ row # None
    /\ \E errand \in Errands :
         Goto(v, [Idle EXCEPT !.at = "look", !.then = errand, !.copy = row])
    /\ current' = current \union {v}
    /\ UNCHANGED <<row, log, disk, world, holder, unmoved>>

RequestCancellation(v) ==
    /\ At(v, "request")
    /\ IF Seen(v).phase \in Terminal \/ Seen(v).cancelled
       THEN Return(v) /\ UNCHANGED <<row, unmoved>>
       ELSE Swap(v, Touched([Seen(v) EXCEPT !.cancelled = TRUE]), Idle)
    /\ UNCHANGED <<log, disk, world, holder>>

Heartbeat(v) ==
    /\ At(v, "beat")
    /\ IF Seen(v).phase \in Terminal \/ Seen(v).closed \/ Seen(v).cleanup \/ expired
       THEN Return(v) /\ UNCHANGED <<row, unmoved>>
       ELSE Swap(v, Touched(Seen(v)), Idle)
    /\ UNCHANGED <<log, disk, world, holder>>

-----------------------------------------------------------------------------
(* What else happens.                                                      *)

Forget(b) ==
    /\ Return(b)
    /\ lease' = [lease EXCEPT ![b] = NoLease]
    /\ unmoved' = unmoved \ {b}
    /\ holder' = IF holder = b THEN Nobody ELSE holder

\* The process dies; the next one has a new instance and an empty registry.
Crash(b) ==
    /\ "crash" \in Faults
    /\ Forget(b)
    /\ UNCHANGED <<row, log, root, opened, writes, world>>

\* It dies inside the write: the file is neither the old one nor the new.
TearWrite(b) ==
    /\ "torn" \in Faults
    /\ Executing(b) /\ NextEffect(b) = "write"
    /\ Active(lease[b]) /\ Requested(row, lease[b], b \in unmoved, Seen(b))
    /\ Admitted(lease[b], root[lease[b].ws], expired)
    /\ root' = [root EXCEPT ![lease[b].ws] = "other"]
    /\ Forget(b)
    /\ UNCHANGED <<row, log, opened, writes, world>>

\* Between two drives the broker is dropped, and another takes its place.
DropBroker(b) ==
    /\ "drop" \in Faults
    /\ At(b, "idle") /\ lease[b] # NoLease
    /\ root' = IF DropRemoves(row, lease[b], b \in unmoved)
               THEN [root EXCEPT ![lease[b].ws] = "absent"] ELSE root
    /\ Forget(b)
    /\ UNCHANGED <<row, log, opened, writes, world>>

\* Somebody outside empties the directory of the private roots.
SweepRoot(w) ==
    /\ "sweep" \in Faults
    /\ root[w] # "absent"
    /\ root' = [root EXCEPT ![w] = "absent"]
    /\ UNCHANGED <<row, log, opened, lease, writes, world, holder, unmoved, current, call>>

\* Another writer of the execution row: its lifecycle part moves on.
LifecycleCommit ==
    /\ "lifecycle" \in Faults
    /\ current' = {} /\ unmoved' = {}
    /\ UNCHANGED <<row, log, disk, world, holder, call>>

Expire ==
    /\ "expiry" \in Faults
    /\ expired' = TRUE
    /\ UNCHANGED <<row, log, disk, bank, invoked, holder, unmoved, current, call>>

\* Another publisher's bundle becomes current, or this one is marked stale.
Supersede ==
    /\ "bank" \in Faults
    /\ \/ bank' = "Other"
       \/ bank = "Pass" /\ bank' = "Stale"
    /\ UNCHANGED <<row, log, disk, expired, invoked, holder, unmoved, current, call>>

DriveStep(b) ==
    \/ Reconcile(b) \/ OpenLease(b) \/ GiveUp(b) \/ Install(b) \/ Resume(b)
    \/ Executor(b) \/ Effects(b) \/ Verifier(b) \/ Closure(b)

VisitStep(v) == Reconcile(v) \/ RequestCancellation(v) \/ Heartbeat(v)

Disturbance ==
    \/ \E b \in Brokers : Crash(b) \/ TearWrite(b) \/ DropBroker(b)
    \/ \E w \in Workspaces : SweepRoot(w)
    \/ LifecycleCommit \/ Expire \/ Supersede

Next ==
    \/ \E b \in Brokers : StartDrive(b) \/ DriveStep(b)
    \/ \E v \in Visitors : StartVisit(v) \/ VisitStep(v)
    \/ Disturbance

Spec == Init /\ [][Next]_vars

\* A call runs on to its end once it was made: drive, request_cancellation
\* and heartbeat are synchronous and wait for nobody.
FairSpec ==
    /\ Spec
    /\ \A b \in Brokers : WF_vars(DriveStep(b))
    /\ \A v \in Visitors : WF_vars(VisitStep(v))
-----------------------------------------------------------------------------
(* Properties.                                                             *)

\* The row, the log, the disk and the calls keep their types: a phase change
\* never leaves a state that the validators of the row would refuse.
TypeOK ==
    /\ row \in Rows \union {None}
    /\ row # None => Valid(row)
    /\ log \in Seq(Events)
    /\ root \in [Workspaces -> Roots] /\ opened \in 0..MaxOpens
    /\ bank \in Bank /\ expired \in BOOLEAN /\ holder \in Brokers \union {Nobody}
    /\ lease \in [Brokers -> Leases \union {NoLease}]
    /\ current \subseteq Callers /\ unmoved \subseteq Brokers
    /\ call \in [Callers -> Calls]
    /\ invoked \in [1..MaxAttempts -> Nat] /\ writes \in [Workspaces -> Nat]

\* The executor is called at most once for an attempt, however many brokers
\* drive the run, crash and resume it: only who stores Started calls, and a
\* Started that is found again ends the run.
InvokedOncePerAttempt == \A n \in 1..MaxAttempts : invoked[n] <= 1

\* The planned write reaches a workspace at most once, however often the
\* effect is interrupted between the prepared row and its receipt, resumed
\* and reconciled; and only a workspace of a run that was told to.
WriteAppliedOnce ==
    \A w \in Workspaces :
        /\ writes[w] <= 1
        /\ root[w] = "after" => writes[w] = 1

\* The row explains its workspace: a recorded write is on the disk unless
\* the workspace is gone, a write on the disk is recorded or prepared, and a
\* workspace recorded as closed is gone.
DiskIsExplained ==
    row # None =>
        /\ Snapshot(row) = "after" => root[row.ws] \in {"after", "absent"}
        /\ root[row.ws] = "after" => Snapshot(row) = "after" \/ row.prepared
        /\ row.closed => root[row.ws] = "absent"

\* A fence that was taken over keeps its former broker away from the root:
\* who changes it holds a lease of the row's epoch.
Acts(b) == call'[b] # call[b] \/ lease'[b] # lease[b]
Fenced ==
    \A w \in Workspaces :
        row # None /\ row.ws = w /\ root'[w] # root[w] =>
            \E b \in Brokers : /\ Acts(b) /\ lease[b] # NoLease
                               /\ lease[b].ws = w /\ lease[b].epoch = row.epoch
StaleBrokerIsFenced == [][Fenced]_vars

\* A run enters Reviewing only on evidence that passed and is the current
\* one at that moment, with every planned effect recorded and no
\* cancellation pending; what has ended stays as it ended.
Earned ==
    /\ row' # None /\ row'.phase = "Reviewing" /\ (row = None \/ row.phase # "Reviewing") =>
         /\ bank = "Pass"
         /\ row # None /\ row.phase = "Verifying" /\ ~row.cancelled
         /\ EffectsComplete(row) /\ ~row.prepared
    /\ row # None /\ row.phase \in Terminal =>
         row' # None /\ row'.phase = row.phase /\ row'.ledger = row.ledger
AdmissionIsEarned == [][Earned]_vars

\* No phase of the run is missing from its log and none is made up: the
\* events of the log are those the row froze, each is preceded by the one
\* before it, and all that were acknowledged are there.
Acknowledgements == IF row = None \/ row.projected = None THEN 0 ELSE row.projected.revision
EveryPhaseIsLogged ==
    /\ \A n \in 1..Acknowledgements : \E i \in DOMAIN log : log[i].revision = n
    /\ \A i, j \in DOMAIN log : log[i].revision = log[j].revision => log[i] = log[j]
    /\ row # None =>
         /\ \A i \in DOMAIN log : log[i].revision <= row.revision
         /\ row.pending # None => row.pending.revision = Acknowledgements + 1

\* A run in Reviewing, its event projected and its workspace closed, is what
\* the independent review starts from: the review accepts its chain.
ReviewingIsReadyForReview ==
    /\ row # None /\ row.phase = "Reviewing" /\ row.pending = None /\ row.closed
    /\ \A b \in Brokers : At(b, "idle")
    => ReviewingChainAccepted(log, row)

\* Every call of drive, request_cancellation and heartbeat returns.
CallReturns == \A c \in Callers : ~At(c, "idle") ~> At(c, "idle")
=============================================================================
