------------------------- MODULE EngineerVerifierState -------------------------
(***************************************************************************)
(* The Engineer-to-Verifier projection of an execution row                 *)
(* (ovca-runtime-core, engineer_verifier.rs): what a state may hold, which *)
(* state may follow which, and the phase event that is frozen with a       *)
(* transition.  Pure: the controller, the broker and the store act on it   *)
(* in EngineerVerifier.                                                    *)
(*                                                                         *)
(* Digests stand for what they are computed from: two states of one run    *)
(* have the same execution binding iff they have the same attempt, and the *)
(* snapshot of a workspace is told by whether its one write is recorded.   *)
(* The bridge and the replay plan are persisted together with the          *)
(* verifier's first state, so `verifier' stands for the three.             *)
(***************************************************************************)
EXTENDS Integers, Sequences

CONSTANTS
    Plan,         \* the planned effects, a sequence of "read" and "write"
    MaxAttempts,  \* budget.max_attempts of the invocation
    None

\* EngineerLogicalPlanV1::validate: at most one write, and it is the last.
PlanFits(plan) ==
    /\ plan \in Seq({"read", "write"})
    /\ \A i \in DOMAIN plan : plan[i] = "write" => i = Len(plan)

ASSUME PlanIsOrdered == PlanFits(Plan)

ASSUME AttemptsAreCounted == MaxAttempts \in Nat \ {0}

Terminal == {"Reviewing", "Failed", "Cancelled"}
Phases == {"Engineering", "RetryPending", "Verifying"} \union Terminal

Triggers == {"ClaimAccepted", "CancellationAccepted", "EngineerCompleted",
             "ExecutorOutcomeUnknown", "RetryRequired", "RetryClaimAccepted",
             "RetryExhausted", "FailureRecorded", "VerificationEvidenceAccepted"}

Outcomes == {"Completed", "Failed", "TimedOut", "Cancelled", "RetryRequired"}
ExecutorStates == {"NotStarted", "Started"} \union Outcomes
\* An observed publication names the current it saw, which may be stale.
VerifierStates == {"None", "NotStarted", "Started", "Observed", "ObservedStale",
                   "Admitted"}
Resolutions == {"Read", "Written", "Reconciled", "Denied"}

Events == [from : Phases \union {"Planned"}, to : Phases, trigger : Triggers,
           revision : Nat, attempt : 1..MaxAttempts, seq : Nat]

\* EngineerVerifierStateV1.  `projected' is the last phase event known to be
\* in the log, `stamped' whether controller_time is still that event's time,
\* `ws' and `epoch' the workspace authority with its fence.
Rows == [phase : Phases, revision : Nat, attempt : 1..MaxAttempts,
         executor : ExecutorStates, ledger : Seq(Resolutions),
         prepared : BOOLEAN, result : BOOLEAN, cancelled : BOOLEAN,
         pending : Events \union {None}, projected : Events \union {None},
         stamped : BOOLEAN, verifier : VerifierStates,
         ws : Nat, epoch : Nat, cleanup : BOOLEAN, closed : BOOLEAN]

transition_allowed(from, trigger, to) ==
    <<from, trigger, to>> \in
      {<<"Planned", "ClaimAccepted", "Engineering">>,
       <<"Engineering", "EngineerCompleted", "Verifying">>,
       <<"Engineering", "RetryRequired", "RetryPending">>,
       <<"Engineering", "ExecutorOutcomeUnknown", "Failed">>,
       <<"Engineering", "FailureRecorded", "Failed">>,
       <<"RetryPending", "RetryClaimAccepted", "Engineering">>,
       <<"RetryPending", "RetryExhausted", "Failed">>,
       <<"Verifying", "VerificationEvidenceAccepted", "Reviewing">>,
       <<"Verifying", "FailureRecorded", "Failed">>}
      \union {<<p, "CancellationAccepted", "Cancelled">> :
                p \in {"Planned", "Engineering", "RetryPending", "Verifying"}}

-----------------------------------------------------------------------------
(* Parts of a state.                                                       *)

EffectsComplete(r) ==
    /\ Len(r.ledger) = Len(Plan)
    /\ \A i \in DOMAIN r.ledger : r.ledger[i] # "Denied"

\* What current_snapshot holds: the workspace after its write, or before it.
Snapshot(r) ==
    IF \E i \in DOMAIN r.ledger : r.ledger[i] \in {"Written", "Reconciled"}
    THEN "after" ELSE "before"

Extends(long, short) ==
    /\ Len(long) >= Len(short)
    /\ SubSeq(long, 1, Len(short)) = short

LedgerValid(r) ==
    /\ Len(r.ledger) <= Len(Plan)
    /\ \A i \in DOMAIN r.ledger : r.ledger[i] = "Denied" => i = Len(r.ledger)

\* A retry needs an attempt left, or the outcome cannot be recorded.
ExecutorValid(r) == r.executor = "RetryRequired" => r.attempt < MaxAttempts

PreparedValid(r) ==
    r.prepared => /\ Len(r.ledger) < Len(Plan)
                  /\ Plan[Len(r.ledger) + 1] = "write"

\* An Engineering state may have lost its workspace only on its way out.
EngineeringValid(r) ==
    r.closed => /\ r.ledger = << >>
                /\ ~r.prepared
                /\ \/ r.cancelled
                   \/ r.executor \in {"Started", "RetryRequired", "Failed",
                                      "TimedOut", "Cancelled"}

PhaseValid(r) ==
    CASE r.phase = "Engineering" -> EngineeringValid(r)
      [] r.phase = "RetryPending" -> r.closed /\ r.ledger = << >> /\ ~r.prepared
      [] r.phase = "Verifying" ->
           r.result /\ EffectsComplete(r) /\ ~r.prepared /\ r.verifier # "None"
      [] r.phase = "Reviewing" ->
           r.result /\ EffectsComplete(r) /\ ~r.prepared /\ r.verifier = "Admitted"
      [] OTHER -> TRUE

Valid(r) ==
    /\ r.attempt <= MaxAttempts
    /\ ~(r.closed /\ r.cleanup)
    /\ LedgerValid(r) /\ ExecutorValid(r) /\ PreparedValid(r) /\ PhaseValid(r)

-----------------------------------------------------------------------------
(* The phase event frozen with a transition, and the claim that starts.    *)

\* transition_state and attach_pending_projection.
Moved(r, to, trigger) ==
    [r EXCEPT
       !.phase = to, !.revision = @ + 1, !.stamped = TRUE,
       !.pending = [from |-> r.phase, to |-> to, trigger |-> trigger,
                    revision |-> r.revision + 1, attempt |-> r.attempt,
                    seq |-> IF r.projected = None THEN 0 ELSE r.projected.seq + 1]]

\* EngineerVerifierStateV1::planned with the workspace and claim of drive_fresh.
Planned(ws, cursor) ==
    [phase |-> "Planned", revision |-> 0, attempt |-> 1,
     executor |-> "NotStarted", ledger |-> << >>,
     prepared |-> FALSE, result |-> FALSE, cancelled |-> FALSE,
     pending |-> None, projected |-> cursor, stamped |-> FALSE,
     verifier |-> "None", ws |-> ws, epoch |-> 1,
     cleanup |-> FALSE, closed |-> FALSE]

\* What claim_retry puts in the place of a finished attempt.
Retried(r, ws) ==
    [r EXCEPT
       !.attempt = @ + 1, !.executor = "NotStarted", !.ledger = << >>,
       !.prepared = FALSE, !.result = FALSE, !.verifier = "None",
       !.ws = ws, !.epoch = 1, !.cleanup = FALSE, !.closed = FALSE]

InitialInstall(next) ==
    /\ next.phase = "Engineering" /\ next.revision = 1 /\ next.attempt = 1
    /\ next.executor = "NotStarted" /\ next.ledger = << >>
    /\ ~next.prepared /\ ~next.result /\ ~next.cancelled
    /\ ~next.closed /\ ~next.cleanup
    /\ next.verifier = "None"
    /\ next.pending # None
    /\ next.pending.from = "Planned"

-----------------------------------------------------------------------------
(* Which state may follow which (validate_successor and its parts).        *)

PendingFits(from, next) ==
    /\ next.pending # None
    /\ next.pending.from = from /\ next.pending.to = next.phase
    /\ next.pending.revision = next.revision
    /\ next.pending.attempt = next.attempt
    /\ transition_allowed(from, next.pending.trigger, next.phase)

PhaseSuccessor(r, next) ==
    /\ r.projected = next.projected
    /\ IF r.phase # next.phase
       THEN /\ r.phase \notin Terminal
            /\ next.revision = r.revision + 1
            /\ PendingFits(r.phase, next)
       ELSE /\ next.revision = r.revision
            /\ next.pending = None

ExecutorSuccessor(r, next) ==
    \/ r.executor = next.executor
    \/ r.executor = "NotStarted" /\ next.executor = "Started"
    \/ r.executor = "Started" /\ next.executor \in Outcomes

VerifierSuccessor(r, next) ==
    \/ r.verifier = next.verifier
    \/ <<r.verifier, next.verifier>> \in
         {<<"None", "NotStarted">>, <<"NotStarted", "Started">>,
          <<"Started", "Observed">>, <<"Started", "ObservedStale">>,
          <<"Observed", "Admitted">>, <<"ObservedStale", "Admitted">>}

PreparedSuccessor(r, next) ==
    \/ r.prepared = next.prepared
    \/ ~r.prepared /\ r.ledger = next.ledger
    \/ /\ r.prepared
       /\ \/ Len(next.ledger) = Len(r.ledger) + 1
          \/ next.phase = "Cancelled"

WorkspaceSuccessor(r, next) ==
    /\ r.ws = next.ws
    /\ r.closed => next.closed
    /\ r.cleanup => next.cleanup \/ next.closed
    /\ \/ next.epoch = r.epoch
       \/ /\ next.epoch = r.epoch + 1
          /\ Snapshot(next) = Snapshot(r)
          /\ next.cleanup = r.cleanup /\ next.closed = r.closed
    /\ Snapshot(next) # Snapshot(r) => Len(next.ledger) = Len(r.ledger) + 1

\* The executor's record and the cancellation each change alone.
ChangesAlone(r, next) ==
    LET rest(s) == <<s.phase, s.ledger, s.prepared, s.result, s.verifier,
                     s.ws, s.epoch, s.cleanup, s.closed>>
    IN  /\ r.executor # next.executor =>
             rest(r) = rest(next) /\ r.cancelled = next.cancelled
        /\ r.cancelled # next.cancelled =>
             rest(r) = rest(next) /\ r.executor = next.executor

RetrySuccessor(r, next) ==
    /\ r.phase = "RetryPending" /\ next.phase = "Engineering"
    /\ next.attempt = r.attempt + 1
    /\ r.closed /\ ~r.cleanup /\ ~next.closed /\ ~next.cleanup
    /\ r.executor = "RetryRequired" /\ next.executor = "NotStarted"
    /\ next.ledger = << >> /\ ~next.prepared /\ ~next.result
    /\ next.verifier = "None"
    /\ r.cancelled = next.cancelled

Acknowledged(r) == [r EXCEPT !.pending = None, !.projected = r.pending]

Successor(r, next) ==
    IF r.pending # None THEN next = Acknowledged(r)
    ELSE /\ PhaseSuccessor(r, next)
         /\ IF next.attempt # r.attempt THEN RetrySuccessor(r, next)
            ELSE /\ Extends(next.ledger, r.ledger)
                 /\ Len(next.ledger) <= Len(r.ledger) + 1
                 /\ r.result => next.result
                 /\ r.cancelled => next.cancelled
                 /\ ExecutorSuccessor(r, next) /\ ChangesAlone(r, next)
                 /\ VerifierSuccessor(r, next)
                 /\ PreparedSuccessor(r, next) /\ WorkspaceSuccessor(r, next)

\* What compare_and_swap_engineer_verifier asks of the state it is given.
Accepts(r, next) ==
    /\ Valid(next)
    /\ IF r = None THEN InitialInstall(next) ELSE Valid(r) /\ Successor(r, next)

-----------------------------------------------------------------------------
(* The run's event log.                                                    *)

\* validate_run_chain: every event is where its sequence says.
ChainIntact(log) == \A i \in DOMAIN log : log[i].seq = i - 1

\* current_run_cursor.
Cursor(log) == IF log = << >> THEN None ELSE log[Len(log)]

Logged(log, event) == \E i \in DOMAIN log : log[i] = event

PairFits(prior, next) ==
    /\ next.revision = prior.revision + 1
    /\ next.from = prior.to
    /\ next.attempt = IF next.trigger = "RetryClaimAccepted"
                      THEN prior.attempt + 1 ELSE prior.attempt
    /\ next.attempt = prior.attempt          \* execution_binding_digest

\* validate_terminal_reviewing_projection_chain: what the review asks for.
ReviewingChainAccepted(log, r) ==
    /\ Valid(r) /\ r.phase = "Reviewing" /\ r.pending = None
    /\ ChainIntact(log)
    /\ r.projected # None /\ Logged(log, r.projected)
    /\ LET last == r.projected.seq + 1 IN
       /\ log[1].from = "Planned" /\ log[1].to = "Engineering"
       /\ log[1].trigger = "ClaimAccepted" /\ log[1].revision = 1
       /\ log[1].attempt = 1
       /\ log[1].attempt = r.attempt         \* execution_binding_digest
       /\ \A i \in 1..(last - 1) : PairFits(log[i], log[i + 1])
       /\ log[last].to = "Reviewing" /\ log[last].revision = r.revision
       /\ log[last].attempt = r.attempt
       /\ r.stamped
=============================================================================
