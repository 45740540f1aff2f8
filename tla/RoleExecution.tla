----------------------------- MODULE RoleExecution -----------------------------
(***************************************************************************)
(* The control plane: one role invokes another, an executor answers each   *)
(* attempt, and the journal of the invocation is replayed from its events  *)
(* and its result (rust/ovca-types/src/control_plane.rs, with              *)
(* rust/ovca-runtime-core/src/role_executor.rs and the record that         *)
(* engineer_verifier.rs keeps of an answer).  The functions are pure.      *)
(*                                                                         *)
(* An invocation stands for its identifier with its digest, so an event or *)
(* a result carries the invocation it is bound to.                         *)
(***************************************************************************)
EXTENDS Foundation

CONSTANT MaxUnits     \* the largest number of usage units, u64::MAX

RolePairs ==
    {<<"owner", "coordinator">>}
      \union {"coordinator"} \X {"engineer", "reviewer", "auditor"}

\* validate_role_pair
RolePairFits(invoker, target) ==
    /\ invoker.id # target.id
    /\ <<invoker.role, target.role>> \in RolePairs

\* validate_full_scope
ScopeIsFull(i) ==
    /\ ScopeValid(i.scope)
    /\ i.scope.goal # None
    /\ i.scope.task = i.task
    /\ i.scope.run = i.run

\* ExecutionBudget::validate
BudgetValid(budget) == budget > 0

AuthorityFits(i) ==
    /\ AuthorityValid(i.authority)
    /\ i.authority.namespace = "code_review"
    /\ i.authority.principal = i.invoker
    /\ i.authority.scope = i.scope
    /\ i.authority.validity.status = "active"
    /\ Covers(i.authority.validity, i.invoked_at)

\* RoleInvocationV1::validate
InvocationValid(i) ==
    /\ BudgetValid(i.budget)
    /\ RolePairFits(i.invoker, i.target)
    /\ ScopeIsFull(i)
    /\ AuthorityFits(i)

-----------------------------------------------------------------------------
(* Results.                                                                *)

Ended == {"completed", "failed", "cancelled"}

\* RoleResultPayloadV1::validate: a decision names its producer.
PayloadValid(payload) ==
    payload.type \in {"reviewer", "auditor"} => payload.by = payload.type

\* validate_result_payload
PayloadFits(state, role, payload) ==
    \/ state = "completed" /\ role = "coordinator" /\ payload.type = "owner_final"
    \/ /\ state = "completed" /\ role \in {"engineer", "reviewer", "auditor"}
       /\ payload.type = "specialist"
    \/ /\ state = "completed" /\ role \in {"reviewer", "auditor"}
       /\ payload.type = role
    \/ state = "failed" /\ payload.type = "failure"
    \/ state = "cancelled" /\ payload.type = "cancellation"

\* validate_evidence
EvidenceFits(evidence, required) ==
    /\ required => evidence # <<>>
    /\ Ascending(evidence)

\* RoleResultV1::validate_shape
ResultShaped(res) ==
    /\ ScopeValid(res.scope)
    /\ res.attempt > 0
    /\ res.state \in Ended
    /\ PayloadValid(res.payload)
    /\ EvidenceFits(res.evidence, res.state = "completed")

\* RoleResultV1::validate_against
ResultValid(res, i) ==
    /\ InvocationValid(i)
    /\ ResultShaped(res)
    /\ res.invocation = i
    /\ res.producer = i.target
    /\ res.task = i.task /\ res.run = i.run /\ res.scope = i.scope
    /\ res.key = i.key
    /\ res.attempt <= i.budget
    /\ res.at >= i.invoked_at
    /\ PayloadFits(res.state, res.producer.role, res.payload)

\* TryFrom<&RoleResultV1> for CoordinatorFinalResponse
FinalResponse(res) ==
    IF /\ ResultShaped(res)
       /\ res.payload.type = "owner_final"
       /\ res.state = "completed"
       /\ res.producer.role = "coordinator"
    THEN [evidence |-> res.evidence] ELSE None

\* TryFrom<&RoleResultV1> for SpecialistOutput
SpecialistOutput(res) ==
    IF /\ ResultShaped(res)
       /\ res.payload.type = "specialist"
       /\ res.state = "completed"
       /\ LegacyRole(res.producer.role) \notin {None, "coordinator"}
    THEN [task |-> res.task, role |-> res.producer.role, evidence |-> res.evidence]
    ELSE None

-----------------------------------------------------------------------------
(* The journal of an invocation.                                           *)

\* validate_shape and attempts_within_budget of the payload.
AttemptsFit(e, budget) ==
    CASE e.kind = "submitted" -> TRUE
      [] e.kind = "retry" -> e.attempt \in 1..budget /\ e.next \in 1..budget
      [] OTHER -> e.attempt \in 1..budget

\* ControlPlaneEvent::validate_against
EventValid(e, i) ==
    /\ InvocationValid(i)
    /\ EnvelopeValid(e)
    /\ e.scope = i.scope
    /\ e.invocation = i
    /\ AttemptsFit(e, i.budget)
    /\ e.producer = IF e.kind = "submitted" THEN i.invoker ELSE i.target
    /\ e.at >= i.invoked_at

\* Fault: an event is taken for the next one by its number alone.
FollowsByNumber(events, n) ==
    /\ \A m \in 1..(n - 1) : events[m].id # events[n].id
    /\ events[n].sequence = n - 1
    /\ n > 1 => events[n - 1].at <= events[n].at

\* The event is new, and the n-th of one linked chain.
Follows(events, n) ==
    /\ \A m \in 1..(n - 1) : events[m].id # events[n].id
    /\ events[n].sequence = n - 1
    /\ events[n].previous = IF n = 1 THEN None ELSE events[n - 1].id
    /\ n > 1 => events[n - 1].at <= events[n].at

\* validate_terminal_result: the one result is the one the event binds.
ResultBound(i, e, results) ==
    /\ Len(results) = 1
    /\ LET res == results[1] IN
         /\ ResultValid(res, i)
         /\ res.state = e.kind
         /\ res.attempt = e.attempt
         /\ e.result = res
         /\ res.at <= e.at

\* What the replay knows: the state, and the attempt that is due or under way.
NewView == [state |-> "none", attempt |-> 1]

Reaches(i, results, view, e) ==
    CASE e.kind = "submitted" -> view.state = "none"
      [] e.kind = "started" -> view.state = "pending" /\ e.attempt = view.attempt
      [] e.kind = "retry" ->
           /\ view.state = "running" /\ e.attempt = view.attempt
           /\ e.next = e.attempt + 1
      [] e.kind \in {"completed", "failed"} ->
           /\ view.state = "running" /\ e.attempt = view.attempt
           /\ ResultBound(i, e, results)
      [] e.kind = "cancelled" ->
           /\ view.state \in {"pending", "running"} /\ e.attempt = view.attempt
           /\ ResultBound(i, e, results)

Reached(view, e) ==
    CASE e.kind = "submitted" -> [state |-> "pending", attempt |-> 1]
      [] e.kind = "started" -> [view EXCEPT !.state = "running"]
      [] e.kind = "retry" -> [state |-> "pending", attempt |-> e.next]
      [] OTHER -> [view EXCEPT !.state = e.kind]

ResultsNamed(results) ==
    \A m, n \in 1..Len(results) : results[m].id = results[n].id => m = n

\* validate_control_plane_replay: the state, or None.
ReplayOf(i, events, results) ==
    LET view[n \in 0..Len(events)] ==
          IF n = 0 THEN NewView
          ELSE LET before == view[n - 1]
                   e == events[n]
               IN  IF /\ before # None
                      /\ EventValid(e, i) /\ Follows(events, n)
                      /\ Reaches(i, results, before, e)
                   THEN Reached(before, e) ELSE None
        last == view[Len(events)]
    IN  IF /\ InvocationValid(i) /\ events # <<>> /\ ResultsNamed(results)
           /\ last # None
           /\ Len(results) = IF last.state \in Ended THEN 1 ELSE 0
        THEN last.state ELSE None

-----------------------------------------------------------------------------
(* The executor and what is recorded of its answer.                        *)

\* RoleExecutionRequest::validate
RequestValid(request) ==
    /\ InvocationValid(request.invocation)
    /\ request.invocation.authority.profile.write_keys = <<>>
    /\ request.attempt \in 1..request.invocation.budget

\* RoleExecutionUsage::total_units
UsageFits(usage) == usage = None \/ usage.input + usage.output <= MaxUnits

RetryFits(request, outcome) ==
    /\ outcome.completed = request.attempt
    /\ outcome.next = request.attempt + 1
    /\ outcome.next <= request.invocation.budget

StateOf(type) ==
    CASE type = "completed" -> "completed"
      [] type \in {"failed", "timed_out"} -> "failed"
      [] type = "cancelled" -> "cancelled"

\* validate_terminal_result of role_executor.rs.
TerminalFits(request, outcome) ==
    LET res == outcome.result IN
    /\ ResultValid(res, request.invocation)
    /\ res.attempt = request.attempt
    /\ res.state = StateOf(outcome.type)
    /\ outcome.type \in {"failed", "timed_out"} =>
         (outcome.type = "timed_out" <=> res.payload.code = "execution_timeout")

\* RoleExecutionOutcome::validate_against
OutcomeValid(request, outcome) ==
    /\ RequestValid(request)
    /\ UsageFits(outcome.usage)
    /\ IF outcome.type = "retry" THEN RetryFits(request, outcome)
       ELSE TerminalFits(request, outcome)

\* PersistedRoleExecutionOutcomeV1::validate_against: the same but for the
\* code that tells a timeout from a failure.
RecordValid(request, outcome) ==
    /\ RequestValid(request)
    /\ UsageFits(outcome.usage)
    /\ IF outcome.type = "retry" THEN RetryFits(request, outcome)
       ELSE LET res == outcome.result IN
            /\ ResultValid(res, request.invocation)
            /\ res.attempt = request.attempt
            /\ res.state = StateOf(outcome.type)

\* ExecutorCallStateV1::validate, for the attempt the execution is bound to.
CallRecordValid(call, request) ==
    CASE call.state = "not_started" -> TRUE
      [] call.state = "started" -> call.request = request
      [] call.state = "recorded" ->
           /\ call.request = request
           /\ call.started_at <= call.recorded_at
           /\ RecordValid(request, call.outcome)

\* InvocationBinding and ScriptKey.
Binding(request) ==
    [invocation |-> request.invocation, key |-> request.invocation.key]
ScriptKey(request) == <<request.invocation.key, request.attempt>>

\* Fault: an invocation identifier may be bound twice.
BoundOtherwiseByKey(table, request) ==
    \E entry \in table :
        /\ entry.request.invocation.key = request.invocation.key
        /\ Binding(entry.request) # Binding(request)

\* bindings_by_key and bindings_by_invocation_id know another binding.
BoundOtherwise(table, request) ==
    \E entry \in table :
        /\ \/ entry.request.invocation.key = request.invocation.key
           \/ entry.request.invocation.id = request.invocation.id
        /\ Binding(entry.request) # Binding(request)

Scripted(table, request) ==
    {entry \in table : ScriptKey(entry.request) = ScriptKey(request)}

\* DeterministicFakeRoleExecutor::try_new: the table of scripts, or None.
TryNew(scripts) ==
    LET table[n \in 0..Len(scripts)] ==
          IF n = 0 THEN {}
          ELSE LET before == table[n - 1]
                   script == scripts[n]
               IN  IF /\ before # None
                      /\ OutcomeValid(script.request, script.outcome)
                      /\ Scripted(before, script.request) = {}
                      /\ ~BoundOtherwise(before, script.request)
                   THEN before \union {script} ELSE None
    IN  table[Len(scripts)]

\* RoleExecutor::invoke: the outcome, or None.
Invoke(table, request) ==
    LET entries == Scripted(table, request) IN
    IF /\ RequestValid(request)
       /\ ~BoundOtherwise(table, request)
       /\ \E entry \in entries : entry.request = request
    THEN (CHOOSE entry \in entries : entry.request = request).outcome
    ELSE None
=============================================================================
