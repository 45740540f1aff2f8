------------------------- MODULE CompletionAdmission -------------------------
(***************************************************************************)
(* How a goal is completed under the enforced policy: the completion half  *)
(* of src/rust/ovca-langgraph/src/goal_runtime.rs, the admission of        *)
(* src/rust/ovca-runtime-core/src/local_verification_completion.rs, and    *)
(* the contracts of src/rust/ovca-types/src/goal_runtime/                  *)
(* local_verification.rs, over the bank and the targeted rerun.            *)
(*                                                                         *)
(* The policy is fixed when a runtime is made: for every task of the goal  *)
(* the selection that was made for it.  Meanwhile the source changes,      *)
(* capabilities are registered, bundles are published and marked stale.    *)
(* A completion holds the write reservation of the bank from the snapshot  *)
(* to the append; the source it only looks at.  The event log is what a    *)
(* completion reads of it: GoalRuntime has the file.                       *)
(***************************************************************************)
EXTENDS TargetedRerun

CONSTANTS
    Tasks,          \* the keys of the tasks of the goal
    Goal,           \* its acceptance, verification and done criteria
    MinimumEvidence,\* references its completion precondition asks for
    Behavior,       \* for a task, [criterion -> capabilities that serve it]
    Requested,      \* the requests a policy is made from: [Tasks -> request]
    Completer,      \* the caller that completes the goal, one of Holders
    Registered,     \* definitions that owners make current meanwhile
    Reviewed,       \* the task whose evidence is reviewed, or None
    MaxAppends      \* bound: attempts to append the completion

VARIABLES
    world,          \* the source and the environment as they are now
    policy,         \* for every task its selection and when it was made
    catalog,        \* event log: bundles that were referenced as evidence
    recorded,       \* event log: the bundle of every task, or None
    completions,    \* event log: the completions, with what they relied on
    review,         \* the row that passed its independent review, or None
    material,       \* what was prepared: the bundle of every task, or None
    call,           \* the completion in progress
    attempts        \* appends begun

logVars == <<catalog, recorded, completions>>
runtimeVars == <<world, policy, review, material, call, attempts>>
admissionVars == <<logVars, runtimeVars, bankVars>>

NoCall == [pc |-> "idle", source |-> None, reply |-> "none"]

Verdicts == {"Pass", "Fail", "Blocked", "Timeout", "Invalid"}

\* BehavioralAcceptanceContract::validate: the criteria are names, each once.
BehaviorValid(t) ==
    /\ DOMAIN Behavior[t] # {}
    /\ \A x \in DOMAIN Behavior[t] : Behavior[t][x] \subseteq CapabilityIds

ASSUME AdmissionAssumption ==
    /\ Tasks \subseteq Keys /\ Tasks # {}
    /\ \A t \in Tasks : BehaviorValid(t)
    /\ Requested \subseteq [Tasks -> RerunRequests]
    /\ Completer \in Holders \ {None}
    /\ Registered \subseteq Definitions
    /\ Reviewed \in Tasks \cup {None}
    /\ MinimumEvidence \in Nat /\ MaxAppends \in Nat
    /\ "source" \in Aspects

-----------------------------------------------------------------------------
(***************************************************************************)
(* Bundles.                                                                *)
(***************************************************************************)

\* failure_matches_verdict
Explains(category, verdict) ==
    category \in
        CASE verdict = "Pass" -> {}
          [] verdict = "Timeout" -> {"Timeout"}
          [] verdict = "Blocked" -> {"PolicyBlock", "Environment", "Infrastructure"}
          [] verdict = "Invalid" -> {"ContractViolation", "SourceDrift"}
          [] verdict = "Fail" -> {"TestFailedUnclassified", "ProductBug", "TestFragility",
                                  "Environment", "Infrastructure"}

\* VerificationBundle::validate: what a bundle needs to be published, whoever
\* made it.
BundleValid(b) ==
    /\ b.verdict = "Pass" =>
        /\ DOMAIN b.results # {}
        /\ b.failures = {}
        /\ \A x \in DOMAIN b.results : b.results[x] = "Pass"
        /\ ~b.drifted
    /\ b.verdict # "Pass" =>
        /\ \E category \in b.failures : Explains(category, b.verdict)
        /\ b.drifted <=> "SourceDrift" \in b.failures
        /\ b.drifted => b.verdict = "Invalid"

ASSUME OfferedValid == \A b \in Offered : BundleValid(b)

Ids(capabilities) == {d.id : d \in capabilities}

\* The behaviour of a task and a set of definitions fit each other.
CriteriaServed(t, capabilities) ==
    \A x \in DOMAIN Behavior[t] :
        /\ Behavior[t][x] # {}
        /\ \A c \in Behavior[t][x] : \E d \in capabilities : d.id = c /\ x \in d.criteria

\* Fault: a capability may serve criteria that the task does not have.
NoForeignCriteriaLax(t, capabilities) == TRUE

NoForeignCriteria(t, capabilities) ==
    \A d \in capabilities : d.criteria \subseteq DOMAIN Behavior[t]

\* admit_current_pass_bundle, for the expectations of a policy.
BundleAdmitted(t, b, selection, observed) ==
    /\ b.verdict = "Pass"
    /\ DOMAIN b.results = DOMAIN Behavior[t]
    /\ b.capabilities = selection.capabilities
    /\ CriteriaServed(t, selection.capabilities)
    /\ NoForeignCriteria(t, selection.capabilities)
    /\ \A d \in selection.capabilities : d.dependencies \subseteq Ids(selection.capabilities)
    /\ b.prints = observed

-----------------------------------------------------------------------------
(***************************************************************************)
(* Admission.                                                              *)
(***************************************************************************)

\* Fault: a capability outside of the selection may have changed.
RegistryUnchangedForSelection(selection) ==
    \A d \in selection.capabilities :
        capability[d.id] # None /\ capability[d.id].definition = d

\* The digest of the registry is the one the selection was made from; the
\* selection is then what validate_against makes of it once more.
RegistryUnchanged(selection) == capability = selection.registry

\* admit_local_verification_completion, for one task.
TaskAdmitted(t, observed) ==
    /\ RegistryUnchanged(policy[t])
    /\ policy[t].source = observed["source"]
    /\ Admissible(t)
    /\ BundleAdmitted(t, evidence[t].bundle, policy[t], observed)

\* aggregate_completion_evidence: every criterion of the goal belongs to one
\* task, every task to the goal, and there is evidence enough.
GoalCovered ==
    /\ \A t, u \in Tasks : t # u => DOMAIN Behavior[t] \cap DOMAIN Behavior[u] = {}
    /\ UNION {DOMAIN Behavior[t] : t \in Tasks} = Goal
    /\ Cardinality(Tasks) >= MinimumEvidence

\* fresh_completion_material
MaterialAdmitted(observed) == GoalCovered /\ \A t \in Tasks : TaskAdmitted(t, observed)

CurrentBundles == [t \in Tasks |-> evidence[t].bundle]

\* validate_persisted_completion_material
MaterialPersisted ==
    /\ \A t \in Tasks : evidence[t].bundle \in catalog
    /\ recorded = CurrentBundles

\* validate_independent_completion_snapshot: the review is of the current row.
ReviewHolds == Reviewed # None => review # None /\ review = evidence[Reviewed]

\* The replay of the log with the completion: the run has not ended.
CompletionReplays == completions = << >>

-----------------------------------------------------------------------------
(***************************************************************************)
(* A bank that was filled before: every definition and every bundle was    *)
(* published, and the first definition of each capability is current.      *)
(***************************************************************************)
FirstRow(c) ==
    LET d == CHOOSE e \in Definitions : e.id = c /\ \A f \in Definitions :
                f.id = c => e.revision <= f.revision
    IN [definition |-> d, generation |-> 1]

AdmissionInit ==
    /\ definitions = Definitions
    /\ bundles = Offered
    /\ capability = [c \in CapabilityIds |-> FirstRow(c)]
    /\ capabilityMax = [c \in CapabilityIds |-> FirstRow(c)]
    /\ evidence = Nothing(Keys)
    /\ evidenceMax = Nothing(Keys)
    /\ archives = Nothing(ArchiveIds)
    /\ migrated = FALSE
    /\ lease = None
    /\ minted = [k \in Keys |-> {}]
    /\ world \in Prints
    /\ policy = None
    /\ catalog = {} /\ recorded = None /\ completions = << >>
    /\ review = None
    /\ material = None
    /\ call = NoCall
    /\ attempts = 0

-----------------------------------------------------------------------------
(***************************************************************************)
(* What happens meanwhile.                                                 *)
(***************************************************************************)

\* Somebody edits the source, or the environment changes.
EditWorld ==
    /\ world' \in Prints
    /\ UNCHANGED <<policy, review, material, call, attempts, logVars, bankVars>>

Register(d) ==
    /\ CasCapability(d, capability[d.id])
    /\ UNCHANGED <<logVars, runtimeVars>>

\* A bundle becomes current, in place of what its publisher saw.
Choose(b) ==
    /\ CasEvidence(b, evidence[b.key])
    /\ UNCHANGED <<logVars, runtimeVars>>

GoesStale(t) ==
    /\ \E causes \in SUBSET Aspects : MarkStale(t, evidence[t], causes)
    /\ UNCHANGED <<logVars, runtimeVars>>

\* The review of the current evidence is resolved as a pass, once.
PassReview ==
    /\ Reviewed # None /\ review = None
    /\ Admissible(Reviewed)
    /\ review' = evidence[Reviewed]
    /\ UNCHANGED <<world, policy, material, call, attempts, logVars, bankVars>>

\* select_targeted_rerun for every task, and
\* try_new_with_completion_policy: a policy is what was selected now.  The
\* policy of a runtime is never changed; a new runtime replaces an old one.
OpenRuntime(requests) ==
    LET outcome(t) == SelectTargetedRerun(capability, requests[t]) IN
    /\ call.pc = "idle"
    /\ \A t \in Tasks : Selected(outcome(t))
    /\ policy' = [t \in Tasks |->
            [manifest |-> requests[t].manifest, registry |-> capability,
             source |-> world["source"], capabilities |-> outcome(t).capabilities]]
    /\ material' = None
    /\ UNCHANGED <<world, review, call, attempts, logVars, bankVars>>

-----------------------------------------------------------------------------
(***************************************************************************)
(* The calls of the completer.                                             *)
(***************************************************************************)

\* prepare_local_verification_completion: it changes nothing, so it is one
\* step, with the same source before and after.
Prepare ==
    /\ call.pc = "idle" /\ policy # None
    /\ lease = None
    /\ \A t \in Tasks : Admissible(t)
    /\ CompletionReplays
    /\ MaterialAdmitted(world)
    /\ material' = CurrentBundles
    /\ UNCHANGED <<world, policy, review, call, attempts, logVars, bankVars>>

\* The caller attaches the references; the order among them does not matter.
AttachReferences ==
    /\ call.pc = "idle" /\ material # None
    /\ catalog' = catalog \cup {material[t] : t \in Tasks}
    /\ UNCHANGED <<recorded, completions, runtimeVars, bankVars>>

\* ... and records the completion evidence, which a run does once.
RecordEvidence ==
    /\ call.pc = "idle" /\ material # None
    /\ recorded = None
    /\ \A t \in Tasks : material[t] \in catalog
    /\ recorded' = material
    /\ UNCHANGED <<catalog, completions, runtimeVars, bankVars>>

Steps(pc, source, reply) == call' = [pc |-> pc, source |-> source, reply |-> reply]

\* with_completion_admission_lease
Reserve(h) == TakeLease(h)

\* append_verified_completion: the reservation and the snapshot; a bundle that
\* is absent or stale is refused there.
BeginCompletion ==
    /\ call.pc = "idle" /\ call.reply # "unknown" /\ policy # None
    /\ attempts < MaxAppends
    /\ \A t \in Tasks : Admissible(t)
    /\ Reserve(Completer)
    /\ Steps("reserved", None, "none")
    /\ attempts' = attempts + 1
    /\ UNCHANGED <<world, policy, review, material, logVars>>

\* FrozenSnapshot::materialize
FreezeSource ==
    /\ call.pc = "reserved"
    /\ Steps("frozen", world["source"], "none")
    /\ UNCHANGED <<world, policy, review, material, attempts, logVars, bankVars>>

\* The reservation ends with the callback; it is not held in its absence.
EndReservation ==
    IF lease = Completer THEN ReleaseLease(Completer) ELSE UNCHANGED bankVars

CompletionFits ==
    /\ call.source = world["source"]
    /\ MaterialAdmitted(world)
    /\ MaterialPersisted
    /\ ReviewHolds
    /\ CompletionReplays

\* The source is read once more, and everything is compared.
Admit ==
    /\ call.pc = "frozen"
    /\ IF CompletionFits
       THEN Steps("append", call.source, "none") /\ UNCHANGED bankVars
       ELSE Steps("idle", None, "refused") /\ EndReservation
    /\ UNCHANGED <<world, policy, review, material, attempts, logVars>>

\* What a reader of the log can find out about a completion.
Completion ==
    [rows |-> [t \in Tasks |-> evidence[t]], registry |-> capability,
     source |-> call.source, policy |-> policy, review |-> review]

AppendCompletion(reply) ==
    /\ completions' = Append(completions, Completion)
    /\ Steps("idle", None, reply)

\* The line is synced, and the reservation ends.
Complete ==
    /\ call.pc = "append"
    /\ AppendCompletion("ok")
    /\ EndReservation
    /\ UNCHANGED <<catalog, recorded, world, policy, review, material, attempts>>

\* The append or the return of the reservation fails, or the process dies: the
\* line may be there or not.
CompleteUnanswered ==
    /\ call.pc = "append"
    /\ \/ AppendCompletion("unknown")
       \/ Steps("idle", None, "unknown") /\ UNCHANGED completions
    /\ EndReservation
    /\ UNCHANGED <<catalog, recorded, world, policy, review, material, attempts>>

Reconciled == IF completions # << >> THEN "ok" ELSE "retry"

\* reconcile_verified_completion_append: the log tells, if the review still
\* holds; without an answer the caller may ask again.
Reconcile ==
    /\ call.pc = "idle" /\ call.reply = "unknown" /\ policy # None
    /\ lease = None
    /\ Reviewed # None => Admissible(Reviewed)
    /\ ReviewHolds
    /\ Steps("idle", None, Reconciled)
    /\ UNCHANGED <<world, policy, review, material, attempts, logVars, bankVars>>

-----------------------------------------------------------------------------
Meanwhile ==
    \/ EditWorld
    \/ \E d \in Registered : Register(d)
    \/ \E b \in Offered : Choose(b)
    \/ \E t \in Tasks : GoesStale(t)
    \/ PassReview

CompleterStep ==
    \/ \E requests \in Requested : OpenRuntime(requests)
    \/ Prepare \/ AttachReferences \/ RecordEvidence
    \/ BeginCompletion \/ FreezeSource \/ Admit
    \/ Complete \/ CompleteUnanswered \/ Reconcile

AdmissionNext == Meanwhile \/ CompleterStep

AdmissionSpec == AdmissionInit /\ [][AdmissionNext]_admissionVars

-----------------------------------------------------------------------------
(***************************************************************************)
(* Properties.                                                             *)
(***************************************************************************)

\* Where a policy comes from: a selection is made just when every capability has
\* what it depends on and none comes back to itself, something changed, and every
\* changed path is recognized or everything is run; then it consists of what the
\* change can affect and of what that relies on, and of nothing else unless
\* everything is run (select_targeted_rerun, validate_dependency_graph,
\* selection_closure).
SelectionIsExact == policy # None => EverySelectionIsExact

\* A goal that is completed was verified as a whole, at one state of the
\* source: each of its criteria was passed by a bundle that was current and
\* fresh when the completion was appended, for the source that the completion
\* looked at, and whatever the registry of that moment says the declared change
\* of a task can affect was among the capabilities the task's bundle was run
\* with, in the revision registered then; and the row that was reviewed was not
\* replaced since (append_verified_completion, aggregate_completion_evidence,
\* admit_local_verification_completion, validate_independent_completion_snapshot).
Covered(done) ==
    /\ \A x \in Goal : \E t \in Tasks :
            x \in DOMAIN done.rows[t].bundle.results
                /\ done.rows[t].bundle.results[x] = "Pass"
    /\ \A t \in Tasks :
            /\ done.rows[t] # None /\ done.rows[t].causes = {}
            /\ done.rows[t].bundle.prints["source"] = done.source
            /\ \A c \in Affected(done.registry, LogicalPaths(done.policy[t].manifest)) :
                    done.registry[c].definition \in done.rows[t].bundle.capabilities
    /\ Reviewed # None => done.review = done.rows[Reviewed]

CompletionIsCovered == \A i \in DOMAIN completions : Covered(completions[i])

\* Two tasks of a completed goal share no capability that serves a criterion:
\* a shared one can only be a helper, so a change that touches what the
\* criteria of two tasks rely on never completes the goal with both
\* (admit_current_pass_bundle, aggregate_completion_evidence, selection_closure).
TasksShareOnlyHelpers ==
    \A i \in DOMAIN completions : \A t, u \in Tasks : t # u =>
        \A d \in completions[i].policy[t].capabilities
                    \cap completions[i].policy[u].capabilities : d.criteria = {}
=============================================================================
