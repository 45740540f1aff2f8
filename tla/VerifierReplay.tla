---------------------------- MODULE VerifierReplay ----------------------------
(***************************************************************************)
(* What the Engineer-to-Verifier loop freezes before it calls the          *)
(* verifier, and holds against what a caller brings after a crash, against *)
(* what was published and against what is registered when it admits        *)
(* (rust/ovca-langgraph/src/engineer_verifier_loop.rs, with the contracts  *)
(* of rust/ovca-runtime-core/src/engineer_verifier.rs).  The functions are *)
(* pure; EngineerVerifier calls them at the points of its state machine.   *)
(*                                                                         *)
(* A digest is what it is taken of.  Names and texts are sound, times have *)
(* the precision they must have.                                           *)
(***************************************************************************)
EXTENDS ToolBoundary, FiniteSets

CONSTANTS
    Frozen,        \* the run: its ids, attempt, engineer, snapshots and write
    Supplies,      \* what callers may bring to the verification
    Registries     \* what may be registered: id -> [definition, generation]

-----------------------------------------------------------------------------
(* The parts of a supply.                                                  *)

\* VerificationCommand::validate
CommandValid(command, policy) ==
    /\ command.executable \in policy.executables
    /\ command.names \subseteq policy.names

\* CapabilityDefinition::validate
CapabilityValid(c) ==
    /\ c.revision > 0
    /\ c.policy.executables # {}
    /\ c.commands # <<>>
    /\ \A n \in DOMAIN c.commands : CommandValid(c.commands[n], c.policy)

\* TargetedRerunSelection::validate; what the selection says of the changed
\* paths is TargetedRerun's.
SelectionValid(selection) ==
    /\ selection.capabilities # <<>>
    /\ Ascending([n \in DOMAIN selection.capabilities |-> selection.capabilities[n].id])
    /\ \A n \in DOMAIN selection.capabilities : selection.capabilities[n].revision > 0

\* SourceManifest::validate: what is at its paths is a function already.
ManifestValid(manifest) ==
    DOMAIN manifest # {} /\ \A p \in DOMAIN manifest : Flaw[p] = None

\* ExecutionLimits::is_valid; VerifierExecutionLimitsV1::validate asks the same.
MaxTimeout == 3
MaxStream == 3
LimitsValid(limits) ==
    limits.timeout \in 1..MaxTimeout /\ limits.stdout \in 0..MaxStream /\ limits.stderr \in 0..MaxStream

CommandFailures ==
    {"test_failed", "policy", "environment", "unavailable", "tamper", "timeout", "output"}

CommandCount(x) == FoldLeft(LAMBDA n, c : n + Len(c.commands), 0, x.capabilities)

\* expected_failure_identity_keys
FailureKeys(count) ==
    CommandFailures \X (0..(count - 1))
      \union {<<"source_drift", None>>, <<"snapshot_tamper", None>>}

\* validate_failure_identity_map: a name for each, each of its own.
FailuresFit(failures, count) ==
    DOMAIN failures = FailureKeys(count) /\ IsInjective(failures)

CommandsOf(c) == ToSet(c.commands)
Referenced(x) ==
    UNION {{k.executable : k \in CommandsOf(x.capabilities[n])} : n \in DOMAIN x.capabilities}
NamesUsed(x) ==
    UNION {UNION {k.names : k \in CommandsOf(x.capabilities[n])} : n \in DOMAIN x.capabilities}

\* ExecutableRegistry::validate_structure
RegistryValid(executables) ==
    \A id \in DOMAIN executables :
        executables[id].id = id /\ (executables[id].enabled => executables[id].approved)

\* executable_profile_identity: of the executables the commands name, and not
\* where they are.
ProfilesOf(x) ==
    [id \in Referenced(x) |-> [x.executables[id] EXCEPT !.path = None]]

\* EnvironmentBindings::digest_for
EnvironmentOf(x) ==
    IF NamesUsed(x) \subseteq DOMAIN x.environment
    THEN [n \in NamesUsed(x) |-> x.environment[n]] ELSE None

\* verification_command_digest, verification_command_set_digest
CommandSet(capabilities) ==
    [n \in DOMAIN capabilities |->
        [id |-> capabilities[n].id, revision |-> capabilities[n].revision,
         commands |-> capabilities[n].commands]]

\* verification_policy_digest
PolicySet(capabilities) ==
    [n \in DOMAIN capabilities |->
        [id |-> capabilities[n].id, revision |-> capabilities[n].revision,
         policy |-> capabilities[n].policy]]

\* verification_capability_set_digest
CapabilitySet(selection) == selection.capabilities

\* The conditions of VerifierInputIdentity::compute.
IdentitySound(x) ==
    /\ SelectionValid(x.selection)
    /\ x.capabilities # <<>>
    /\ x.implementer # x.verifier
    /\ LimitsValid(x.limits)
    /\ \A n \in DOMAIN x.capabilities : CapabilityValid(x.capabilities[n])
    /\ Ascending([n \in DOMAIN x.capabilities |-> x.capabilities[n].id])
    /\ ManifestValid(x.manifest)
    /\ FailuresFit(x.failures, CommandCount(x))
    /\ RegistryValid(x.executables) /\ Referenced(x) \subseteq DOMAIN x.executables
    /\ EnvironmentOf(x) # None /\ EnvironmentOf(x) = x.digest
    /\ x.manifest = x.selection.source
    /\ PolicySet(x.capabilities) = x.selection.policy

\* VerifierInputIdentity
IdentityOf(x) ==
    [behavior |-> x.behavior, capabilities |-> x.capabilities, selection |-> x.selection,
     manifest |-> x.manifest, failures |-> x.failures, profiles |-> ProfilesOf(x),
     names |-> NamesUsed(x), environment |-> x.digest]

-----------------------------------------------------------------------------
(* A write, from its preparation to its entry in the ledger.               *)

FileAt(files, path) == IF path \in DOMAIN files THEN files[path] ELSE None

\* prepare_write
PreparedWrite(request, before) ==
    LET operation == request.operation
        files == [p \in DOMAIN before.files \union {operation.path} |->
                     IF p = operation.path THEN operation.content ELSE before.files[p]]
    IN [request |-> request, before |-> before,
        after |-> Snapshot(before.lease, before.generation + 1, files)]

\* PreparedWriteEffectV1::validate
WriteFits(w) ==
    /\ RequestReceiptable(w.request) /\ Flaw[w.request.operation.path] = None
    /\ w.request.expected = w.before
    /\ FilesValid(w.before.files) /\ FilesValid(w.after.files)
    /\ FileAt(w.before.files, w.request.operation.path) # w.request.operation.content

\* WriteReconciliationV1::try_new, with its validate: only for what was meant.
ReconciliationFits(w, observed) == w.before # w.after /\ observed = w.after

Entry(request, resolution, before, after) ==
    [request |-> request, resolution |-> resolution, before |-> before, after |-> after]

\* ledger_entry_from_reconciliation
EntryOfReconciliation(w) == Entry(w.request, "reconciled", w.before, w.after)

Resolutions ==
    [read |-> [read |-> "observed", denied |-> "denied"],
     write |-> [written |-> "applied", denied |-> "denied"]]

\* ledger_entry_from_receipt, None if the receipt is not of this request.
EntryOfReceipt(request, receipt) ==
    LET type == request.operation.type
        outcome == receipt.outcome.type
    IN IF /\ receipt.request = request /\ ReceiptValid(receipt)
          /\ outcome \in DOMAIN Resolutions[type]
       THEN Entry(request, Resolutions[type][outcome], receipt.before, receipt.after)
       ELSE None

-----------------------------------------------------------------------------
(* The bridge from the engineer's workspace to the verifier's source.      *)

ChangedPaths(before, after) ==
    {p \in DOMAIN before.files \union DOMAIN after.files :
        FileAt(before.files, p) # FileAt(after.files, p)}

\* build_workspace_bridge: both copies hold what was sealed.
BridgeOf(initial, current, identity) ==
    LET changed == ChangedPaths(initial, current)
    IN [attempt |-> Frozen.attempt, engineer |-> Frozen.engineer,
        before |-> initial, after |-> current,
        was |-> [p \in changed |-> FileAt(initial.files, p)],
        is |-> [p \in changed |-> FileAt(current.files, p)],
        manifest |-> identity.manifest,
        commands |-> CommandSet(identity.capabilities),
        capability_set |-> CapabilitySet(identity.selection),
        policy |-> PolicySet(identity.capabilities), environment |-> identity.environment]

\* WorkspaceDiffBridgeV1::validate
BridgeFits(bridge) ==
    /\ bridge.attempt > 0
    /\ \A p \in DOMAIN bridge.is : bridge.is[p] # None /\ bridge.was[p] # bridge.is[p]
    /\ DOMAIN bridge.is = {} => bridge.before = bridge.after

\* validate_source_manifest
ManifestIsSnapshot(snapshot, manifest) == manifest = snapshot.files

-----------------------------------------------------------------------------
(* The plan, and what a caller brings in its place.                        *)

\* build_replay_plan
PlanOf(x, bridge) ==
    [run |-> Frozen.run, attempt |-> Frozen.attempt, at |-> x.at,
     implementer |-> x.implementer, verifier |-> x.verifier, limits |-> x.limits,
     identity |-> IdentityOf(x), sealed |-> bridge.after, bridge |-> bridge]

\* Its conditions and those of VerifierReplayPlanV1::validate.
PlanFits(x) ==
    /\ x.implementer = Frozen.engineer /\ x.selection.run = Frozen.run
    /\ x.implementer # x.verifier /\ LimitsValid(x.limits) /\ Frozen.attempt > 0

\* What verify_and_admit freezes, if it comes to that.
Freezes(x) ==
    /\ IdentitySound(x) /\ PlanFits(x)
    /\ ManifestIsSnapshot(Frozen.current, x.manifest)
    /\ BridgeFits(BridgeOf(Frozen.initial, Frozen.current, IdentityOf(x)))

FrozenBridge(x) == BridgeOf(Frozen.initial, Frozen.current, IdentityOf(x))
FrozenPlan(x) == PlanOf(x, FrozenBridge(x))

BridgeCovers(bridge, identity) ==
    /\ bridge.commands = CommandSet(identity.capabilities)
    /\ bridge.capability_set = CapabilitySet(identity.selection)
    /\ bridge.policy = PolicySet(identity.capabilities)
    /\ bridge.environment = identity.environment

\* Fault: the selection is held against the plan by its capabilities only.
ResupplyFitsBySet(plan, y) ==
    /\ PlanFits(y)
    /\ PlanOf([y EXCEPT !.selection = plan.identity.selection], plan.bridge) = plan
    /\ BridgeCovers(plan.bridge, IdentityOf(y))

\* validate_replay_resupply
ResupplyFits(plan, y) ==
    /\ PlanFits(y)
    /\ PlanOf(y, plan.bridge) = plan
    /\ BridgeCovers(plan.bridge, IdentityOf(y))

\* resume_verification: y takes the place of what was frozen.
Resumes(plan, y) ==
    /\ IdentitySound(y)
    /\ ResupplyFits(plan, y)
    /\ ManifestIsSnapshot(plan.sealed, y.manifest)
    /\ BridgeOf(Frozen.initial, plan.sealed, IdentityOf(y)) = plan.bridge

-----------------------------------------------------------------------------
(* What was published, and what is admitted.                               *)

\* build_bundle, for the request that verifier_request makes of the supply.
BundleOf(y, post, verdict) ==
    [run |-> y.selection.run, implementer |-> y.implementer, verifier |-> y.verifier,
     at |-> y.at, verdict |-> verdict,
     prints |-> [source_pre |-> y.manifest, source_post |-> post, behavior |-> y.behavior,
                 capability_set |-> CapabilitySet(y.selection),
                 commands |-> CommandSet(y.capabilities),
                 policy |-> PolicySet(y.capabilities), environment |-> y.digest]]

\* validate_verifier_publication_binding, which asks for all that
\* validate_publication of the state asks for.
PublicationFits(plan, bundle) ==
    /\ bundle.run = plan.run
    /\ bundle.implementer = plan.implementer /\ bundle.verifier = plan.verifier
    /\ bundle.at = plan.at
    /\ bundle.prints =
         [source_pre |-> plan.identity.manifest, source_post |-> plan.identity.manifest,
          behavior |-> plan.identity.behavior, capability_set |-> plan.bridge.capability_set,
          commands |-> plan.bridge.commands, policy |-> plan.bridge.policy,
          environment |-> plan.bridge.environment]

\* Each selected capability is registered as it was selected and supplied.
SelectionIsRegistered(y, registered) ==
    \A n \in DOMAIN y.selection.capabilities :
        LET selected == y.selection.capabilities[n]
        IN /\ selected.id \in DOMAIN registered
           /\ registered[selected.id].definition = selected.record
           /\ selected.record.revision = selected.revision
           /\ y.capabilities[n] = selected.record

\* validate_admission_snapshot, for the bundle that is current.
Admits(plan, y, bundle, registered) ==
    /\ bundle.verdict = "pass" /\ bundle.implementer # bundle.verifier
    /\ y.selection.registry = registered
    /\ Len(y.capabilities) = Len(y.selection.capabilities)
    /\ SelectionIsRegistered(y, registered)
    /\ y.capabilities = plan.identity.capabilities
    /\ BridgeCovers(plan.bridge, IdentityOf(y))
    /\ bundle.prints.capability_set = CapabilitySet(y.selection)
    /\ bundle.prints.commands = CommandSet(y.capabilities)
    /\ bundle.prints.policy = PolicySet(y.capabilities)

-----------------------------------------------------------------------------
(* Properties.                                                             *)

\* What a verification comes down to: not where the executables are, nor the
\* profiles and the environment that no command uses.
Asked(x) ==
    [x EXCEPT !.executables = ProfilesOf(x),
              !.environment = [n \in NamesUsed(x) |-> x.environment[n]]]

\* After a crash the loop goes on with exactly those inputs that ask for what was
\* frozen, and the bundle of such a run passes the binding of the publication
\* (validate_replay_resupply, validate_verifier_publication_binding).
EveryResumeIsTheSame ==
    \A x \in {s \in Supplies : Freezes(s)} :
        LET plan == FrozenPlan(x)
        IN \A y \in {s \in Supplies : IdentitySound(s)} :
             /\ Resumes(plan, y) <=> Asked(y) = Asked(x)
             /\ Resumes(plan, y) => PublicationFits(plan, BundleOf(y, y.manifest, "pass"))

\* What is admitted was run with the definitions that are registered now, on the
\* source that is in the workspace; and nothing but a change of the registry
\* keeps such a bundle out (validate_admission_snapshot).
EveryAdmissionIsCurrent ==
    \A x \in {s \in Supplies : Freezes(s)}, y \in {s \in Supplies : IdentitySound(s)},
       registered \in Registries, verdict \in {"pass", "fail"} :
        LET plan == FrozenPlan(x)
            bundle == BundleOf(y, y.manifest, verdict)
            IsCurrent(definition, selected) ==
                /\ selected.id \in DOMAIN registered
                /\ definition = registered[selected.id].definition
                /\ selected.record = definition /\ selected.revision = definition.revision
        IN PublicationFits(plan, bundle) /\ Admits(plan, x, bundle, registered) <=>
            /\ verdict = "pass" /\ x.selection.registry = registered
            /\ bundle = BundleOf(x, Frozen.current.files, "pass")
            /\ DOMAIN x.capabilities = DOMAIN x.selection.capabilities
            /\ \A n \in DOMAIN x.capabilities :
                 IsCurrent(x.capabilities[n], x.selection.capabilities[n])

\* One that can be frozen; which does not matter to a write.
AnyIdentity == IdentityOf(CHOOSE x \in Supplies : Freezes(x))

\* A write that can be prepared is bridged by its path alone, and the ledger tells
\* the same of it whether its receipt came or its effect was found after a crash;
\* no other state of the workspace passes for it (prepare_write,
\* WorkspaceDiffBridgeV1::validate, ledger_entry_from_reconciliation).
EveryWriteIsBridged ==
    \A files \in {f \in FileSets : FilesValid(f)},
       operation \in {o \in Operations : o.type = "write"}, observed \in FileSets :
        LET before == Snapshot("l", 0, files)
            request == [attempt |-> 1, scope |-> Frozen.scope, expected |-> before,
                        operation |-> operation]
            w == PreparedWrite(request, before)
            seen == Snapshot("l", 1, observed)
            bridge == BridgeOf(before, w.after, AnyIdentity)
            receipt == [request |-> request, outcome |-> [type |-> "written"],
                        before |-> before, after |-> seen]
        IN WriteFits(w) =>
            /\ BridgeFits(bridge) /\ DOMAIN bridge.is = {operation.path}
            /\ ReconciliationFits(w, seen) <=> observed = w.after.files
            /\ ReconciliationFits(w, seen) =>
                 EntryOfReconciliation(w) =
                     [EntryOfReceipt(request, receipt) EXCEPT !.resolution = "reconciled"]

\* All of it: what is frozen is what is verified, resumed, bound and admitted.
ReplayIsExact == EveryResumeIsTheSame /\ EveryAdmissionIsCurrent /\ EveryWriteIsBridged
=============================================================================
