----------------------------- MODULE ToolBoundary -----------------------------
(***************************************************************************)
(* What crosses the boundary between a role and its disposable workspace:  *)
(* snapshots, leases, grants, requests and receipts                        *)
(* (rust/ovca-types/src/tool_boundary.rs).  The functions are pure.        *)
(*                                                                         *)
(* A logical path is a number, for the order of its bytes; what is wrong   *)
(* with its spelling and which paths differ only by case is given.  A      *)
(* content stands for its digest, and has a length.                        *)
(***************************************************************************)
EXTENDS RoleExecution, SequencesExt

CONSTANTS
    Paths,         \* logical paths, numbers
    Flaw,          \* path -> the code that refuses its spelling, None if sound
    Fold,          \* path -> the path that stands for all its case variants
    Contents,      \* what a file may hold
    Length,        \* content -> its length
    MaxToolBytes   \* the largest limit a grant may set

\* ToolDeniedCodeV1; the broker refuses its protected roots before any request.
DeniedCodes ==
    {"invalid_binding", "expired", "stale_snapshot", "role_forbidden",
     "path_forbidden", "unsupported_operation", "payload_mismatch",
     "limit_exceeded", "workspace_invalid", "protected_root", "alias_forbidden",
     "no_change", "idempotency_conflict"}

ASSUME BoundaryAssumption ==
    /\ None \notin DeniedCodes
    /\ Paths \subseteq Nat
    /\ Flaw \in [Paths -> {None, "alias_forbidden", "path_forbidden"}]
    /\ Fold \in [Paths -> Paths]
    /\ Length \in [Contents -> Nat]
    /\ MaxToolBytes \in Nat

FileSets == UNION {[paths -> Contents] : paths \in SUBSET Paths}

\* Two of the paths are one on a file system that ignores case.
CaseAliases(paths) == \E p, q \in paths : p # q /\ Fold[p] = Fold[q]

\* validate_workspace_files; a set of files has one order.
FilesValid(files) ==
    /\ \A p \in DOMAIN files : Flaw[p] = None
    /\ ~CaseAliases(DOMAIN files)

\* WorkspaceSnapshotV1; its digest covers the generation.
Snapshot(lease, generation, files) ==
    [lease |-> lease, generation |-> generation, files |-> files]

\* validate_path_list
PathListValid(paths) ==
    /\ \A n \in DOMAIN paths : Flaw[paths[n]] = None
    /\ Ascending(paths)
    /\ ~CaseAliases(ToSet(paths))

\* validate_combined_case_aliases
CombinedAliases(reads, writes) ==
    \E w \in ToSet(writes) \ ToSet(reads) : \E r \in ToSet(reads) : Fold[w] = Fold[r]

\* permission_key, and the sorted keys a grant's authority must hold.  A key is
\* a hash, so the order of the keys is not that of the paths.
ReadKey(path) == 100 - path
WriteKey(path) == 200 - path

Sorted(keys) == SetToSortSeq(keys, LAMBDA a, b : a < b)

ExpectedReadKeys(paths) == Sorted({ReadKey(p) : p \in ToSet(paths)})
ExpectedWriteKeys(paths) == Sorted({WriteKey(p) : p \in ToSet(paths)})

\* WorkspaceLeaseV1::validate
LeaseValid(lease) ==
    /\ lease.attempt > 0
    /\ ScopeValid(lease.scope)
    /\ lease.issued_at < lease.expires_at

\* validate_limit
LimitValid(limit) == limit \in 1..MaxToolBytes

\* Only an engineer may be granted a write, the invoking roles nothing.
RoleMayHold(grant) ==
    \/ grant.grantee.role = "engineer"
    \/ grant.grantee.role \in {"reviewer", "auditor"} /\ grant.write_paths = <<>>

\* CapabilityGrantV1::validate
GrantValid(grant) ==
    /\ grant.attempt > 0
    /\ ScopeValid(grant.scope)
    /\ AuthorityValid(grant.authority)
    /\ PathListValid(grant.read_paths) /\ PathListValid(grant.write_paths)
    /\ ~CombinedAliases(grant.read_paths, grant.write_paths)
    /\ LimitValid(grant.max_read) /\ LimitValid(grant.max_write)
    /\ grant.from < grant.until
    /\ RoleMayHold(grant)

\* ToolOperationV1; the kinds that are not supported differ in nothing.
Operations ==
    [type : {"read"}, path : Paths]
      \union [type : {"write"}, path : Paths, content : Contents]
      \union [type : {"unsupported"}]

\* ToolOperationV1::logical_path
LogicalPath(operation) ==
    IF operation.type = "unsupported" THEN None ELSE operation.path

\* validate_receiptable_request: what is wrong with a path is left to a receipt.
\* ToolRequestV1::validate asks for sound paths on top.
RequestReceiptable(request) ==
    /\ request.attempt > 0
    /\ ScopeValid(request.scope)

\* ToolReceiptV1::validate: only a write moves the snapshot, by one generation.
ReceiptValid(receipt) ==
    IF receipt.outcome.type = "written"
    THEN /\ receipt.before # receipt.after
         /\ receipt.after.generation = receipt.before.generation + 1
    ELSE receipt.before = receipt.after
=============================================================================
