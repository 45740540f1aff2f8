------------------------------- MODULE ToolBroker -------------------------------
(***************************************************************************)
(* WorkspaceCapabilityBroker of                                            *)
(* rust/ovca-runtime-core/src/workspace_capability.rs, as a role that was  *)
(* invoked meets it: leases over private roots, grants, and requests that  *)
(* end in receipts.  The bindings that a durable execution adds are in     *)
(* WorkspaceCapability.                                                    *)
(*                                                                         *)
(* A call holds the broker for as long as it takes, so it is one step; the *)
(* roots are directories, and others may write to them at any time, in the *)
(* middle of a call as well.  The workspace of a lease has the lease's     *)
(* name, and roots lie outside the protected ones, which open_lease makes  *)
(* sure of and nothing changes later.                                      *)
(***************************************************************************)
EXTENDS ToolBoundary

CONSTANTS
    LeaseIds,
    Executions,    \* requests of the role executor that work is done for
    Seeds,         \* lists of files that a workspace is opened with
    Windows,       \* times that leases are opened for
    Forms,         \* what grants are asked for, but for lease and snapshot
    Keys,          \* idempotency keys
    Operated,      \* operations that are asked for
    Times,         \* bound: what the clocks may say
    Meddling,      \* what others may make of a path: <<path, content>>
    Odd,           \* what a path holds that is no ordinary file
    MaxGrants,     \* bound: grants issued
    MaxReceipts,   \* bound: receipts given
    MaxDenied      \* bound: those of them that refuse

ASSUME BrokerAssumption ==
    /\ Operated \subseteq Operations
    /\ Meddling \subseteq Paths \X (Contents \union {Odd})
    /\ Odd \notin Contents

VARIABLES
    leases,        \* lease -> its record, of the leases that were opened
    grants,        \* the grants issued, in order
    roots,         \* lease -> the files of its root, None if it is gone
    answers,       \* idempotency key -> request, receipt and conflicts, of the
                   \* keys that were answered
    receipts       \* the receipts given, in order; their numbers are dense

brokerVars == <<leases, grants, roots, answers, receipts>>

LeaseStates == {"active", "cleanup_required", "closed"}

BrokerTypeOK ==
    /\ DOMAIN leases \subseteq LeaseIds
    /\ \A l \in DOMAIN leases :
          /\ leases[l].state \in LeaseStates
          /\ leases[l].snapshot.files \in FileSets
          /\ leases[l].state = "closed" => roots[l] = None
    /\ Len(grants) <= MaxGrants
    /\ Len(receipts) <= MaxReceipts
    /\ \A n \in DOMAIN receipts : ReceiptValid(receipts[n])

BrokerInit ==
    /\ leases = [l \in {} |-> None]
    /\ grants = <<>>
    /\ roots = [l \in LeaseIds |-> None]
    /\ answers = [k \in {} |-> None]
    /\ receipts = <<>>

\* A map with one entry more, or with another value for one: the tables of the
\* broker, and the files of a root.
With(f, key, value) ==
    [k \in DOMAIN f \union {key} |-> IF k = key THEN value ELSE f[k]]

-----------------------------------------------------------------------------
(* The roots.                                                              *)

\* capture_snapshot, None if it finds anything but ordinary, well named files.
Captured(l, generation) ==
    LET files == roots[l] IN
    IF files # None /\ Odd \notin {files[p] : p \in DOMAIN files} /\ FilesValid(files)
    THEN Snapshot(l, generation, files) ELSE None

\* materialize_seeds
SeedsFit(seeds) ==
    /\ \A n \in DOMAIN seeds : Flaw[seeds[n].path] = None
    /\ \A m, n \in DOMAIN seeds :
          m # n => Fold[seeds[m].path] # Fold[seeds[n].path]

Materialized(seeds) ==
    [p \in {seeds[n].path : n \in DOMAIN seeds} |->
       seeds[CHOOSE n \in DOMAIN seeds : seeds[n].path = p].content]

\* Others write to a root.
Meddle(l, path, content) ==
    /\ roots[l] # None
    /\ roots' = [roots EXCEPT ![l] = With(@, path, content)]
    /\ UNCHANGED <<leases, grants, answers, receipts>>

\* cleanup_owned_root removes the root, or fails and leaves it.
CleansUp(l) ==
    \E removed \in BOOLEAN :
        /\ roots' = [roots EXCEPT ![l] = IF removed THEN None ELSE @]
        /\ leases' = [leases EXCEPT ![l].state =
                         IF removed THEN "closed" ELSE "cleanup_required"]

-----------------------------------------------------------------------------
(* Leases and grants.                                                      *)

\* open_lease
OpenLease(l, execution, seeds, window) ==
    LET files == Materialized(seeds)
        snapshot == Snapshot(l, 0, files)
        dto == [id |-> l, invocation |-> execution.invocation,
                attempt |-> execution.attempt, scope |-> execution.invocation.scope,
                initial |-> snapshot,
                issued_at |-> window.issued_at, expires_at |-> window.expires_at]
    IN  /\ RequestValid(execution)
        /\ l \notin DOMAIN leases
        /\ SeedsFit(seeds)
        /\ LeaseValid(dto)
        /\ leases' = With(leases, l,
                          [dto |-> dto, state |-> "active", snapshot |-> snapshot])
        /\ roots' = [roots EXCEPT ![l] = files]
        /\ UNCHANGED <<grants, answers, receipts>>

\* close_lease; a lease whose root could not be removed cannot be closed again.
CloseLease(l) ==
    /\ l \in DOMAIN leases /\ leases[l].state = "active"
    /\ CleansUp(l)
    /\ UNCHANGED <<grants, answers, receipts>>

\* window_contains_authority
WithinAuthority(authority, grant) ==
    /\ authority.validity.status = "active"
    /\ authority.validity.from <= grant.from
    /\ authority.validity.until # None => grant.until <= authority.validity.until

\* validate_grant_binding
GrantBinds(execution, record, grant) ==
    LET invocation == execution.invocation IN
    /\ record.dto.invocation = invocation
    /\ grant.invocation = invocation
    /\ grant.attempt = execution.attempt /\ record.dto.attempt = execution.attempt
    /\ grant.issuer = invocation.invoker /\ grant.issuer.role = "coordinator"
    /\ grant.grantee = invocation.target
    /\ grant.scope = invocation.scope
    /\ grant.lease = record.dto
    /\ grant.snapshot = record.snapshot
    /\ grant.authority.id # invocation.authority.id
    /\ grant.authority.principal = invocation.invoker
    /\ grant.authority.namespace = "code_review"
    /\ grant.authority.scope = invocation.scope
    /\ grant.authority.visibility = invocation.authority.visibility
    /\ grant.authority.profile.resource_keys = ExpectedReadKeys(grant.read_paths)
    /\ grant.authority.profile.write_keys = ExpectedWriteKeys(grant.write_paths)
    /\ WithinAuthority(invocation.authority, grant)
    /\ WithinAuthority(grant.authority, grant)
    /\ record.dto.issued_at <= grant.from
    /\ grant.until <= record.dto.expires_at

\* The grant that a form asks for, on the lease as it is.
GrantOf(execution, record, form) ==
    LET invocation == execution.invocation IN
    [id |-> Len(grants) + 1, invocation |-> invocation,
     attempt |-> execution.attempt, issuer |-> invocation.invoker,
     grantee |-> form.grantee, scope |-> invocation.scope,
     authority |-> form.authority, lease |-> record.dto,
     snapshot |-> record.snapshot, read_paths |-> form.read_paths,
     write_paths |-> form.write_paths, max_read |-> form.max_read,
     max_write |-> form.max_write, from |-> form.from, until |-> form.until]

\* issue_grant
IssueGrant(execution, l, form) ==
    /\ RequestValid(execution)
    /\ Len(grants) < MaxGrants
    /\ l \in DOMAIN leases /\ leases[l].state = "active"
    /\ LET grant == GrantOf(execution, leases[l], form) IN
         /\ GrantValid(grant)
         /\ GrantBinds(execution, leases[l], grant)
         /\ grants' = Append(grants, grant)
    /\ UNCHANGED <<leases, roots, answers, receipts>>

-----------------------------------------------------------------------------
(* Requests.                                                               *)

\* SnapshotPoint
Point(snapshot) == [digest |-> snapshot, generation |-> snapshot.generation]

\* snapshot_point_for_request
FallbackPoint(request) ==
    IF request.lease \in DOMAIN leases THEN Point(leases[request.lease].snapshot)
    ELSE [digest |-> request.expected, generation |-> 0]

\* build_receipt
Receipt(request, outcome, before, after) ==
    [request |-> request, outcome |-> outcome, before |-> before, after |-> after]

Denied(request, code, point) ==
    Receipt(request, [type |-> "denied", code |-> code], point, point)

GrantKnown(request) == request.grant \in DOMAIN grants

\* Fault: the request may expect another snapshot than its grant was given for.
BindsAnySnapshot(request, grant, record) ==
    /\ record.state = "active"
    /\ request.invocation = record.dto.invocation
    /\ request.invocation = grant.invocation
    /\ request.attempt = record.dto.attempt /\ request.attempt = grant.attempt
    /\ request.scope = record.dto.scope /\ request.scope = grant.scope
    /\ request.requester = grant.grantee
    /\ grant.lease = record.dto

\* Everything the request names is what the lease and the grant name.
Binds(request, grant, record) ==
    /\ record.state = "active"
    /\ request.invocation = record.dto.invocation
    /\ request.invocation = grant.invocation
    /\ request.attempt = record.dto.attempt /\ request.attempt = grant.attempt
    /\ request.scope = record.dto.scope /\ request.scope = grant.scope
    /\ request.requester = grant.grantee
    /\ grant.lease = record.dto
    /\ grant.snapshot = request.expected

\* authority_active_at
AuthorityActive(authority, now) ==
    authority.validity.status = "active" /\ Covers(authority.validity, now)

InTime(grant, record, now) ==
    /\ AuthorityActive(record.dto.invocation.authority, now)
    /\ AuthorityActive(grant.authority, now)
    /\ grant.from <= now /\ now < grant.until
    /\ record.dto.issued_at <= now /\ now < record.dto.expires_at

\* verify_ordinary_tree: what is wrong with the path the operation names.
TreeFlaw(l, path) ==
    IF path = None THEN None
    ELSE IF Flaw[path] # None THEN Flaw[path]
    ELSE IF path \in DOMAIN roots[l] /\ roots[l][path] = Odd THEN "workspace_invalid"
    ELSE None

\* admit: the code that refuses the request, None if it is admitted.
AdmissionCode(request, now) ==
    LET record == leases[request.lease]
        grant == grants[request.grant]
        flaw == TreeFlaw(request.lease, LogicalPath(request.operation))
        observed == Captured(request.lease, record.snapshot.generation)
    IN  IF \/ request.at > now \/ request.lease \notin DOMAIN leases
           \/ ~GrantKnown(request) \/ ~Binds(request, grant, record) THEN "invalid_binding"
        ELSE IF ~InTime(grant, record, now) THEN "expired"
        ELSE IF request.expected # record.snapshot THEN "stale_snapshot"
        ELSE IF \/ request.requester.role # record.dto.invocation.target.role
                \/ request.requester.role \in {"owner", "coordinator"}
             THEN "role_forbidden"
        ELSE IF flaw # None THEN flaw
        ELSE IF observed = None THEN "workspace_invalid"
        ELSE IF observed # record.snapshot THEN "stale_snapshot"
        ELSE None

\* path_denial of a path that is not exactly granted.
PathCode(path, granted) ==
    IF path \in ToSet(granted) THEN None
    ELSE IF \E p \in ToSet(granted) : Fold[p] = Fold[path] THEN "alias_forbidden"
    ELSE "path_forbidden"

\* What refuses a read; bytes are what the caller hands over, None if nothing.
ReadCode(request, grant, files, bytes) ==
    LET path == request.operation.path IN
    IF bytes # None THEN "payload_mismatch"
    ELSE IF PathCode(path, grant.read_paths) # None THEN PathCode(path, grant.read_paths)
    ELSE IF path \notin DOMAIN files THEN "workspace_invalid"
    ELSE IF Length[files[path]] > grant.max_read THEN "limit_exceeded"
    ELSE None

WriteCode(request, grant, files, bytes) ==
    LET path == request.operation.path
        content == request.operation.content
    IN
    IF request.requester.role # "engineer" THEN "role_forbidden"
    ELSE IF PathCode(path, grant.write_paths) # None THEN PathCode(path, grant.write_paths)
    ELSE IF Length[content] > grant.max_write THEN "limit_exceeded"
    ELSE IF bytes # content THEN "payload_mismatch"
    ELSE IF path \in DOMAIN files /\ files[path] = content THEN "no_change"
    ELSE None

OperationCode(request, bytes) ==
    LET grant == grants[request.grant]
        files == leases[request.lease].snapshot.files
    IN  CASE request.operation.type = "unsupported" -> "unsupported_operation"
          [] request.operation.type = "read" -> ReadCode(request, grant, files, bytes)
          [] request.operation.type = "write" -> WriteCode(request, grant, files, bytes)

\* Fault: only the path that was asked for is looked at.
PathIsChanged(before, after, path) ==
    path \in DOMAIN after /\ (path \in DOMAIN before => before[path] # after[path])

\* exactly_one_manifest_entry_changed
OnlyChanged(before, after, path) ==
    {p \in DOMAIN before \union DOMAIN after :
        ~(p \in DOMAIN before /\ p \in DOMAIN after /\ before[p] = after[p])} = {path}

\* The answer to a key that was not known.
Answer(request, receipt) ==
    /\ receipts' = Append(receipts, receipt)
    /\ answers' = With(answers, request.key,
                       [request |-> request, receipt |-> receipt, conflicts |-> {}])

\* backend_failure: an error, of which no receipt tells.
BackendFails(l, files) ==
    /\ \E removed \in BOOLEAN :
          /\ roots' = [roots EXCEPT ![l] = IF removed THEN None ELSE files]
          /\ leases' = [leases EXCEPT ![l].state =
                           IF removed THEN "closed" ELSE "cleanup_required"]
    /\ UNCHANGED <<answers, receipts>>

\* The file is not any more what admission found: others have changed it.
Read(request) ==
    LET l == request.lease
        path == request.operation.path
        before == leases[l].snapshot
    IN  \/ /\ Answer(request,
                  Receipt(request, [type |-> "read", content |-> before.files[path]],
                          Point(before), Point(before)))
           /\ UNCHANGED <<leases, roots>>
        \/ \E m \in Meddling :
              /\ m[1] = path /\ m[2] # before.files[path]
              /\ BackendFails(l, With(roots[l], path, m[2]))

\* What the root may hold after the write, if others write in the middle.
Outcomes(files, path, content) ==
    {With(files, path, content)}
      \union {With(With(files, m[1], m[2]), path, content) : m \in Meddling}
      \union {With(With(files, path, content), m[1], m[2]) : m \in Meddling}

Write(request) ==
    LET l == request.lease
        path == request.operation.path
        content == request.operation.content
        before == leases[l].snapshot
        after(files) == Snapshot(l, before.generation + 1, files)
        sound(files) ==
            /\ Odd \notin {files[p] : p \in DOMAIN files} /\ FilesValid(files)
            /\ OnlyChanged(before.files, files, path) /\ files[path] = content
    IN  \/ \E files \in Outcomes(before.files, path, content) :
              IF sound(files)
              THEN /\ roots' = [roots EXCEPT ![l] = files]
                   /\ leases' = [leases EXCEPT ![l].snapshot = after(files)]
                   /\ Answer(request,
                        Receipt(request, [type |-> "written", content |-> content],
                                Point(before), Point(after(files))))
              ELSE BackendFails(l, files)
        \/ \E torn \in {With(before.files, path, c) : c \in Contents} \union {before.files} :
              BackendFails(l, torn)

\* execute_fresh
ExecuteFresh(request, bytes, now) ==
    LET code == IF AdmissionCode(request, now) # None THEN AdmissionCode(request, now)
                ELSE OperationCode(request, bytes)
    IN  IF code # None
        THEN Answer(request, Denied(request, code, FallbackPoint(request)))
             /\ UNCHANGED <<leases, roots>>
        ELSE IF request.operation.type = "read" THEN Read(request) ELSE Write(request)

\* Fault: only the very same request is found again.
KnownBySameRequest(request) ==
    /\ request.key \in DOMAIN answers
    /\ answers[request.key].request = request

Known(request) == request.key \in DOMAIN answers

\* A key that is known answers another request with a conflict, once, at the
\* snapshot its own answer ended at.
ExecuteKnown(request) ==
    LET answer == answers[request.key]
        conflict == Denied(request, "idempotency_conflict", answer.receipt.after)
    IN  IF \/ answer.request = request
           \/ \E c \in answer.conflicts : c.request = request
        THEN UNCHANGED <<answers, receipts>>
        ELSE /\ receipts' = Append(receipts, conflict)
             /\ answers' = [answers EXCEPT ![request.key].conflicts = @ \union {conflict}]

\* execute
Execute(request, bytes, now) ==
    /\ RequestReceiptable(request)
    /\ Len(receipts) < MaxReceipts
    /\ IF Known(request)
       THEN ExecuteKnown(request) /\ UNCHANGED <<leases, roots>>
       ELSE ExecuteFresh(request, bytes, now)
    /\ Cardinality({n \in DOMAIN receipts' : receipts'[n].outcome.type = "denied"})
         <= MaxDenied
    /\ UNCHANGED grants

\* What may be asked for: of some lease, under some grant or under one the
\* broker does not know, by the target of an invocation.
Request(key, execution, l, grant, expected, operation, at) ==
    [key |-> key, invocation |-> execution.invocation, attempt |-> execution.attempt,
     scope |-> execution.invocation.scope, requester |-> execution.invocation.target,
     lease |-> l, grant |-> grant, expected |-> expected, operation |-> operation,
     at |-> at]

\* The snapshots a caller may have been told of.
SnapshotsTold ==
    {grants[n].snapshot : n \in DOMAIN grants}
      \union {leases[l].snapshot : l \in DOMAIN leases}

Ask ==
    \E key \in Keys, execution \in Executions, l \in LeaseIds,
       grant \in 1..(Len(grants) + 1), expected \in SnapshotsTold,
       operation \in Operated, at \in Times, now \in Times,
       bytes \in Contents \union {None} :
        Execute(Request(key, execution, l, grant, expected, operation, at), bytes, now)

BrokerNext ==
    \/ \E l \in LeaseIds, execution \in Executions, seeds \in Seeds, window \in Windows :
          OpenLease(l, execution, seeds, window)
    \/ \E l \in LeaseIds : CloseLease(l)
    \/ \E l \in LeaseIds, execution \in Executions, form \in Forms :
          IssueGrant(execution, l, form)
    \/ \E l \in LeaseIds, m \in Meddling : Meddle(l, m[1], m[2])
    \/ Ask

BrokerSpec == BrokerInit /\ [][BrokerNext]_brokerVars

-----------------------------------------------------------------------------
(* Properties.                                                             *)

IsConflict(receipt) ==
    receipt.outcome.type = "denied" /\ receipt.outcome.code = "idempotency_conflict"

\* The receipts of a lease but for conflicts, by their numbers.
Told(l) ==
    {n \in DOMAIN receipts :
        /\ receipts[n].request.lease = l /\ receipts[n].before.digest.lease = l
        /\ ~IsConflict(receipts[n])}

\* What the lease held before the n-th receipt, as the receipts tell it.
HeldBefore(l, n) ==
    LET earlier == {m \in Told(l) : m < n}
    IN  IF earlier = {} THEN leases[l].dto.initial ELSE receipts[Max(earlier)].after.digest

\* Where a receipt leads from there: only a write leads anywhere.
Leads(before, receipt) ==
    IF receipt.outcome.type # "written" THEN before
    ELSE Snapshot(before.lease, before.generation + 1,
                  With(before.files, receipt.request.operation.path, receipt.outcome.content))

\* The receipts of a lease fit each other and what the broker knows.
Tells(l) ==
    /\ \A n \in Told(l) :
          /\ receipts[n].before = Point(HeldBefore(l, n))
          /\ receipts[n].after = Point(Leads(HeldBefore(l, n), receipts[n]))
    /\ leases[l].snapshot = HeldBefore(l, Len(receipts) + 1)

\* The receipts alone tell what a workspace held, whatever others wrote to its
\* root and whatever failed in between: each begins where the files the lease
\* was opened with and the writes that were receipted before it lead, and the
\* broker's own snapshot is where the last one ends (execute_fresh,
\* build_receipt).
ReceiptsTellTheContents == \A l \in DOMAIN leases : Tells(l)

\* A grant is good for one state of the workspace: what is read under it is
\* read there, and it writes at most once.
GrantsWriteOnce ==
    /\ \A n \in DOMAIN receipts :
          receipts[n].outcome.type # "denied" =>
            receipts[n].before.digest = grants[receipts[n].request.grant].snapshot
    /\ \A m, n \in DOMAIN receipts :
          /\ receipts[m].outcome.type = "written" /\ receipts[n].outcome.type = "written"
          /\ receipts[m].request.grant = receipts[n].request.grant
          => m = n

\* A key is answered once; whatever else is asked under it is told of the
\* conflict, once for each request, and nothing happens.
KeysAnswerOnce ==
    \A m, n \in DOMAIN receipts :
        /\ m < n /\ receipts[m].request.key = receipts[n].request.key
        => /\ IsConflict(receipts[n])
           /\ receipts[m].request # receipts[n].request
=============================================================================
