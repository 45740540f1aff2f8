-------------------------- MODULE WorkspaceCapability --------------------------
(***************************************************************************)
(* The workspace capability broker (ovca-runtime-core,                     *)
(* workspace_capability.rs), as operators over the row it answers to, one  *)
(* lease of its registry and the content of the lease's private root.      *)
(* Every operation enters the workspace-effect lock, reloads the row and   *)
(* acts before it leaves, so each of them is one step of its caller.       *)
(*                                                                         *)
(* `unmoved' says that the execution row still has the revision at which   *)
(* the lease was opened.                                                   *)
(***************************************************************************)
EXTENDS EngineerVerifierState

CONSTANTS NoLease

\* A root holds the seeds, the seeds with the write, or something else.
Contents == {"before", "after", "other"}
Roots == Contents \union {"absent"}

LeaseStates == {"Active", "Closed"}

\* `opened': the lease was opened by this broker, not recovered from a row.
\* `snap': the snapshot the registry holds for it.
Leases == [ws : Nat, epoch : Nat, opened : BOOLEAN, snap : {"before", "after"},
           state : LeaseStates]

\* DurableLeaseBinding::pending, in the record open_recoverable_lease inserts.
Opened(ws) == [ws |-> ws, epoch |-> 1, opened |-> TRUE, snap |-> "before",
               state |-> "Active"]

\* DurableLeaseBinding::recovered, in the record recover_lease inserts.
Recovered(r, content) ==
    [ws |-> r.ws, epoch |-> r.epoch, opened |-> FALSE, snap |-> content,
     state |-> "Active"]

Closed(lease) == [lease EXCEPT !.state = "Closed"]

-----------------------------------------------------------------------------
(* What a lease is to the row at this moment (DurableLeaseBinding).        *)

\* Fault: the fence of the row is not compared.
CurrentOfAnyEpoch(r, lease) == r # None /\ ~r.closed /\ r.ws = lease.ws

Current(r, lease) ==
    /\ r # None
    /\ ~r.closed
    /\ r.ws = lease.ws
    /\ r.epoch = lease.epoch

Ownership(r, lease, unmoved) ==
    IF lease.opened /\ unmoved THEN "PreAdmission"
    ELSE IF Current(r, lease) THEN "Current"
    ELSE IF lease.opened /\ (r = None \/ (r # None /\ r.ws # lease.ws)) THEN "Unadopted"
    ELSE "None"

Active(lease) == lease # NoLease /\ lease.state = "Active"

Owned(r, lease, unmoved) == Ownership(r, lease, unmoved) # "None"

RequireCurrent(r, lease, unmoved) == Ownership(r, lease, unmoved) = "Current"

\* require_live_capability: a pending cancellation ends every capability.
Live(r, lease, unmoved) ==
    /\ RequireCurrent(r, lease, unmoved)
    /\ ~r.cancelled
    /\ r.phase = "Engineering"

\* require_request: the effect `seen' asks for is the one the row expects.
Requested(r, lease, unmoved, seen) ==
    /\ Live(r, lease, unmoved)
    /\ r.attempt = seen.attempt
    /\ Len(r.ledger) = Len(seen.ledger) /\ Len(r.ledger) < Len(Plan)
    /\ r.prepared = (Plan[Len(r.ledger) + 1] = "write")

RequirePrepared(r, lease, unmoved) ==
    /\ RequireCurrent(r, lease, unmoved)
    /\ r.phase = "Engineering" /\ r.prepared

RequireVerifying(r, lease, unmoved) ==
    /\ RequireCurrent(r, lease, unmoved)
    /\ \/ r.phase = "Verifying"
       \/ /\ r.phase = "Engineering"
          /\ Len(r.ledger) = Len(Plan) /\ r.result
    /\ ~r.cancelled
    /\ Snapshot(r) = lease.snap

-----------------------------------------------------------------------------
(* Its operations.                                                         *)

CanClose(r, lease, unmoved) == Active(lease) /\ Owned(r, lease, unmoved)

\* seal_workspace copies the root when it is what the registry says.
CanSeal(r, lease, unmoved, content) ==
    /\ Active(lease) /\ RequireVerifying(r, lease, unmoved)
    /\ content = lease.snap

\* recover_lease: an empty registry, and a root the row can explain.
CanRecover(r, lease, content) ==
    /\ lease = NoLease
    /\ \/ content = Snapshot(r)
       \/ r.prepared /\ content = "after"

\* Fault: a write that was applied is taken for one that was not.
InspectedUnread(content) ==
    IF content = "absent" THEN "Missing" ELSE "ExpectedBefore"

\* Fault: a prepared write is taken for an applied one.
InspectedOptimistically(content) ==
    IF content = "absent" THEN "Missing" ELSE "IntendedAfter"

\* inspect_prepared_write.
Inspected(content) ==
    CASE content = "before" -> "ExpectedBefore"
      [] content = "after" -> "IntendedAfter"
      [] content = "absent" -> "Missing"
      [] OTHER -> "ThirdState"

\* admit: what a request meets after the row has authorised it.
Admitted(lease, content, expired) == ~expired /\ content = lease.snap

\* The receipt of execute_fresh for an effect.
Receipt(effect, lease, content, expired) ==
    IF ~Admitted(lease, content, expired) THEN "Denied"
    ELSE IF effect = "write" THEN "Written" ELSE "Read"

ContentAfter(receipt, content) == IF receipt = "Written" THEN "after" ELSE content

\* Drop for WorkspaceCapabilityBroker removes the roots the broker owns.
DropRemoves(r, lease, unmoved) == CanClose(r, lease, unmoved)
=============================================================================
