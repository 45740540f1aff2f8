------------------------------ MODULE GuardPolicy ------------------------------
(***************************************************************************)
(* evaluate_guard_request of rust/ovca-runtime-core/src/guardrails.rs: a   *)
(* caller declares an operation and a permission profile, and the policy   *)
(* allows it, pauses it for the owner, or denies it.                       *)
(*                                                                         *)
(* Abstracted: the texts.  What blank or unsupported texts and blank,      *)
(* repeated or unsorted keys amount to is the set of a request's defects;  *)
(* key lists without defects are sets.  Of a denial only the fact is kept. *)
(***************************************************************************)
EXTENDS Naturals

CONSTANTS
    GuardIds,          \* guard request identifiers
    Labels,            \* operation labels, with the surface they name
    Keys               \* resource and write keys

SideEffects ==
    {"read_only", "reversible_local_write", "repository_write",
     "network_action", "publication", "external_side_effect",
     "destructive", "secret_bearing", "irreversible", "privileged"}

Defects == {"contract_version", "guard_request_id", "approval_request_id",
            "operation_label", "key"}

GuardRequest ==
    [guardId : GuardIds, label : Labels, sideEffect : SideEffects,
     resources : SUBSET Keys, writes : SUBSET Keys,
     tier : 0..3, permittedResources : SUBSET Keys,
     permittedWrites : SUBSET Keys,
     approval : BOOLEAN, review : BOOLEAN, audit : BOOLEAN,
     defects : SUBSET Defects]

Gates == {"owner_approval", "reviewer", "auditor"}

\* `minimum_risk_tier`
MinimumTier(sideEffect) ==
    CASE sideEffect = "read_only" -> 0
      [] sideEffect = "reversible_local_write" -> 1
      [] sideEffect \in {"repository_write", "network_action", "publication",
                         "external_side_effect"} -> 2
      [] OTHER -> 3

NeedsAudit(sideEffect) ==
    sideEffect \in {"network_action", "publication", "external_side_effect"}

PermissionsCover(request) ==
    /\ request.resources \subseteq request.permittedResources
    /\ request.writes \subseteq request.permittedWrites
    /\ request.sideEffect = "read_only" => request.writes = {}

TierAdmitted(request) ==
    /\ request.tier >= MinimumTier(request.sideEffect)
    /\ request.tier # 3

\* The declarations each tier asks for.
GatesDeclared(request) ==
    /\ request.tier >= 1 => request.review
    /\ request.tier = 2 =>
          /\ request.approval
          /\ NeedsAudit(request.sideEffect) => request.audit

Outcome(request) ==
    IF /\ request.defects = {}
       /\ PermissionsCover(request)
       /\ TierAdmitted(request)
       /\ GatesDeclared(request)
    THEN IF request.tier = 2 THEN "pause" ELSE "allow"
    ELSE "deny"

\* The requirements returned with an operation that is not denied.
RequiredGates(request) ==
    CASE request.tier = 0 -> {}
      [] request.tier = 1 -> {"reviewer"}
      [] OTHER -> {"owner_approval", "reviewer"}
                    \union (IF request.audit THEN {"auditor"} ELSE {})
=============================================================================
