------------------------------ MODULE Foundation ------------------------------
(***************************************************************************)
(* The contracts that the role invocations and the tool boundary stand on: *)
(* principals, scopes, permission profiles, authorities, decisions about   *)
(* them and event envelopes (rust/ovca-types/src/foundation.rs).           *)
(*                                                                         *)
(* Identifiers, texts and contract versions are sound.  A digest is the    *)
(* contents it was taken of, so that a change makes it another one; where  *)
(* a caller says what the digest of something is, that is an argument of   *)
(* its own, which nothing compares with the contents.  Permission keys     *)
(* and evidence are numbers, for the order of their bytes.                 *)
(***************************************************************************)
EXTENDS Integers, Sequences

CONSTANT None

\* TryFrom<PrincipalV1> for Role: the owner has no legacy role.
LegacyRole(principal) == IF principal = "owner" THEN None ELSE principal

\* The lists the contracts keep in canonical order.
Ascending(list) == \A i \in 1..(Len(list) - 1) : list[i] < list[i + 1]

-----------------------------------------------------------------------------
(* Scopes, profiles, authorities.                                          *)

\* FoundationScopeV1::validate
ScopeValid(scope) ==
    /\ scope.goal = None => scope.task = None /\ scope.run = None
    /\ scope.task = None => scope.run = None

\* FoundationPermissionProfileV1::validate
ProfileValid(profile) ==
    Ascending(profile.resource_keys) /\ Ascending(profile.write_keys)

\* FoundationValidityV1::validate
WindowValid(validity) ==
    validity.until # None => validity.from < validity.until

\* The moment is in the window.
Covers(validity, at) ==
    /\ validity.from <= at
    /\ validity.until # None => at < validity.until

\* FoundationAuthorityV1::validate
AuthorityValid(authority) ==
    /\ ScopeValid(authority.scope)
    /\ ProfileValid(authority.profile)
    /\ WindowValid(authority.validity)

Statuses == {"pending", "active", "rejected", "stale", "revoked", "superseded"}

\* validate_validity_transition
ValidityMoves ==
    {<<"pending", "active">>, <<"pending", "rejected">>}
      \union {"active"} \X {"stale", "revoked", "superseded"}
      \union {"stale"} \X {"revoked", "superseded"}

-----------------------------------------------------------------------------
(* Decisions.                                                              *)

DecidedBy(kind) ==
    CASE kind = "approval" -> "owner"
      [] kind = "review" -> "reviewer"
      [] kind = "audit" -> "auditor"

Answers(kind) ==
    IF kind = "approval" THEN {"approved", "rejected"} ELSE {"passed", "failed"}

\* decision_status_allowed
DecisionStatuses(kind) == {"pending", "superseded"} \union Answers(kind)

\* FoundationDecisionV1::validate
DecisionValid(d) ==
    /\ d.evidence # <<>> /\ Ascending(d.evidence)
    /\ d.status = "superseded" <=> d.supersedes # None
    /\ d.supersedes # d.id
    /\ d.actor.id # d.subject.id
    /\ d.actor.role = DecidedBy(d.kind)
    /\ d.status \in DecisionStatuses(d.kind)

\* is_explicit_owner_approval
OwnerApproval(d) ==
    d.kind = "approval" /\ d.status = "approved" /\ DecisionValid(d)

Rank(visibility) ==
    CASE visibility = "private" -> 0
      [] visibility = "role_scoped" -> 1
      [] visibility = "shared" -> 2

\* Fault: any approval of the owner will do, whatever it was given for.
MayShowOnAnyApproval(authority, visibility, digest, approval) ==
    \/ Rank(visibility) <= Rank(authority.visibility)
    \/ /\ approval # None
       /\ OwnerApproval(approval)
       /\ approval.namespace = authority.namespace
       /\ approval.scope = authority.scope
       /\ approval.subject = authority.principal

\* validate_visibility_transition: to show more of it takes the owner's
\* approval of the digest that the caller supplies; it is not computed here.
MayShow(authority, visibility, digest, approval) ==
    \/ Rank(visibility) <= Rank(authority.visibility)
    \/ /\ approval # None
       /\ OwnerApproval(approval)
       /\ approval.namespace = authority.namespace
       /\ approval.scope = authority.scope
       /\ approval.subject = authority.principal
       /\ approval.of = digest

-----------------------------------------------------------------------------
(* Events.                                                                 *)

\* FoundationEventEnvelopeV1::validate
EnvelopeValid(e) ==
    /\ ScopeValid(e.scope)
    /\ e.sequence = 0 <=> e.previous = None
    /\ e.previous # e.id
=============================================================================
