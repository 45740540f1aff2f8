---------------------------- MODULE FailureRouting ----------------------------
(***************************************************************************)
(* To whom a classified verification failure goes:                         *)
(* route_classified_verification_failure and                               *)
(* validate_failure_classifications of src/rust/ovca-types/src/            *)
(* goal_runtime/local_verification/targeted_rerun.rs, and                  *)
(* VerificationFailure::validate of local_verification.rs.                 *)
(*                                                                         *)
(* The functions are pure and nothing in the program calls them yet.  Here *)
(* a caller classifies failures one after the other; it presents a new one *)
(* with the one it supersedes, if there is any, and routes it.             *)
(***************************************************************************)
EXTENDS Naturals, FiniteSets

CONSTANTS
    Failures,       \* names of failure records
    Workers,        \* actors that classify and own
    FailedCriteria, \* criteria a failure may be about
    Reported,       \* categories that are looked at
    Bindings,       \* who is bound to what: [Owners -> Workers or Nobody]
    MaxClock,       \* bound: the latest instant
    Nobody          \* no one, and no record

VARIABLES
    classified,     \* classifications that were routed
    routes          \* for a failure that was routed, its route

routingVars == <<classified, routes>>

Sensitive == {"ProductBug", "TestFragility"}

Categories ==
    Sensitive \cup {"SourceDrift", "PolicyBlock", "ContractViolation", "Timeout",
                    "Environment", "Infrastructure", "TestFailedUnclassified"}

Owners == {"ImplementationActor", "VerifierActor", "CapabilityOwner", "TestOwner",
           "Coordinator", "ConfirmationOwner"}

Classifications ==
    [id : Failures, category : Reported, confirmation : {"Provisional", "Confirmed"},
     criterion : FailedCriteria, supersedes : Failures \cup {Nobody},
     at : 0..MaxClock, classifier : Workers]

ASSUME RoutingAssumption ==
    /\ Reported \subseteq Categories
    /\ Bindings \subseteq [Owners -> Workers \cup {Nobody}]
    /\ Nobody \notin Workers \cup Failures
    /\ MaxClock \in Nat

IsSensitive(f) == f.category \in Sensitive

\* VerificationFailure::validate
FailureValid(f) ==
    /\ f.supersedes # f.id
    /\ IsSensitive(f) => (f.supersedes = Nobody <=> f.confirmation = "Provisional")

\* Fault: whoever classified first may confirm.
ConfirmsAnyone(f, prior) ==
    /\ prior.id = f.supersedes
    /\ prior.confirmation = "Provisional"
    /\ prior.category = f.category /\ prior.criterion = f.criterion
    /\ prior.at <= f.at

\* validate_failure_classifications: f is what a second actor makes of prior.
Confirms(f, prior) ==
    /\ prior.id = f.supersedes
    /\ prior.confirmation = "Provisional"
    /\ prior.category = f.category /\ prior.criterion = f.criterion
    /\ prior.at <= f.at
    /\ prior.classifier # f.classifier

\* A set of classifications that are presented together.
ClassificationsValid(set) ==
    /\ \A f \in set : FailureValid(f)
    /\ \A f, g \in set : f.id = g.id => f = g
    /\ \A f \in set : IsSensitive(f) /\ f.confirmation = "Confirmed" =>
            \E prior \in set : Confirms(f, prior)

\* failure_owner_binding
OwnerOf(category) ==
    CASE category = "ProductBug" -> "CapabilityOwner"
      [] category = "TestFragility" -> "TestOwner"
      [] category = "SourceDrift" -> "ImplementationActor"
      [] category \in {"PolicyBlock", "ContractViolation"} -> "VerifierActor"
      [] OTHER -> "Coordinator"

Blocked == [directive |-> "Blocked", target |-> Nobody]

\* route_classified_verification_failure; prior is Nobody when there is none.
Route(f, prior, bindings, retryPermitted) ==
    LET awaits == f.confirmation = "Provisional" /\ IsSensitive(f)
        target == bindings[IF awaits THEN "ConfirmationOwner" ELSE OwnerOf(f.category)]
    IN IF \/ ~ClassificationsValid({f} \cup ({prior} \ {Nobody}))
          \/ Nobody \in {bindings["ImplementationActor"], bindings["VerifierActor"], target}
          \/ bindings["ImplementationActor"] = bindings["VerifierActor"]
          \/ awaits /\ target = f.classifier
       THEN Blocked
       ELSE [directive |-> IF awaits THEN "AwaitingConfirmation"
                           ELSE IF retryPermitted THEN "Retry" ELSE "EscalateToOwner",
             target |-> target]

-----------------------------------------------------------------------------
RoutingInit == classified = {} /\ routes = << >>

\* A failure has its name for itself; a route that is blocked leaves nothing.
ClassifyAndRoute(f, prior, bindings, retryPermitted) ==
    LET route == Route(f, prior, bindings, retryPermitted) IN
    /\ \A other \in classified : other.id # f.id
    /\ route # Blocked
    /\ classified' = classified \cup {f}
    /\ routes' = [id \in DOMAIN routes \cup {f.id} |->
                    IF id = f.id THEN route ELSE routes[id]]

RoutingStep ==
    \E f \in Classifications, prior \in classified \cup {Nobody},
        bindings \in Bindings, retryPermitted \in BOOLEAN :
            ClassifyAndRoute(f, prior, bindings, retryPermitted)

-----------------------------------------------------------------------------
(***************************************************************************)
(* Properties.                                                             *)
(***************************************************************************)

\* Nobody is sent to repair a product or a test on the word of one actor: when
\* such a failure reaches its owner, somebody else had classified it the same
\* way before, and that first word itself went to a third party for confirmation
\* (route_classified_verification_failure, validate_failure_classifications).
SensitiveFailuresAreConfirmed ==
    \A f \in classified :
        IsSensitive(f) /\ routes[f.id].directive # "AwaitingConfirmation" =>
            \E first \in classified :
                /\ first.id # f.id /\ first.classifier # f.classifier
                /\ first.category = f.category /\ first.criterion = f.criterion
                /\ routes[first.id].directive = "AwaitingConfirmation"
                /\ routes[first.id].target # first.classifier
=============================================================================
