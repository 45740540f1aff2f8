----------------------------- MODULE ReviewAudit -----------------------------
(***************************************************************************)
(* Decisions of a reviewer and an auditor in detail: review_audit.rs of    *)
(* src/rust/ovca-runtime-core/src, with the contracts that it reads and    *)
(* the completion rule of validate_run_transition (src/rust/ovca-types/    *)
(* src/goal_runtime.rs).                                                   *)
(*                                                                         *)
(* RunReplay knows of a decision its verdict, or that it is invalid, and   *)
(* of a claim that it covers the goal.  Here are the criteria, the claim   *)
(* of the completion evidence, the assessments and the references, from    *)
(* which all of that is derived; the functions are pure.  The order of     *)
(* references is kept, since lists out of order are refused; texts,        *)
(* versions and the canonical order of criteria are not.                   *)
(***************************************************************************)
EXTENDS RunReplay

CONSTANTS
    GoalCriteria,   \* the criteria of the goal: [names -> kinds]
    References,     \* lists of references that a claim may come with
    Catalogs,       \* lists of references as they were recorded
    Assessments,    \* what a decision may say of a criterion
    Others          \* decisions that are wrong in another way

Kinds == {"acceptance", "verification", "done"}

Assessment == [satisfied : BOOLEAN, refs : SUBSET Bundles]

\* ReviewDecision and AuditDecision; bound: to the run and the goal; reviewed:
\* the identity of the decision an audit is about; at: whether it is decided
\* before the other one.
Decision == [role : Roles, bound : BOOLEAN, verdict : {"pass", "fail"},
             reviewed : BOOLEAN, before : BOOLEAN,
             assessments : UNION {[names -> Assessment] : names \in SUBSET DOMAIN GoalCriteria}]

ASSUME DecisionAssumption ==
    /\ GoalCriteria \in [DOMAIN GoalCriteria -> Kinds]
    /\ Bundles \subseteq Nat
    /\ References \cup Catalogs \subseteq Seq(Bundles)
    /\ Assessments \subseteq Assessment
    /\ Others \subseteq Decision

\* The precondition of a goal: kinds of which every criterion is required.
Goals == [requires : SUBSET ({GoalCriteria[c] : c \in DOMAIN GoalCriteria} \ {"done"}),
          minimum : {0, 2}]
Claims == [refs : References, satisfied : SUBSET DOMAIN GoalCriteria]
Contexts == [goal : Goals, claim : Claims, catalog : Catalogs]

Members(list) == {list[i] : i \in DOMAIN list}

MinimumReferences(goal) == IF goal.minimum > 1 THEN goal.minimum ELSE 1

-----------------------------------------------------------------------------
(***************************************************************************)
(* Validation of one decision.                                             *)
(***************************************************************************)

\* validate_context, validate_catalog, validate_completion_evidence
ContextValid(context) ==
    /\ Ordered(context.catalog)
    /\ Ordered(context.claim.refs)
    /\ Len(context.claim.refs) >= MinimumReferences(context.goal)

\* validate_assessment_evidence
AssessmentValid(context, a) ==
    /\ a.refs \subseteq Members(context.claim.refs) \cap Members(context.catalog)
    /\ a.satisfied => a.refs # {}

\* validate_criterion_coverage
CoversCriteria(assessments) == DOMAIN assessments = DOMAIN GoalCriteria

\* validate_completion_alignment: only a review has to agree with the claim.
AlignedWithClaim(context, assessments) ==
    {c \in DOMAIN assessments : assessments[c].satisfied} = context.claim.satisfied

\* Fault: what is only to be done counts like what may be left out.
DeriveVerdictOfRequired(goal, assessments) ==
    IF \E c \in DOMAIN assessments :
        ~assessments[c].satisfied /\ GoalCriteria[c] \in goal.requires
    THEN "fail" ELSE "pass"

\* derive_verdict
DeriveVerdict(goal, assessments) ==
    IF \E c \in DOMAIN assessments :
        ~assessments[c].satisfied /\ GoalCriteria[c] \in goal.requires \cup {"done"}
    THEN "fail" ELSE "pass"

\* validate_review_decision and validate_audit_decision, the common part.
DecisionValid(context, d, role) ==
    /\ ContextValid(context)
    /\ d.role = role /\ d.bound
    /\ \A c \in DOMAIN d.assessments : AssessmentValid(context, d.assessments[c])
    /\ CoversCriteria(d.assessments)
    /\ Members(context.claim.refs) \subseteq Members(context.catalog)
    /\ d.verdict = DeriveVerdict(context.goal, d.assessments)

ReviewValid(context, d) ==
    DecisionValid(context, d, "reviewer") /\ AlignedWithClaim(context, d.assessments)

AuditValid(context, d) ==
    DecisionValid(context, d, "auditor") /\ d.reviewed /\ ~d.before

-----------------------------------------------------------------------------
(***************************************************************************)
(* Resolution, and the acceptance of a completion.                         *)
(***************************************************************************)

\* resolve_validated_decisions, for verdicts
Resolved(review, audit) ==
    IF review # audit THEN "OwnerEscalation"
    ELSE IF review = "pass" THEN "Pass" ELSE "Fail"

\* The refusal stands for each ReviewAuditError.
Outcomes == {"Refused", "AwaitingReview", "AwaitingAudit", "Pass", "Fail", "OwnerEscalation"}

\* evaluate_review_audit: without a decision nothing is validated.
Resolution(context, gates, review, audit) ==
    LET view == [gates |-> gates] IN
    IF review = None
    THEN IF audit # None THEN "Refused"
         ELSE IF ReviewRequired(view) THEN "AwaitingReview" ELSE "Pass"
    ELSE IF ~ReviewValid(context, review) THEN "Refused"
    ELSE IF audit = None
    THEN IF AuditRequired(view) THEN "AwaitingAudit"
         ELSE Resolved(review.verdict, review.verdict)
    ELSE IF ~AuditValid(context, audit) THEN "Refused"
    ELSE Resolved(review.verdict, audit.verdict)

\* validate_run_transition: the criteria that the claim has to name.
ClaimCovers(goal, claim) ==
    \A c \in DOMAIN GoalCriteria :
        \/ c \in claim.satisfied
        \/ GoalCriteria[c] # "done" /\ GoalCriteria[c] \notin goal.requires

\* ... and the references, which the run has attached or recorded.
ClaimSuffices(context, attached) ==
    /\ Cardinality(Members(context.claim.refs)) >= MinimumReferences(context.goal)
    /\ ClaimCovers(context.goal, context.claim)
    /\ Members(context.claim.refs) \subseteq attached

\* replay_run, for a transition to completed.
CompletionAccepted(context, from, gates, attached, review, audit) ==
    /\ from = CompletionGate([gates |-> gates])
    /\ ClaimSuffices(context, attached)
    /\ Resolution(context, gates, review, audit) = "Pass"

-----------------------------------------------------------------------------
(***************************************************************************)
(* What the gate is for.                                                   *)
(***************************************************************************)
Every(role) ==
    {[role |-> role, bound |-> TRUE, verdict |-> verdict, reviewed |-> TRUE,
      before |-> FALSE, assessments |-> assessments] :
        verdict \in {"pass", "fail"},
        assessments \in [DOMAIN GoalCriteria -> Assessments]}

\* The decisions of a role that are valid, and a few that are not.
Reviews(context) ==
    {d \in Every("reviewer") : ReviewValid(context, d)} \cup Others \cup {None}
Audits(context) ==
    {d \in Every("auditor") : AuditValid(context, d)} \cup Others \cup {None}

\* Found satisfied, on references that the claim names and the run recorded.
Grounded(context, d) ==
    \A c \in DOMAIN GoalCriteria :
        GoalCriteria[c] \in context.goal.requires \cup {"done"} =>
            /\ d.assessments[c].satisfied
            /\ d.assessments[c].refs \cap Members(context.claim.refs)
                    \cap Members(context.catalog) # {}

\* What RunReplay makes of the same events.
ViewOf(context, from, gates, attached, review, audit) ==
    [status |-> from, evidence |-> attached, catalog |-> context.catalog, gates |-> gates,
     completion |-> [type |-> "completion",
                     bundle |-> IF context.claim.refs = << >> THEN None
                                ELSE context.claim.refs[1],
                     covers |-> ClaimCovers(context.goal, context.claim)],
     review |-> IF review = None THEN None
                ELSE IF ReviewValid(context, review) THEN review.verdict ELSE "invalid",
     audit |-> IF audit = None THEN None
               ELSE IF AuditValid(context, audit) THEN audit.verdict ELSE "invalid"]

\* For every goal, claim, catalog and pair of decisions: a completion that is
\* accepted rests on recorded references for each required criterion in the eyes
\* of everybody who had to decide, and nobody who decided found it failed; a
\* reviewer can only confirm the claim, since a review that disagrees with it is
\* invalid; and RunReplay accepts the same completions.
EveryGateIsGrounded ==
    \A context \in Contexts :
        LET required(gates) == [gates |-> gates]
            reviews == Reviews(context)
            audits == Audits(context)
        IN
        /\ \A review \in reviews \ {None} : ReviewValid(context, review) =>
                (review.verdict = "pass" <=> ClaimCovers(context.goal, context.claim))
        /\ \A review \in reviews, audit \in audits, gates \in SUBSET {"reviewer", "auditor"},
              from \in {"running", "reviewing", "auditing"},
              attached \in {Members(context.catalog), Bundles} :
            LET accepted == CompletionAccepted(context, from, gates, attached, review, audit)
            IN
            /\ Resolution(context, gates, review, audit) \in Outcomes
            /\ accepted =>
                /\ ReviewRequired(required(gates)) =>
                        review # None /\ Grounded(context, review)
                /\ AuditRequired(required(gates)) =>
                        audit # None /\ Grounded(context, audit)
                /\ review # None => review.verdict = "pass"
                /\ audit # None => audit.verdict = "pass"
            /\ /\ Len(context.claim.refs) <= 1 /\ context.goal.minimum <= 1
               /\ review = None => audit = None
               => (accepted <=>
                    MayComplete(ViewOf(context, from, gates, attached, review, audit)))
=============================================================================
