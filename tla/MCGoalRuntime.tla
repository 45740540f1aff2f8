---------------------------- MODULE MCGoalRuntime ----------------------------
(* One or two runs, and the events their callers append.                   *)
EXTENDS GoalRuntime, ReviewPackets, TLC

CONSTANTS c1, c2, r1, r2, p1

OneRun == [c \in Callers |-> r1]
OwnRuns == (c1 :> r1) @@ (c2 :> r2)

MCEventIds == Callers \X (0..MaxStamps)

By(role, payload) == [role |-> role, payload |-> payload]
Move(from, to) ==
    By("coordinator", [type |-> "status", from |-> from, to |-> to])

\* What takes a run that was only created further, and one that was planned.
ShortInputs == {Move("draft", "accepted"), Move("planned", "running")}

\* What it needs to complete.
Evidence == {By("engineer", [type |-> "evidence", bundle |-> b]) : b \in Bundles}
Completion ==
    {By("engineer", [type |-> "completion", bundle |-> b, covers |-> TRUE]) :
       b \in Bundles}

\* ... with a review that the goal asks for and an audit that the requirements
\* ask for.
Gated == {Move("planned", "running"), Move("running", "reviewing"),
          Move("reviewing", "auditing"), Move("reviewing", "completed"),
          Move("auditing", "completed")}
Decisions == {By("reviewer", [type |-> "review", verdict |-> "pass"]),
              By("auditor", [type |-> "audit", verdict |-> "pass"]),
              By("auditor", [type |-> "audit", verdict |-> "fail"])}
Requirements == {By("coordinator", [type |-> "requirements", gates |-> {"auditor"}])}
GatedInputs ==
    {input \in Evidence \union Completion : input.payload.bundle = 1}
      \union Gated \union Decisions \union Requirements

\* The criteria of a goal, and what its reviewer and its auditor may say of them.
TwoCriteria == ("tested" :> "acceptance") @@ ("shown" :> "done")
NoCriteria == << >>

TheReferences == {<<>>, <<1>>, <<1, 2>>, <<2, 1>>}
TheCatalogs == {<<>>, <<1>>, <<1, 2>>, <<2, 1>>}
TheAssessments ==
    [satisfied : {TRUE}, refs : {{}, {1}, {2}, {1, 2}}] \union [satisfied : {FALSE}, refs : {{}}]

Sound(role) ==
    [role |-> role, bound |-> TRUE, verdict |-> "pass", reviewed |-> TRUE, before |-> FALSE,
     assessments |-> [c \in DOMAIN TwoCriteria |-> [satisfied |-> TRUE, refs |-> {1}]]]
OtherDecisions ==
    {[Sound(role) EXCEPT !.bound = FALSE] : role \in {"reviewer", "auditor"}}
      \union {[Sound("auditor") EXCEPT !.reviewed = FALSE],
              [Sound("auditor") EXCEPT !.before = TRUE],
              [Sound("auditor") EXCEPT !.assessments =
                    [c \in {"tested"} |-> [satisfied |-> TRUE, refs |-> {1}]]]}

\* Who works on a candidate: four people, or one of them twice.
Four == [engineer |-> "ann", verifier |-> "ben", reviewer |-> "cy", auditor |-> "di"]
TheCasts ==
    {Four, [Four EXCEPT !.verifier = "ann"], [Four EXCEPT !.reviewer = "ann"],
     [Four EXCEPT !.auditor = "cy"]}
TheOrigins == {(1 :> "engineer") @@ (2 :> made) : made \in {"engineer", "reviewer", "undigested"}}

\* On the runs that can be completed, what the gate of every completion stands
\* on (review_audit.rs, validate_run_transition), and what the two judges of an
\* independent review are handed and can do with it (independent_review.rs of
\* the contracts and of the core); see the two definitions.
GatesAreGrounded == log # << >> => EveryGateIsGrounded /\ EveryPacketCanBeDecided
=============================================================================
