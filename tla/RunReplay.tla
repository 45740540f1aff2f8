------------------------------- MODULE RunReplay -------------------------------
(***************************************************************************)
(* replay_run of rust/ovca-runtime-core/src/replay.rs: the state of a run  *)
(* that its event stream stands for, or the refusal of the stream.  With   *)
(* it, the status table of rust/ovca-types/src/goal_runtime.rs and the     *)
(* resolution of rust/ovca-runtime-core/src/review_audit.rs.               *)
(*                                                                         *)
(* Abstracted: an evidence reference is the verification bundle it names;  *)
(* completion evidence names one such reference or none, and covers the    *)
(* goal's criteria or not; a decision is valid or not (ReviewAudit has the *)
(* rules); one task stands for all.  Bundles are numbers, for the order of *)
(* their references.  Contract versions, the contents of plans and notes,  *)
(* projects and instants are left out.                                     *)
(***************************************************************************)
EXTENDS Integers, Sequences, FiniteSets

CONSTANTS
    Runs,
    EventIds,
    Bundles,           \* verification bundles
    GoalReview,        \* the goal's profile asks for a review
    GoalAudit,         \* ... for an audit
    None

Roles == {"coordinator", "engineer", "reviewer", "auditor"}

TerminalStatuses == {"completed", "failed", "cancelled"}

\* RUN_STATUS_TRANSITIONS
StatusTable ==
    {<<"draft", "accepted">>, <<"accepted", "planned">>,
     <<"planned", "running">>, <<"running", "awaiting_approval">>,
     <<"running", "reviewing">>, <<"running", "completed">>,
     <<"running", "failed">>, <<"awaiting_approval", "running">>,
     <<"awaiting_approval", "failed">>, <<"reviewing", "running">>,
     <<"reviewing", "auditing">>, <<"reviewing", "completed">>,
     <<"reviewing", "failed">>, <<"auditing", "reviewing">>,
     <<"auditing", "completed">>, <<"auditing", "failed">>}
    \union {"draft", "accepted", "planned", "running", "awaiting_approval",
            "reviewing", "auditing"} \X {"cancelled"}

Statuses == {move[1] : move \in StatusTable} \union TerminalStatuses

TaskStatuses == {"pending", "ready", "running", "awaiting_approval", "reviewing",
                 "completed", "failed", "cancelled"}

Verdicts == {"pass", "fail", "invalid"}

Payload ==
    [type : {"created", "plan", "note", "guard", "output",
              "final"}]
    \union [type : {"status"}, from : Statuses, to : Statuses]
    \union [type : {"task"}, from : TaskStatuses, to : TaskStatuses]
    \union [type : {"attached", "evidence"}, bundle : Bundles]
    \union [type : {"completion"}, bundle : Bundles \union {None},
            covers : BOOLEAN]
    \union [type : {"requirements"}, gates : SUBSET {"reviewer", "auditor"}]
    \union [type : {"review", "audit"}, verdict : Verdicts]

Event == [id : EventIds, run : Runs, sequence : Nat,
          previous : EventIds \union {None}, role : Roles, payload : Payload]

\* ReplayedRun
View == [status : Statuses, task : TaskStatuses, plan : BOOLEAN,
         evidence : SUBSET Bundles,     \* attached, by name or by reference
         catalog : Seq(Bundles),        \* recorded by reference, in this order
         completion : [type : {"completion"}, bundle : Bundles \union {None},
                       covers : BOOLEAN] \union {None},
         gates : (SUBSET {"reviewer", "auditor"}) \union {None},
         review : Verdicts \union {None}, audit : Verdicts \union {None},
         final : BOOLEAN]

NewView == [status |-> "draft", task |-> "pending", plan |-> FALSE,
            evidence |-> {}, catalog |-> << >>, completion |-> None,
            gates |-> None, review |-> None, audit |-> None, final |-> FALSE]

\* Nothing recorded is taken for nothing.
ASSUME ReplayAssumption ==
    /\ None \notin View
    /\ None \notin Verdicts
    /\ \A gates \in SUBSET {"reviewer", "auditor"} : gates # None

-----------------------------------------------------------------------------
\* The chain of events.

\* Fault: an identifier may come back.
UniqueIdsUnchecked(events) == TRUE

UniqueIds(events) ==
    \A i, j \in 1..Len(events) : events[i].id = events[j].id => i = j

Chained(events) ==
    /\ events # <<>>
    /\ \A i \in 1..Len(events) :
          /\ events[i].sequence = i - 1
          /\ events[i].previous = IF i = 1 THEN None ELSE events[i - 1].id
          /\ events[i].payload.type = "created" <=> i = 1
    /\ UniqueIds(events)

-----------------------------------------------------------------------------
\* The gate of a completion.

Gates(view) == IF view.gates = None THEN {} ELSE view.gates

AuditRequired(view) == GoalAudit \/ "auditor" \in Gates(view)

ReviewRequired(view) ==
    GoalReview \/ AuditRequired(view) \/ "reviewer" \in Gates(view)

\* `required_completion_gate`
CompletionGate(view) ==
    IF AuditRequired(view) THEN "auditing"
    ELSE IF ReviewRequired(view) THEN "reviewing"
    ELSE "running"

\* A list of references, each once and in the order of their names.
Ordered(list) == \A i, j \in DOMAIN list : i < j => list[i] < list[j]

\* A decision is only valid on a catalog that was recorded in order.
ReviewPasses(view) ==
    IF view.review = None THEN ~ReviewRequired(view)
    ELSE /\ view.review = "pass"
         /\ \E i \in DOMAIN view.catalog : view.catalog[i] = view.completion.bundle
         /\ Ordered(view.catalog)

\* Fault: a review that passes settles the matter.
ReviewAuditPassesOnReview(view) == ReviewPasses(view)

\* `evaluate_review_audit` resolves to Pass: no decision where none is
\* required, and no recorded decision but a pass.
ReviewAuditPasses(view) ==
    /\ ReviewPasses(view)
    /\ IF view.audit = None THEN ~AuditRequired(view) ELSE view.audit = "pass"

EvidenceSuffices(view) ==
    /\ view.completion # None
    /\ view.completion.bundle \in view.evidence
    /\ view.completion.covers

MayComplete(view) ==
    /\ view.status = CompletionGate(view)
    /\ EvidenceSuffices(view)
    /\ ReviewAuditPasses(view)

-----------------------------------------------------------------------------
\* One event.

MovesFrom(view, move) ==
    /\ move.from = view.status
    /\ <<move.from, move.to>> \in StatusTable

Accepts(view, event) ==
    LET payload == event.payload IN
    CASE payload.type = "plan" -> ~view.plan
      [] payload.type = "status" ->
            /\ MovesFrom(view, payload)
            /\ payload.to = "completed" => MayComplete(view)
      [] payload.type = "task" -> payload.from = view.task
      [] payload.type = "evidence" -> payload.bundle \notin view.evidence
      [] payload.type = "completion" -> view.completion = None
      [] payload.type = "requirements" -> view.gates = None
      [] payload.type = "review" -> event.role = "reviewer" /\ view.review = None
      [] payload.type = "audit" ->
            event.role = "auditor" /\ view.audit = None /\ view.review # None
      [] payload.type = "output" -> event.role # "coordinator"
      [] payload.type = "final" -> event.role = "coordinator" /\ ~view.final
      [] OTHER -> TRUE

After(view, payload) ==
    CASE payload.type = "plan" -> [view EXCEPT !.plan = TRUE]
      [] payload.type = "status" -> [view EXCEPT !.status = payload.to]
      [] payload.type = "evidence" ->
            [view EXCEPT !.evidence = @ \union {payload.bundle},
                         !.catalog = Append(@, payload.bundle)]
      [] payload.type = "attached" ->
            [view EXCEPT !.evidence = @ \union {payload.bundle}]
      [] payload.type = "task" -> [view EXCEPT !.task = payload.to]
      [] payload.type = "completion" -> [view EXCEPT !.completion = payload]
      [] payload.type = "requirements" -> [view EXCEPT !.gates = payload.gates]
      [] payload.type = "review" -> [view EXCEPT !.review = payload.verdict]
      [] payload.type = "audit" -> [view EXCEPT !.audit = payload.verdict]
      [] payload.type = "final" -> [view EXCEPT !.final = TRUE]
      [] OTHER -> view

\* What a stream stands for: a View, or None when it is refused.
Replay(events) ==
    LET view[n \in 0..Len(events)] ==
          IF n = 0 THEN NewView
          ELSE LET before == view[n - 1]
               IN  IF before = None \/ ~Accepts(before, events[n]) THEN None
                   ELSE After(before, events[n].payload)
    IN  IF Chained(events) THEN view[Len(events)] ELSE None

Replays(events) == Replay(events) # None
=============================================================================
