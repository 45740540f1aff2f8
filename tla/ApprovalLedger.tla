---------------------------- MODULE ApprovalLedger ----------------------------
(***************************************************************************)
(* DurableGuardrailAuthority of rust/ovca-runtime-core/src/                *)
(* durable_guardrails.rs: one versioned row per approval, which callers in *)
(* several processes create, decide and consume with compare-and-swap, and *)
(* the effects that guarded executions and resumes invoke.                 *)
(*                                                                         *)
(* A step is one SQLite transaction with the computation that follows it,  *)
(* or the invocation of an effect.  A call that answers without a change,  *)
(* such as a denied request, a resume of a pending approval or a decision  *)
(* that comes second, is a stuttering step.  An effect that fails or       *)
(* panics was invoked all the same.  The gates stored with a request are   *)
(* those the policy derives from it, so a row carries the request alone.   *)
(***************************************************************************)
EXTENDS GuardPolicy, FiniteSets

CONSTANTS
    Callers,           \* concurrent calls into the ledger
    ApprovalIds,       \* approval identifiers the callers choose from
    Requests,          \* guard requests the callers make
    Instants,          \* instants of requests and decisions
    CasRetryLimit,     \* conflicts a decision survives
    None

ASSUME LedgerAssumption ==
    /\ Requests \subseteq GuardRequest
    /\ Instants \subseteq Nat
    /\ CasRetryLimit \in Nat
    /\ IsFiniteSet(Callers)

VARIABLES
    ledger,     \* approval -> its versioned row, None before it is requested
    calls,      \* each caller's call in progress, or the answer to its last
    ran,        \* history: approval -> invocations of its effect
    lost,       \* history: approvals whose consumer died before the effect
    direct      \* history: requests whose effect ran without an approval

vars == <<ledger, calls, ran, lost, direct>>

Decision == [id : ApprovalIds, guardId : GuardIds,
             disposition : {"approved", "denied"}, at : Instants]

Row == [revision : Nat, request : Requests, requestedAt : Instants,
        state : {"pending", "approved", "denied", "consumed"},
        decision : Decision \union {None}]

ASSUME NoneDistinct == None \notin Row /\ None \notin Decision
                          /\ None \notin Requests /\ None \notin ApprovalIds

Call == [pc : {"idle", "consume", "effect", "decide"},
         id : ApprovalIds \union {None},
         request : Requests \union {None},      \* of a resume
         decision : Decision \union {None},     \* of record_decision
         loaded : Row \union {None},
         conflicts : Nat,
         reply : {"none", "decided", "executed", "consumed", "conflict",
                  "exhausted"}]

TypeOK ==
    /\ ledger \in [ApprovalIds -> Row \union {None}]
    /\ calls \in [Callers -> Call]
    /\ ran \in [ApprovalIds -> Nat]
    /\ lost \subseteq ApprovalIds
    /\ direct \subseteq Requests

Idle == [pc |-> "idle", id |-> None, request |-> None, decision |-> None,
         loaded |-> None, conflicts |-> 0, reply |-> "none"]

Init ==
    /\ ledger = [id \in ApprovalIds |-> None]
    /\ calls = [c \in Callers |-> Idle]
    /\ ran = [id \in ApprovalIds |-> 0]
    /\ lost = {}
    /\ direct = {}

-----------------------------------------------------------------------------
\* evaluate_and_record and execute_guarded.

\* The policy allows the request: its effect is invoked at once.
ExecuteDirectly(c, request) ==
    /\ calls[c].pc = "idle"
    /\ Outcome(request) = "allow"
    /\ direct' = direct \union {request}
    /\ UNCHANGED <<ledger, calls, ran, lost>>

\* The policy pauses it: the pending row is inserted unless there is one.
RequestApproval(c, id, request, at) ==
    /\ calls[c].pc = "idle"
    /\ Outcome(request) = "pause"
    /\ ledger[id] = None
    /\ ledger' = [ledger EXCEPT ![id] =
                    [revision |-> 0, request |-> request, requestedAt |-> at,
                     state |-> "pending", decision |-> None]]
    /\ UNCHANGED <<calls, ran, lost, direct>>

-----------------------------------------------------------------------------
\* resume_approved: consume the approval, then invoke the effect.

\* Fault: only the identifier of the guard request is compared.
SameRequestById(row, request) == row.request.guardId = request.guardId

SameRequest(row, request) == row.request = request

Loaded(id) == ledger[id]

StartResume(c, id, request) ==
    /\ calls[c].pc = "idle"
    /\ ledger[id] # None
    /\ SameRequest(ledger[id], request)
    /\ ledger[id].state = "approved"
    /\ calls' = [calls EXCEPT ![c] =
                   [Idle EXCEPT !.pc = "consume", !.id = id,
                                !.request = request, !.loaded = Loaded(id)]]
    /\ UNCHANGED <<ledger, ran, lost, direct>>

\* Fault: the swap does not compare.
RevisionIgnored(c) == TRUE

RevisionMatches(c) == ledger[calls[c].id].revision = calls[c].loaded.revision

\* Fault: the row is written back as it was.
ConsumedKeepingState(row) == [row EXCEPT !.revision = @ + 1]

Consumed(row) == [row EXCEPT !.revision = @ + 1, !.state = "consumed"]

Consume(c) ==
    /\ calls[c].pc = "consume"
    /\ RevisionMatches(c)
    /\ ledger' = [ledger EXCEPT ![calls[c].id] = Consumed(calls[c].loaded)]
    /\ calls' = [calls EXCEPT ![c].pc = "effect"]
    /\ UNCHANGED <<ran, lost, direct>>

\* The race for the approval is lost: AlreadyConsumed, or DecisionConflict.
ConsumeConflict(c) ==
    /\ calls[c].pc = "consume"
    /\ ~RevisionMatches(c)
    /\ calls' = [calls EXCEPT ![c] =
                   [Idle EXCEPT !.reply =
                      IF ledger[calls[c].id].state = "consumed"
                      THEN "consumed" ELSE "conflict"]]
    /\ UNCHANGED <<ledger, ran, lost, direct>>

Perform(c) ==
    /\ calls[c].pc = "effect"
    /\ ran' = [ran EXCEPT ![calls[c].id] = @ + 1]
    /\ calls' = [calls EXCEPT ![c] = [Idle EXCEPT !.reply = "executed"]]
    /\ UNCHANGED <<ledger, lost, direct>>

-----------------------------------------------------------------------------
\* record_decision: the owner's word, first writer wins.

DecisionFits(row, decision) ==
    /\ decision.guardId = row.request.guardId
    /\ decision.at >= row.requestedAt

AlreadyRecorded(row, decision) == row.decision = decision

Undecided(row) == row.state = "pending"

Answered(decision) == [Idle EXCEPT !.decision = decision, !.reply = "decided"]

StartDecision(c, decision) ==
    LET row == ledger[decision.id] IN
    /\ calls[c].pc = "idle"
    /\ row # None
    /\ DecisionFits(row, decision)
    /\ ~AlreadyRecorded(row, decision)
    /\ Undecided(row)
    /\ calls' = [calls EXCEPT ![c] =
                   [Idle EXCEPT !.pc = "decide", !.id = decision.id,
                                !.decision = decision,
                                !.loaded = Loaded(decision.id)]]
    /\ UNCHANGED <<ledger, ran, lost, direct>>

RepeatDecision(c, decision) ==
    LET row == ledger[decision.id] IN
    /\ calls[c].pc = "idle"
    /\ row # None
    /\ DecisionFits(row, decision)
    /\ AlreadyRecorded(row, decision)
    /\ calls' = [calls EXCEPT ![c] = Answered(decision)]
    /\ UNCHANGED <<ledger, ran, lost, direct>>

Decided(row, decision) ==
    [row EXCEPT !.revision = @ + 1, !.state = decision.disposition,
                !.decision = decision]

RecordDecision(c) ==
    /\ calls[c].pc = "decide"
    /\ RevisionMatches(c)
    /\ ledger' = [ledger EXCEPT ![calls[c].id] =
                    Decided(calls[c].loaded, calls[c].decision)]
    /\ calls' = [calls EXCEPT ![c] = Answered(calls[c].decision)]
    /\ UNCHANGED <<ran, lost, direct>>

AttemptLeft(c) == calls[c].conflicts < CasRetryLimit

\* The next round of the loop, on the row the conflict returned.
AfterConflict(c) ==
    LET row == ledger[calls[c].id] IN
    IF AlreadyRecorded(row, calls[c].decision) THEN Answered(calls[c].decision)
    ELSE IF ~Undecided(row) THEN Idle
    ELSE [calls[c] EXCEPT !.loaded = row, !.conflicts = @ + 1]

DecisionConflict(c) ==
    /\ calls[c].pc = "decide"
    /\ ~RevisionMatches(c)
    /\ calls' = [calls EXCEPT ![c] =
                   IF AttemptLeft(c) THEN AfterConflict(c)
                   ELSE [Idle EXCEPT !.reply = "exhausted"]]
    /\ UNCHANGED <<ledger, ran, lost, direct>>

-----------------------------------------------------------------------------
\* The caller's process dies: what it wrote stays, an effect not yet invoked
\* never is.
Crash(c) ==
    /\ calls[c] # Idle
    /\ lost' = IF calls[c].pc = "effect" THEN lost \union {calls[c].id} ELSE lost
    /\ calls' = [calls EXCEPT ![c] = Idle]
    /\ UNCHANGED <<ledger, ran, direct>>

Next == \E c \in Callers :
    \/ \E request \in Requests : ExecuteDirectly(c, request)
    \/ \E id \in ApprovalIds, request \in Requests, at \in Instants :
          RequestApproval(c, id, request, at)
    \/ \E id \in ApprovalIds, request \in Requests : StartResume(c, id, request)
    \/ Consume(c)
    \/ ConsumeConflict(c)
    \/ Perform(c)
    \/ \E decision \in Decision : StartDecision(c, decision)
    \/ \E decision \in Decision : RepeatDecision(c, decision)
    \/ RecordDecision(c)
    \/ DecisionConflict(c)
    \/ Crash(c)

Spec == Init /\ [][Next]_vars

-----------------------------------------------------------------------------
\* Properties.

IsConsumed(id) == ledger[id] # None /\ ledger[id].state = "consumed"

Performing(id) == {c \in Callers : calls[c].pc = "effect" /\ calls[c].id = id}

\* A consumed approval is accounted for exactly once: its effect was invoked,
\* or one caller is about to invoke it, or that caller died.  So no effect
\* runs twice, none runs without consumption, and an approval is spent in vain
\* only by a crash between the two steps of resume_approved.
EffectIsAccountedFor ==
    \A id \in ApprovalIds :
        ran[id] + Cardinality(Performing(id)) + (IF id \in lost THEN 1 ELSE 0)
            = IF IsConsumed(id) THEN 1 ELSE 0

\* When an effect is about to run under an approval, the owner approved this
\* very request, after it was made, and the policy wanted the owner asked.
ApprovedExactly ==
    \A c \in Callers : calls[c].pc = "effect" =>
        LET row == ledger[calls[c].id] IN
        /\ row.request = calls[c].request
        /\ Outcome(row.request) = "pause"
        /\ row.decision # None
        /\ row.decision.disposition = "approved"
        /\ row.decision.guardId = calls[c].request.guardId
        /\ row.decision.at >= row.requestedAt

\* Whatever profile the caller declares, what runs without the owner is local,
\* and a local write comes with the Reviewer's gate.
DirectEffectsAreLocal ==
    \A request \in direct :
        \/ request.sideEffect = "read_only" /\ request.writes = {}
        \/ /\ request.sideEffect = "reversible_local_write"
           /\ "reviewer" \in RequiredGates(request)

\* An owner who was told that a decision is recorded can rely on it: the row
\* holds that decision from then on.
AnsweredDecisionStands ==
    \A c \in Callers : calls[c].reply = "decided" =>
        ledger[calls[c].decision.id].decision = calls[c].decision

\* A resume that loses the race is told that the approval was consumed: its
\* DecisionConflict answer is never given.
LoserLearnsConsumption == \A c \in Callers : calls[c].reply # "conflict"

\* One retry is enough for a decision: contention can be exhausted only when
\* the authority was built without retries.
OneRetryIsEnough ==
    \A c \in Callers : calls[c].reply = "exhausted" => CasRetryLimit = 0

\* The ledger keeps the promise of ApprovalContract.
Contract == INSTANCE ApprovalContract WITH
    status <- [id \in ApprovalIds |->
                 IF ledger[id] = None THEN "absent" ELSE ledger[id].state],
    done <- ran

ContractSpec == Contract!Spec
=============================================================================
