------------------------------ MODULE GoalRuntime ------------------------------
(***************************************************************************)
(* DurableGoalRuntime of rust/ovca-langgraph/src/goal_runtime.rs over the  *)
(* event log of rust/ovca-storage/src/run_events.rs: one file that the     *)
(* runs of several processes share, read as a whole and appended to line   *)
(* by line, beside the approval rows (ApprovalContract) and the current    *)
(* verification bundles.                                                   *)
(*                                                                         *)
(* A step is one read of the file with the checks that follow it, one      *)
(* append, or one transaction.  A call that is refused before it writes    *)
(* anything is a stuttering step.  An event that a caller supplies on a    *)
(* view it read before is refused unless that view still holds, so callers *)
(* supply the event that comes next.                                       *)
(***************************************************************************)
EXTENDS RunReplay, SequencesExt

CONSTANTS
    Callers,           \* threads or processes that call the runtime
    RunOf,             \* the run each caller works on
    Asks,              \* approvals guard evaluations ask for, None for none
    Inputs,            \* role and payload of the events callers append
    Published,         \* bundles that the verifier makes current
    Planned,           \* bound: the run that is there from the start, or None
    Enforced,          \* completion needs current verification evidence
    Malformed,         \* a line of the file that is no event
    Fallible,          \* bound: callers that die and whose writes fail
    MaxLines,          \* bound: lines that calls may fill the file to
    MaxStamps          \* bound: event identifiers of one caller

ASSUME RuntimeAssumption ==
    /\ RunOf \in [Callers -> Runs]
    /\ None \notin Runs
    /\ Planned # None => 4 <= MaxStamps /\ \E c \in Callers : RunOf[c] = Planned
    /\ MaxLines \in Nat /\ MaxStamps \in Nat
    /\ Fallible \subseteq Callers
    /\ Published \subseteq Bundles
    /\ Inputs \subseteq [role : Roles, payload : Payload]
    /\ Callers \X (0..MaxStamps) \subseteq EventIds
    /\ Malformed \notin Event

ApprovalIds == Asks \ {None}

VARIABLES
    log,        \* the lines of the file
    unended,    \* the last line has no newline yet
    calls,      \* each caller's call in progress and the answer to its last
    status,     \* approval -> state of its row
    named,      \* history: approvals whose pause event reached the file
    bank,       \* run -> its current verification bundle, None when stale
    lease       \* the caller that holds the completion admission lease

vars == <<log, unended, calls, status, named, bank, lease>>

Call == [pc : {"idle", "evaluate", "record", "append", "reload"},
         queue : Seq(Event), approval : ApprovalIds \union {None},
         stamps : 0..MaxStamps, reply : {"none", "ok", "failed"}]

TypeOK ==
    /\ log \in Seq(Event \union {Malformed})
    /\ unended \in BOOLEAN
    /\ calls \in [Callers -> Call]
    /\ status \in [ApprovalIds -> {"absent", "pending", "approved", "denied"}]
    /\ named \subseteq ApprovalIds
    /\ bank \in [Runs -> Bundles \union {None}]
    /\ lease \in Callers \union {None}
    /\ unended => log # <<>>

Approvals == INSTANCE ApprovalContract
    WITH done <- [id \in ApprovalIds |-> 0]

-----------------------------------------------------------------------------
\* The file.

\* Fault: malformed lines are skipped, as `read_jsonl` of jsonl.rs does.
ReadableLeniently == TRUE

\* `load_all` refuses the whole file for one malformed line.
Readable == Malformed \notin Range(log)

IsOf(run, line) == line # Malformed /\ line.run = run

\* The lines that are events of a run, in their order.
EventsOf(run, lines) ==
    LET own[n \in 0..Len(lines)] ==
          IF n = 0 THEN <<>>
          ELSE IF IsOf(run, lines[n]) THEN Append(own[n - 1], lines[n])
          ELSE own[n - 1]
    IN  own[Len(lines)]

\* `load_run`
Stream(run) == EventsOf(run, log)

\* An append after an unended line completes that line, and spoils it.
Appended(line) ==
    IF unended THEN [log EXCEPT ![Len(log)] = Malformed] ELSE Append(log, line)

\* Fault: the event is appended without a look at what it does to the run.
AdmissibleUnreplayed(event) == Stream(event.run) # <<>>

\* The prospective replay before an append.
Admissible(event) ==
    LET stream == Stream(event.run)
    IN  stream # <<>> /\ Replays(Append(stream, event))

\* The event that comes next in its run.
NextEvent(run, id, input) ==
    LET stream == Stream(run)
    IN  [id |-> id, run |-> run, sequence |-> Len(stream),
         previous |-> IF stream = <<>> THEN None ELSE Last(stream).id,
         role |-> input.role, payload |-> input.payload]

\* `build_planned_run`
Bootstrap(run, caller, stamp) ==
    LET id(n) == <<caller, stamp + n>>
        event(n, payload) ==
          [id |-> id(n), run |-> run, sequence |-> n - 1,
           previous |-> IF n = 1 THEN None ELSE id(n - 1),
           role |-> "coordinator", payload |-> payload]
    IN  <<event(1, [type |-> "created"]),
          event(2, [type |-> "status", from |-> "draft", to |-> "accepted"]),
          event(3, [type |-> "plan"]),
          event(4, [type |-> "status", from |-> "accepted", to |-> "planned"])>>

WriterOf(run) == CHOOSE c \in Callers : RunOf[c] = run

Idle(stamps, reply) == [pc |-> "idle", queue |-> <<>>, approval |-> None,
                        stamps |-> stamps, reply |-> reply]

Init ==
    /\ log = IF Planned = None THEN <<>> ELSE Bootstrap(Planned, WriterOf(Planned), 0)
    /\ unended = FALSE
    /\ calls = [c \in Callers |->
                  Idle(IF RunOf[c] = Planned /\ c = WriterOf(Planned) THEN 4 ELSE 0, "none")]
    /\ status = [id \in ApprovalIds |-> "absent"]
    /\ named = {}
    /\ bank = [run \in Runs |-> None]
    /\ lease = None

-----------------------------------------------------------------------------
\* Calls.

\* A caller stamps each event anew; after a failure it may retry with the
\* stamp it used.
Stamps(c) ==
    {calls[c].stamps + 1}
      \union (IF calls[c].reply = "failed" THEN {calls[c].stamps} ELSE {})

Starts(c, pc, queue, approval, stamps) ==
    /\ calls[c].pc = "idle"
    /\ Len(log) + Len(queue) <= MaxLines
    /\ stamps <= MaxStamps
    /\ calls' = [calls EXCEPT ![c] =
                   [pc |-> pc, queue |-> queue, approval |-> approval,
                    stamps |-> stamps, reply |-> "none"]]

Ends(c, reply) ==
    calls' = [calls EXCEPT ![c] = Idle(calls[c].stamps, reply)]

\* create_run: four appends, if the run has no event yet.
CreateRun(c) ==
    /\ Starts(c, "append", Bootstrap(RunOf[c], c, calls[c].stamps), None,
              calls[c].stamps + 4)
    /\ Readable
    /\ Stream(RunOf[c]) = <<>>
    /\ UNCHANGED <<log, unended, status, named, bank, lease>>

Completes(event) ==
    event.payload.type = "status" /\ event.payload.to = "completed"

\* append_event: load, replay with the event, append.
AppendEvent(c, stamp, input) ==
    LET event == NextEvent(RunOf[c], <<c, stamp>>, input) IN
    /\ Starts(c, "append", <<event>>, None, stamp)
    /\ Readable
    /\ Enforced => ~Completes(event)
    /\ Admissible(event)
    /\ UNCHANGED <<log, unended, status, named, bank, lease>>

LeaseFree == lease = None

\* The persisted completion evidence is what the current bundle admits.
EvidenceIsCurrent(run) ==
    LET view == Replay(Stream(run)) IN
    /\ view # None
    /\ bank[run] # None
    /\ bank[run] \in Range(view.catalog)
    /\ view.completion = [type |-> "completion", bundle |-> bank[run],
                          covers |-> TRUE]

\* append_verified_completion: the same under the lease of the evidence bank.
AppendVerifiedCompletion(c, stamp, input) ==
    LET event == NextEvent(RunOf[c], <<c, stamp>>, input) IN
    /\ Starts(c, "append", <<event>>, None, stamp)
    /\ Enforced
    /\ Completes(event)
    /\ LeaseFree
    /\ Readable
    /\ EvidenceIsCurrent(RunOf[c])
    /\ Admissible(event)
    /\ lease' = c
    /\ UNCHANGED <<log, unended, status, named, bank>>

\* evaluate_run_guard_and_record: load the run, evaluate, append the result.
\* No approval stands for a request that is allowed or denied.
StartGuard(c, stamp, id) ==
    LET event == NextEvent(RunOf[c], <<c, stamp>>,
                   [role |-> "coordinator", payload |-> [type |-> "guard"]])
    IN  /\ Starts(c, "evaluate", <<event>>, id, stamp)
        /\ Readable
        /\ Replays(Stream(RunOf[c]))
        /\ UNCHANGED <<log, unended, status, named, bank, lease>>

\* The stored row equals the pending envelope of this evaluation.
\* Fault: an approval the owner has answered is as good as a pending one.
StillPendingOrAnswered(id) == status[id] # "absent"

StillPending(id) == status[id] = "pending"

EvaluateGuard(c) ==
    LET id == calls[c].approval IN
    /\ calls[c].pc = "evaluate"
    /\ IF id # None /\ status[id] = "absent" THEN Approvals!RequestApproval(id)
       ELSE UNCHANGED status
    /\ IF id # None /\ status[id] # "absent" /\ ~StillPending(id)
       THEN Ends(c, "failed")
       ELSE calls' = [calls EXCEPT ![c].pc = "record"]
    /\ UNCHANGED <<log, unended, named, bank, lease>>

RecordGuard(c) ==
    /\ calls[c].pc = "record"
    /\ IF Readable /\ Admissible(calls[c].queue[1])
       THEN calls' = [calls EXCEPT ![c].pc = "append"]
       ELSE Ends(c, "failed")
    /\ UNCHANGED <<log, unended, status, named, bank, lease>>

-----------------------------------------------------------------------------
\* Appends.

NowNamed(c) ==
    IF calls[c].approval = None THEN named ELSE named \union {calls[c].approval}

LeaseAfter(c) == IF lease = c THEN None ELSE lease

AppendLine(c) ==
    /\ calls[c].pc = "append"
    /\ log' = Appended(Head(calls[c].queue))
    /\ unended' = FALSE
    /\ named' = NowNamed(c)
    /\ IF Len(calls[c].queue) = 1
       THEN /\ calls' = [calls EXCEPT ![c].pc = "reload", ![c].queue = <<>>]
            /\ lease' = LeaseAfter(c)
       ELSE /\ calls' = [calls EXCEPT ![c].queue = Tail(@)]
            /\ UNCHANGED lease
    /\ UNCHANGED <<status, bank>>

\* The write fails, or the process dies while it writes: nothing, a part of
\* the line, the line without its newline, or all of it is in the file.
AppendFails(c) ==
    /\ c \in Fallible
    /\ calls[c].pc = "append"
    /\ \/ UNCHANGED <<log, unended, named>>
       \/ /\ log' = Appended(Malformed)
          /\ unended' = TRUE
          /\ UNCHANGED named
       \/ /\ log' = Appended(Head(calls[c].queue))
          /\ unended' \in BOOLEAN
          /\ named' = NowNamed(c)
    /\ Ends(c, "failed")
    /\ lease' = LeaseAfter(c)
    /\ UNCHANGED <<status, bank>>

Reload(c) ==
    /\ calls[c].pc = "reload"
    /\ Ends(c, IF Readable /\ Replays(Stream(RunOf[c])) THEN "ok" ELSE "failed")
    /\ UNCHANGED <<log, unended, status, named, bank, lease>>

\* The caller dies between its steps.
Crash(c) ==
    /\ c \in Fallible
    /\ calls[c].pc \in {"evaluate", "record", "reload"}
    /\ Ends(c, "failed")
    /\ UNCHANGED <<log, unended, status, named, bank, lease>>

-----------------------------------------------------------------------------
\* The owner, through the approval ledger.
OwnerDecides(id) ==
    /\ Approvals!Decide(id)
    /\ UNCHANGED <<log, unended, calls, named, bank, lease>>

\* The verifier makes a bundle current, or the evidence goes stale.
Project(run, bundle) ==
    /\ LeaseFree
    /\ bank' = [bank EXCEPT ![run] = bundle]
    /\ UNCHANGED <<log, unended, calls, status, named, lease>>

Next ==
    \/ \E c \in Callers :
          \/ CreateRun(c)
          \/ \E stamp \in Stamps(c), input \in Inputs : AppendEvent(c, stamp, input)
          \/ \E stamp \in Stamps(c), input \in Inputs :
                AppendVerifiedCompletion(c, stamp, input)
          \/ \E stamp \in Stamps(c), id \in Asks : StartGuard(c, stamp, id)
          \/ EvaluateGuard(c)
          \/ RecordGuard(c)
          \/ AppendLine(c)
          \/ AppendFails(c)
          \/ Reload(c)
          \/ Crash(c)
    \/ \E id \in ApprovalIds : OwnerDecides(id)
    \/ \E run \in Runs, bundle \in Published \union {None} : Project(run, bundle)

Spec == Init /\ [][Next]_vars
-----------------------------------------------------------------------------
\* Properties.

\* With one writer per run, which the documentation asks of the callers, every
\* run in a readable file replays, a bootstrap cut short included.
StreamsReplay ==
    Readable => \A run \in Runs :
                   LET stream == Stream(run) IN stream # <<>> => Replays(stream)

\* No event is in the file twice, however often its caller retried with the
\* same stamp because the first answer was lost.
RetriesAreRecordedOnce ==
    \A i, j \in 1..Len(log) :
        log[i] # Malformed /\ log[j] # Malformed /\ log[i].id = log[j].id => i = j

\* A run is never read with less than was read before: an append that spoils
\* an event makes the file unreadable and not the run shorter.
NothingIsLostSilently ==
    [][Readable /\ Readable' =>
         \A run \in Runs : IsPrefix(Stream(run), Stream(run)')]_vars

CarriedBy(id) == {c \in Callers : calls[c].approval = id
                                   /\ calls[c].pc \in {"record", "append"}}

Stranded(id) ==
    /\ status[id] \in {"approved", "denied"}
    /\ id \notin named
    /\ CarriedBy(id) = {}

\* An approval that the owner answered before its pause reached the log stays
\* without an event: evaluating the guard again is refused.
StrandedStaysUnnamed ==
    [][\A id \in ApprovalIds : Stranded(id) => Stranded(id)']_vars

StatusOf(stream) == IF Replays(stream) THEN Replay(stream).status ELSE "none"

\* What is known before the i-th event of a stream: the payloads of a type.
Before(stream, i, type) ==
    {stream[j].payload : j \in {n \in 1..(i - 1) : stream[n].payload.type = type}}

\* What the completion of a run stands on: before it, the evidence it names was
\* attached, and every decision that the goal or the requirements ask for was
\* recorded as a pass, in the status that waits for it; no decision was a fail.
EarnedAt(stream, i) ==
    LET asked == UNION {p.gates : p \in Before(stream, i, "requirements")}
        reviews == {p.verdict : p \in Before(stream, i, "review")}
        audits == {p.verdict : p \in Before(stream, i, "audit")}
        attached == {p.bundle : p \in Before(stream, i, "attached")
                                       \union Before(stream, i, "evidence")}
    IN  /\ Completes(stream[i])
        /\ \E p \in Before(stream, i, "completion") : p.covers /\ p.bundle \in attached
        /\ reviews \union audits \subseteq {"pass"}
        /\ GoalReview \/ "reviewer" \in asked => reviews # {}
        /\ GoalAudit \/ "auditor" \in asked =>
              audits # {} /\ stream[i].payload.from = "auditing"

\* A completed run earned it.
CompletionIsEarned ==
    \A run \in Runs : StatusOf(Stream(run)) = "completed" =>
        \E i \in 1..Len(Stream(run)) : EarnedAt(Stream(run), i)
=============================================================================
