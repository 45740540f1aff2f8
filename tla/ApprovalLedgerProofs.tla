-------------------------- MODULE ApprovalLedgerProofs --------------------------
(***************************************************************************)
(* Theorems about the approval ledger, for any number of callers,          *)
(* approvals and requests and for any retry limit.                         *)
(***************************************************************************)
EXTENDS ApprovalLedger, FiniteSetTheorems, TLAPS

-----------------------------------------------------------------------------
\* The inductive invariant.

\* A row goes through its revisions once: 0 is pending, 1 is decided, 2 is
\* consumed; what it says of the decision agrees with its state.
RowFits(row) ==
    /\ Outcome(row.request) = "pause"
    /\ row.revision = CASE row.state = "pending" -> 0
                        [] row.state = "consumed" -> 2
                        [] OTHER -> 1
    /\ IF row.state = "pending" THEN row.decision = None
       ELSE /\ row.decision \in Decision
            /\ DecisionFits(row, row.decision)
            /\ row.decision.disposition =
                 IF row.state = "denied" THEN "denied" ELSE "approved"

\* What a call loaded is not newer than the row, and is the row when the
\* revisions agree.
LoadedFits(rows, call) ==
    /\ call.id \in ApprovalIds
    /\ call.loaded \in Row
    /\ rows[call.id] \in Row
    /\ call.loaded.revision <= rows[call.id].revision
    /\ call.loaded.revision = rows[call.id].revision =>
          call.loaded = rows[call.id]

CallFits(rows, call) ==
    /\ call.pc = "consume" =>
          /\ LoadedFits(rows, call)
          /\ call.request \in Requests
          /\ call.loaded.state = "approved"
          /\ call.loaded.revision = 1
          /\ call.loaded.request = call.request
    /\ call.pc = "effect" =>
          /\ call.id \in ApprovalIds
          /\ rows[call.id] \in Row
          /\ rows[call.id].state = "consumed"
          /\ rows[call.id].request = call.request
    /\ call.pc = "decide" =>
          /\ LoadedFits(rows, call)
          /\ call.decision \in Decision
          /\ call.decision.id = call.id
          /\ call.loaded.state = "pending"
          /\ call.loaded.revision = 0
          /\ DecisionFits(call.loaded, call.decision)
    /\ call.reply = "decided" =>
          /\ call.decision \in Decision
          /\ rows[call.decision.id] \in Row
          /\ rows[call.decision.id].decision = call.decision
    /\ call.reply # "conflict"
    /\ call.reply = "exhausted" => CasRetryLimit = 0
    /\ call.conflicts = 0

\* The effect of a consumed approval was invoked, is about to be, or is lost.
Accounted(id) ==
    IF IsConsumed(id)
    THEN \/ ran[id] = 1 /\ Performing(id) = {} /\ id \notin lost
         \/ ran[id] = 0 /\ id \notin lost
              /\ \E c \in Callers : Performing(id) = {c}
         \/ ran[id] = 0 /\ Performing(id) = {} /\ id \in lost
    ELSE ran[id] = 0 /\ Performing(id) = {} /\ id \notin lost

IInv ==
    /\ TypeOK
    /\ \A id \in ApprovalIds : ledger[id] # None => RowFits(ledger[id])
    /\ \A c \in Callers : CallFits(ledger, calls[c])
    /\ \A id \in ApprovalIds : Accounted(id)

-----------------------------------------------------------------------------
\* The next row of a consumption and of a decision.

LEMMA IdleFits ==
    ASSUME NEW rows
    PROVE  /\ Idle \in Call /\ CallFits(rows, Idle)
           /\ Idle.pc = "idle" /\ Idle.conflicts = 0 /\ Idle.reply = "none"
  BY DEF Idle, Call, CallFits

LEMMA ConsumedRow ==
    ASSUME NEW row \in Row, RowFits(row), row.state = "approved"
    PROVE  /\ Consumed(row) \in Row
           /\ RowFits(Consumed(row))
           /\ Consumed(row).revision = 2
           /\ Consumed(row).state = "consumed"
           /\ Consumed(row).request = row.request
           /\ Consumed(row).decision = row.decision
  <1>1. row.revision = 1
    BY DEF RowFits
  <1>2. Consumed(row) = [revision |-> 2, request |-> row.request,
                         requestedAt |-> row.requestedAt,
                         state |-> "consumed", decision |-> row.decision]
    <2>1. PICK next : next = row.revision + 1
      OBVIOUS
    <2>2. Consumed(row) = [row EXCEPT !.revision = next, !.state = "consumed"]
      BY <2>1 DEF Consumed
    <2>3. next = 2
      BY <1>1, <2>1
    <2>. QED
      BY <2>2, <2>3 DEF Row
  <1>. QED
    BY <1>2 DEF Row, RowFits, DecisionFits

LEMMA DecidedRow ==
    ASSUME NEW row \in Row, RowFits(row), row.state = "pending",
           NEW decision \in Decision, DecisionFits(row, decision)
    PROVE  /\ Decided(row, decision) \in Row
           /\ RowFits(Decided(row, decision))
           /\ Decided(row, decision).revision = 1
           /\ Decided(row, decision).state = decision.disposition
           /\ Decided(row, decision).request = row.request
           /\ Decided(row, decision).decision = decision
  <1>1. row.revision = 0
    BY DEF RowFits
  <1>2. Decided(row, decision) =
          [revision |-> 1, request |-> row.request,
           requestedAt |-> row.requestedAt,
           state |-> decision.disposition, decision |-> decision]
    <2>1. PICK next : next = row.revision + 1
      OBVIOUS
    <2>2. Decided(row, decision) =
            [row EXCEPT !.revision = next, !.state = decision.disposition,
                        !.decision = decision]
      BY <2>1 DEF Decided
    <2>3. next = 1
      BY <1>1, <2>1
    <2>. QED
      BY <2>2, <2>3 DEF Row
  <1>. QED
    BY <1>2 DEF Row, RowFits, DecisionFits, Decision

LEMMA RowFacts ==
    ASSUME NEW row \in Row, RowFits(row)
    PROVE  /\ row # None
           /\ row.revision \in 0..2
           /\ row.state = "pending" <=> row.revision = 0
           /\ row.state = "consumed" <=> row.revision = 2
  BY NoneDistinct DEF Row, RowFits

\* A newer row that keeps a recorded decision takes nothing away from a call in
\* progress, unless that call is about to perform under the row.
LEMMA NewerRowKeepsCall ==
    ASSUME NEW rows \in [ApprovalIds -> Row \union {None}],
           NEW id \in ApprovalIds, NEW row \in Row,
           rows[id] # None,
           row.revision > rows[id].revision,
           rows[id].state # "consumed",
           rows[id].decision # None => row.decision = rows[id].decision,
           NEW call \in Call, CallFits(rows, call)
    PROVE  CallFits([rows EXCEPT ![id] = row], call)
  <1> DEFINE newer == [rows EXCEPT ![id] = row]
  <1>1. /\ newer[id] = row
        /\ \A other \in ApprovalIds : other # id => newer[other] = rows[other]
    OBVIOUS
  <1>2. rows[id] \in Row /\ rows[id].revision \in Nat /\ row.revision \in Nat
    BY DEF Row
  <1> HIDE DEF newer
  <1>3. LoadedFits(rows, call) => LoadedFits(newer, call)
    BY <1>1, <1>2 DEF LoadedFits, Row
  <1>4. call.reply = "decided" =>
           /\ call.decision \in Decision
           /\ newer[call.decision.id] \in Row
           /\ newer[call.decision.id].decision = call.decision
    BY <1>1, <1>2, NoneDistinct DEF CallFits, Decision
  <1>5. CallFits(newer, call)
    BY <1>1, <1>3, <1>4 DEF CallFits
  <1>. QED
    BY <1>5 DEF newer

\* The same of a row that is inserted.
LEMMA NewRowKeepsCall ==
    ASSUME NEW rows \in [ApprovalIds -> Row \union {None}],
           NEW id \in ApprovalIds, NEW row \in Row,
           rows[id] = None,
           NEW call \in Call, CallFits(rows, call)
    PROVE  CallFits([rows EXCEPT ![id] = row], call)
  <1> DEFINE newer == [rows EXCEPT ![id] = row]
  <1>1. /\ newer[id] = row
        /\ \A other \in ApprovalIds : other # id => newer[other] = rows[other]
    OBVIOUS
  <1> HIDE DEF newer
  <1>2. CallFits(newer, call)
    BY <1>1, NoneDistinct DEF CallFits, LoadedFits, Decision
  <1>. QED
    BY <1>2 DEF newer

-----------------------------------------------------------------------------
\* The invariant holds at first, and every step keeps it.

LEMMA InitInvariant == Init => IInv
  <1> SUFFICES ASSUME Init PROVE IInv
    OBVIOUS
  <1>1. \A id \in ApprovalIds : ledger[id] = None
    BY DEF Init
  <1>2. \A c \in Callers : calls[c] = Idle
    BY DEF Init
  <1>3. TypeOK
    BY IdleFits DEF Init, TypeOK
  <1>4. \A c \in Callers : CallFits(ledger, calls[c])
    BY <1>2, IdleFits
  <1>5. \A id \in ApprovalIds : Accounted(id)
    <2>1. \A c \in Callers : calls[c].pc = "idle"
      BY <1>2 DEF Idle
    <2>2. \A id \in ApprovalIds : Performing(id) = {} /\ ~IsConsumed(id)
      BY <1>1, <2>1 DEF Performing, IsConsumed
    <2>. QED
      BY <2>2 DEF Accounted, Init
  <1>. QED
    BY <1>1, <1>3, <1>4, <1>5 DEF IInv

\* A step that changes nothing but one call, which does not perform before or
\* after, keeps the invariant if the new call fits.
LEMMA OneCall ==
    ASSUME IInv, NEW c \in Callers, NEW call \in Call,
           CallFits(ledger, call), call.pc # "effect",
           calls[c].pc # "effect",
           calls' = [calls EXCEPT ![c] = call],
           UNCHANGED <<ledger, ran, lost, direct>>
    PROVE  IInv'
  <1>1. TypeOK'
    BY DEF IInv, TypeOK
  <1>2. /\ calls'[c] = call
        /\ \A d \in Callers : d # c => calls'[d] = calls[d]
    BY DEF IInv, TypeOK
  <1>3. \A d \in Callers : CallFits(ledger, calls'[d])
    BY <1>2 DEF IInv
  <1>4. \A id \in ApprovalIds : Performing(id)' = Performing(id)
    BY <1>2 DEF Performing
  <1>5. \A id \in ApprovalIds : Accounted(id)'
    BY <1>4 DEF IInv, Accounted, IsConsumed
  <1>. QED
    BY <1>1, <1>3, <1>5 DEF IInv

LEMMA StartResumeInvariant ==
    ASSUME IInv, NEW c \in Callers, NEW id \in ApprovalIds,
           NEW request \in Requests, StartResume(c, id, request)
    PROVE  IInv'
  <1> DEFINE call == [Idle EXCEPT !.pc = "consume", !.id = id,
                                  !.request = request, !.loaded = Loaded(id)]
  <1>1. ledger[id] \in Row /\ RowFits(ledger[id])
    BY DEF IInv, TypeOK, StartResume
  <1>2. call \in Call
    BY <1>1, IdleFits DEF Call, Loaded
  <1>3. /\ call.pc = "consume" /\ call.id = id /\ call.request = request
        /\ call.loaded = ledger[id] /\ call.conflicts = 0
        /\ call.reply = "none"
    BY IdleFits DEF Call, Loaded
  <1> HIDE DEF call
  <1>4. CallFits(ledger, call)
    BY <1>1, <1>3, RowFacts DEF CallFits, LoadedFits, StartResume, SameRequest,
       RowFits, Row
  <1>5. call.pc # "effect" /\ calls[c].pc # "effect"
    BY <1>3 DEF StartResume
  <1>6. calls' = [calls EXCEPT ![c] = call]
    BY DEF StartResume, call
  <1>. QED
    BY <1>2, <1>4, <1>5, <1>6, OneCall DEF StartResume

LEMMA StartDecisionInvariant ==
    ASSUME IInv, NEW c \in Callers, NEW decision \in Decision,
           StartDecision(c, decision)
    PROVE  IInv'
  <1> DEFINE call == [Idle EXCEPT !.pc = "decide", !.id = decision.id,
                                  !.decision = decision,
                                  !.loaded = Loaded(decision.id)]
  <1>1. decision.id \in ApprovalIds
    BY DEF Decision
  <1>2. ledger[decision.id] \in Row /\ RowFits(ledger[decision.id])
    BY <1>1 DEF IInv, TypeOK, StartDecision
  <1>3. call \in Call
    BY <1>1, <1>2, IdleFits DEF Call, Loaded
  <1>4. /\ call.pc = "decide" /\ call.id = decision.id
        /\ call.decision = decision /\ call.loaded = ledger[decision.id]
        /\ call.conflicts = 0 /\ call.reply = "none"
    BY IdleFits DEF Call, Loaded
  <1> HIDE DEF call
  <1>5. CallFits(ledger, call)
    BY <1>1, <1>2, <1>4, RowFacts DEF CallFits, LoadedFits, StartDecision,
       Undecided, Row
  <1>6. call.pc # "effect" /\ calls[c].pc # "effect"
    BY <1>4 DEF StartDecision
  <1>7. calls' = [calls EXCEPT ![c] = call]
    BY DEF StartDecision, call
  <1>. QED
    BY <1>3, <1>5, <1>6, <1>7, OneCall DEF StartDecision

\* The answer to a decision that the row holds.
LEMMA AnsweredFits ==
    ASSUME NEW decision \in Decision, NEW rows,
           rows[decision.id] \in Row, rows[decision.id].decision = decision
    PROVE  /\ Answered(decision) \in Call
           /\ CallFits(rows, Answered(decision))
           /\ Answered(decision).pc = "idle"
  <1>1. Answered(decision) \in Call
    BY IdleFits DEF Answered, Call
  <1>2. /\ Answered(decision).pc = "idle"
        /\ Answered(decision).decision = decision
        /\ Answered(decision).conflicts = 0
        /\ Answered(decision).reply = "decided"
    BY IdleFits DEF Answered, Call
  <1>. QED
    BY <1>1, <1>2 DEF CallFits

LEMMA RepeatDecisionInvariant ==
    ASSUME IInv, NEW c \in Callers, NEW decision \in Decision,
           RepeatDecision(c, decision)
    PROVE  IInv'
  <1>1. decision.id \in ApprovalIds
    BY DEF Decision
  <1>2. ledger[decision.id] \in Row /\ ledger[decision.id].decision = decision
    BY <1>1 DEF IInv, TypeOK, RepeatDecision, AlreadyRecorded
  <1>. QED
    BY <1>2, AnsweredFits, OneCall DEF RepeatDecision

LEMMA ConsumeConflictInvariant ==
    ASSUME IInv, NEW c \in Callers, ConsumeConflict(c)
    PROVE  IInv'
  <1>1. /\ LoadedFits(ledger, calls[c])
        /\ calls[c].loaded.revision = 1
    BY DEF IInv, CallFits, ConsumeConflict
  <1>2. ledger[calls[c].id] \in Row /\ RowFits(ledger[calls[c].id])
    BY <1>1, NoneDistinct DEF LoadedFits, IInv
  <1>3. ledger[calls[c].id].state = "consumed"
    BY <1>1, <1>2, RowFacts DEF LoadedFits, ConsumeConflict, RevisionMatches
  <1>4. calls' = [calls EXCEPT ![c] = [Idle EXCEPT !.reply = "consumed"]]
    BY <1>3 DEF ConsumeConflict
  <1>5. /\ [Idle EXCEPT !.reply = "consumed"] \in Call
        /\ CallFits(ledger, [Idle EXCEPT !.reply = "consumed"])
        /\ [Idle EXCEPT !.reply = "consumed"].pc = "idle"
    BY DEF Idle, Call, CallFits
  <1>. QED
    BY <1>4, <1>5, OneCall DEF ConsumeConflict

LEMMA DecisionConflictInvariant ==
    ASSUME IInv, NEW c \in Callers, DecisionConflict(c)
    PROVE  IInv'
  <1> DEFINE row == ledger[calls[c].id]
             decision == calls[c].decision
             exhausted == [Idle EXCEPT !.reply = "exhausted"]
             call == IF AttemptLeft(c) THEN AfterConflict(c) ELSE exhausted
  <1>1. /\ LoadedFits(ledger, calls[c])
        /\ calls[c].loaded.revision = 0
        /\ decision \in Decision
        /\ decision.id = calls[c].id
        /\ calls[c].conflicts = 0
    BY DEF IInv, CallFits, DecisionConflict
  <1>2. row \in Row /\ RowFits(row)
    BY <1>1, NoneDistinct DEF LoadedFits, IInv
  <1>3. ~Undecided(row)
    BY <1>1, <1>2, RowFacts DEF LoadedFits, DecisionConflict, RevisionMatches,
       Undecided
  <1>4. call \in {Answered(decision), Idle, exhausted}
    BY <1>3 DEF AfterConflict
  <1>5. call = Answered(decision) =>
          call \in Call /\ CallFits(ledger, call) /\ call.pc = "idle"
    <2>1. CASE AlreadyRecorded(row, decision)
      BY <1>1, <1>2, <2>1, AnsweredFits DEF AlreadyRecorded
    <2>2. CASE ~AlreadyRecorded(row, decision)
      <3>1. call \in {Idle, exhausted}
        BY <1>3, <2>2 DEF AfterConflict
      <3>2. Answered(decision).reply = "decided"
        BY IdleFits DEF Answered, Call
      <3>3. Idle.reply # "decided" /\ exhausted.reply # "decided"
        BY IdleFits DEF Call
      <3>. QED
        BY <3>1, <3>2, <3>3
    <2>. QED
      BY <2>1, <2>2
  <1>6. call = exhausted =>
          call \in Call /\ CallFits(ledger, call) /\ call.pc = "idle"
    <2>1. SUFFICES ASSUME call = exhausted
                   PROVE  call \in Call /\ CallFits(ledger, call)
                            /\ call.pc = "idle"
      OBVIOUS
    <2>2. ~AttemptLeft(c)
      <3>1. AfterConflict(c) \in {Answered(decision), Idle}
        BY <1>3 DEF AfterConflict
      <3>2. AfterConflict(c).reply # "exhausted" /\ exhausted.reply = "exhausted"
        BY <3>1, IdleFits DEF Answered, Call
      <3>. QED
        BY <2>1, <3>2
    <2>3. CasRetryLimit = 0
      BY <1>1, <2>2, LedgerAssumption DEF AttemptLeft
    <2>. QED
      BY <2>1, <2>3 DEF Idle, Call, CallFits
  <1>7. call \in Call /\ CallFits(ledger, call) /\ call.pc # "effect"
    <2>1. Idle.pc = "idle"
      BY DEF Idle
    <2>. QED
      BY <1>4, <1>5, <1>6, <2>1, IdleFits
  <1>8. calls[c].pc # "effect" /\ calls' = [calls EXCEPT ![c] = call]
    BY DEF DecisionConflict
  <1> HIDE DEF call
  <1>. QED
    BY <1>7, <1>8, OneCall DEF DecisionConflict

LEMMA ExecuteDirectlyInvariant ==
    ASSUME IInv, NEW c \in Callers, NEW request \in Requests,
           ExecuteDirectly(c, request)
    PROVE  IInv'
  <1>1. TypeOK'
    BY DEF IInv, TypeOK, ExecuteDirectly
  <1>2. \A id \in ApprovalIds : Accounted(id)'
    BY DEF IInv, ExecuteDirectly, Accounted, IsConsumed, Performing
  <1>. QED
    BY <1>1, <1>2 DEF IInv, ExecuteDirectly

LEMMA RequestApprovalInvariant ==
    ASSUME IInv, NEW c \in Callers, NEW id \in ApprovalIds,
           NEW request \in Requests, NEW at \in Instants,
           RequestApproval(c, id, request, at)
    PROVE  IInv'
  <1> DEFINE row == [revision |-> 0, request |-> request, requestedAt |-> at,
                     state |-> "pending", decision |-> None]
  <1>1. row \in Row /\ RowFits(row) /\ row.state = "pending"
    BY DEF Row, RowFits, RequestApproval
  <1>2. ledger' = [ledger EXCEPT ![id] = row]
    BY DEF RequestApproval
  <1> HIDE DEF row
  <1>3. TypeOK'
    BY <1>1, <1>2 DEF IInv, TypeOK, RequestApproval
  <1>4. \A other \in ApprovalIds : ledger'[other] # None => RowFits(ledger'[other])
    BY <1>1, <1>2 DEF IInv, TypeOK
  <1>5. \A d \in Callers : CallFits(ledger', calls'[d])
    <2>1. \A d \in Callers : CallFits([ledger EXCEPT ![id] = row], calls[d])
      BY <1>1, NewRowKeepsCall DEF IInv, TypeOK, RequestApproval
    <2>. QED
      BY <1>2, <2>1 DEF RequestApproval
  <1>6. \A other \in ApprovalIds : Accounted(other)'
    <2>1. \A other \in ApprovalIds : Performing(other)' = Performing(other)
      BY DEF RequestApproval, Performing
    <2>2. \A other \in ApprovalIds : IsConsumed(other)' <=> IsConsumed(other)
      BY <1>1, <1>2 DEF IsConsumed, IInv, TypeOK, RequestApproval
    <2>. QED
      BY <2>1, <2>2 DEF Accounted, IInv, RequestApproval
  <1>. QED
    BY <1>3, <1>4, <1>5, <1>6 DEF IInv

LEMMA RecordDecisionInvariant ==
    ASSUME IInv, NEW c \in Callers, RecordDecision(c)
    PROVE  IInv'
  <1> DEFINE id == calls[c].id
             decision == calls[c].decision
             row == Decided(ledger[id], decision)
  <1>1. /\ LoadedFits(ledger, calls[c])
        /\ decision \in Decision /\ decision.id = id
        /\ calls[c].loaded.state = "pending"
        /\ DecisionFits(calls[c].loaded, decision)
    BY DEF IInv, CallFits, RecordDecision
  <1>2. calls[c].loaded = ledger[id] /\ id \in ApprovalIds /\ ledger[id] \in Row
    BY <1>1 DEF LoadedFits, RecordDecision, RevisionMatches
  <1>3. RowFits(ledger[id])
    BY <1>2, NoneDistinct DEF IInv
  <1>4. /\ row \in Row /\ RowFits(row) /\ row.revision = 1
        /\ row.state \in {"approved", "denied"} /\ row.decision = decision
    BY <1>1, <1>2, <1>3, DecidedRow DEF Decision
  <1>5. /\ ledger[id] # None /\ ledger[id].revision = 0
        /\ ledger[id].state = "pending" /\ ledger[id].decision = None
    BY <1>1, <1>2, <1>3, RowFacts DEF RowFits
  <1>6. /\ ledger' = [ledger EXCEPT ![id] = row]
        /\ calls' = [calls EXCEPT ![c] = Answered(decision)]
        /\ UNCHANGED <<ran, lost, direct>>
    BY <1>2 DEF RecordDecision
  <1>7. c \notin Performing(id) /\ calls[c].pc = "decide"
    BY DEF RecordDecision, Performing
  <1> HIDE DEF id, decision, row
  <1>8. /\ Answered(decision) \in Call
        /\ CallFits(ledger', Answered(decision))
        /\ Answered(decision).pc = "idle"
    <2>1. ledger'[decision.id] = row
      BY <1>1, <1>2, <1>6 DEF IInv, TypeOK
    <2>. QED
      BY <1>1, <1>4, <2>1, AnsweredFits
  <1>9. TypeOK'
    BY <1>2, <1>4, <1>6, <1>8 DEF IInv, TypeOK
  <1>10. \A other \in ApprovalIds : ledger'[other] # None => RowFits(ledger'[other])
    BY <1>2, <1>4, <1>6 DEF IInv, TypeOK
  <1>11. \A d \in Callers : CallFits(ledger', calls'[d])
    <2>1. \A d \in Callers : CallFits([ledger EXCEPT ![id] = row], calls[d])
      <3>1. /\ ledger \in [ApprovalIds -> Row \union {None}]
            /\ \A d \in Callers : calls[d] \in Call /\ CallFits(ledger, calls[d])
        BY DEF IInv, TypeOK
      <3>2. row.revision > ledger[id].revision /\ ledger[id].state # "consumed"
        BY <1>4, <1>5
      <3>3. ledger[id].decision # None => row.decision = ledger[id].decision
        BY <1>4, <1>5
      <3>. QED
        BY <1>2, <1>4, <1>5, <3>1, <3>2, <3>3, NewerRowKeepsCall
    <2>2. \A d \in Callers : CallFits(ledger', calls[d])
      BY <1>6, <2>1
    <2>. QED
      BY <1>6, <1>8, <2>2 DEF IInv, TypeOK
  <1>12. \A other \in ApprovalIds : Accounted(other)'
    <2>1. \A other \in ApprovalIds : Performing(other)' = Performing(other)
      BY <1>6, <1>7, <1>8 DEF Performing, IInv, TypeOK
    <2>2. \A other \in ApprovalIds : IsConsumed(other)' <=> IsConsumed(other)
      BY <1>2, <1>4, <1>5, <1>6 DEF IsConsumed, IInv, TypeOK
    <2>. QED
      BY <1>6, <2>1, <2>2 DEF Accounted, IInv
  <1>. QED
    BY <1>9, <1>10, <1>11, <1>12 DEF IInv

LEMMA ConsumeInvariant ==
    ASSUME IInv, NEW c \in Callers, Consume(c)
    PROVE  IInv'
  <1>0. PICK id \in ApprovalIds : id = calls[c].id
    BY DEF IInv, CallFits, LoadedFits, Consume
  <1> DEFINE row == Consumed(ledger[id])
             call == [calls[c] EXCEPT !.pc = "effect"]
  <1>1. /\ LoadedFits(ledger, calls[c])
        /\ calls[c].request \in Requests
        /\ calls[c].loaded.state = "approved"
        /\ calls[c].loaded.request = calls[c].request
        /\ calls[c].reply = "decided" =>
              /\ calls[c].decision \in Decision
              /\ ledger[calls[c].decision.id].decision = calls[c].decision
        /\ CallFits(ledger, calls[c])
    BY DEF IInv, CallFits, Consume
  <1>2. calls[c].loaded = ledger[id] /\ id \in ApprovalIds /\ ledger[id] \in Row
    BY <1>0, <1>1 DEF LoadedFits, Consume, RevisionMatches
  <1>3. RowFits(ledger[id])
    BY <1>2, NoneDistinct DEF IInv
  <1>4. /\ row \in Row /\ RowFits(row) /\ row.revision = 2
        /\ row.state = "consumed" /\ row.request = ledger[id].request
        /\ row.decision = ledger[id].decision
    BY <1>1, <1>2, <1>3, ConsumedRow
  <1>5. /\ ledger[id] # None /\ ledger[id].revision = 1
        /\ ledger[id].state = "approved"
    BY <1>1, <1>2, <1>3, RowFacts DEF RowFits
  <1>6. /\ ledger' = [ledger EXCEPT ![id] = row]
        /\ calls' = [calls EXCEPT ![c] = call]
        /\ UNCHANGED <<ran, lost, direct>>
    BY <1>0, <1>2 DEF Consume, IInv, TypeOK
  <1>7. /\ call \in Call /\ call.pc = "effect" /\ call.id = id
        /\ call.request = calls[c].request /\ call.decision = calls[c].decision
        /\ call.reply = calls[c].reply /\ call.conflicts = calls[c].conflicts
        /\ calls[c].pc = "consume"
    BY <1>0 DEF IInv, TypeOK, Call, Consume
  <1>8. calls[c].request = ledger[id].request
    BY <1>1, <1>2
  <1> HIDE DEF row, call
  <1>9. TypeOK'
    BY <1>2, <1>4, <1>6, <1>7 DEF IInv, TypeOK
  <1>10. \A other \in ApprovalIds : ledger'[other] # None => RowFits(ledger'[other])
    BY <1>2, <1>4, <1>6 DEF IInv, TypeOK
  <1>11. \A d \in Callers : CallFits(ledger', calls[d])
    <2>1. \A d \in Callers : CallFits([ledger EXCEPT ![id] = row], calls[d])
      <3>1. /\ ledger \in [ApprovalIds -> Row \union {None}]
            /\ \A d \in Callers : calls[d] \in Call /\ CallFits(ledger, calls[d])
        BY DEF IInv, TypeOK
      <3>2. row.revision > ledger[id].revision /\ ledger[id].state # "consumed"
        BY <1>4, <1>5
      <3>3. ledger[id].decision # None => row.decision = ledger[id].decision
        BY <1>4, <1>5
      <3>. QED
        BY <1>2, <1>4, <1>5, <3>1, <3>2, <3>3, NewerRowKeepsCall
    <2>. QED
      BY <1>6, <2>1
  <1>12. CallFits(ledger', call)
    <2>1. ledger'[id] = row
      BY <1>2, <1>6 DEF IInv, TypeOK
    <2>2. CallFits(ledger', calls[c])
      BY <1>11
    <2>. QED
      BY <1>2, <1>4, <1>7, <1>8, <2>1, <2>2 DEF CallFits
  <1>13. \A d \in Callers : CallFits(ledger', calls'[d])
    BY <1>6, <1>11, <1>12 DEF IInv, TypeOK
  <1>14. \A other \in ApprovalIds : Accounted(other)'
    <2>1. SUFFICES ASSUME NEW other \in ApprovalIds PROVE Accounted(other)'
      OBVIOUS
    <2>2. CASE other = id
      <3>1. ran[id] = 0 /\ Performing(id) = {} /\ id \notin lost
        BY <1>2, <1>5 DEF IInv, Accounted, IsConsumed
      <3>2. Performing(id)' = {c}
        BY <1>6, <1>7, <3>1 DEF Performing, IInv, TypeOK
      <3>. QED
        BY <1>6, <2>2, <3>1, <3>2, <1>2, <1>4, NoneDistinct
           DEF Accounted, IsConsumed, IInv, TypeOK
    <2>3. CASE other # id
      <3>1. Performing(other)' = Performing(other)
        BY <1>6, <1>7, <2>3 DEF Performing, IInv, TypeOK
      <3>2. ledger'[other] = ledger[other]
        BY <1>6, <2>3 DEF IInv, TypeOK
      <3>. QED
        BY <1>6, <3>1, <3>2 DEF Accounted, IsConsumed, IInv
    <2>. QED
      BY <2>2, <2>3
  <1>. QED
    BY <1>9, <1>10, <1>13, <1>14 DEF IInv

\* The two ways in which a caller that spent an approval leaves it.
LEMMA LeavesEffect ==
    ASSUME IInv, NEW c \in Callers, calls[c].pc = "effect",
           NEW call \in Call, CallFits(ledger, call), call.pc = "idle",
           calls' = [calls EXCEPT ![c] = call],
           UNCHANGED <<ledger, direct>>,
           \/ /\ ran' = [ran EXCEPT ![calls[c].id] = @ + 1]
              /\ lost' = lost
           \/ ran' = ran /\ lost' = lost \union {calls[c].id}
    PROVE  IInv'
  <1>0. PICK id \in ApprovalIds : id = calls[c].id
    BY DEF IInv, CallFits
  <1>1. id \in ApprovalIds /\ ledger[id] \in Row /\ ledger[id].state = "consumed"
    BY <1>0 DEF IInv, CallFits
  <1>2. c \in Performing(id)
    BY <1>0 DEF Performing
  <1>3. IsConsumed(id)
    BY <1>1, NoneDistinct DEF IsConsumed
  <1>4. ran[id] = 0 /\ id \notin lost /\ Performing(id) = {c}
    BY <1>1, <1>2, <1>3 DEF IInv, Accounted
  <1>5. TypeOK'
    BY <1>0, <1>1 DEF IInv, TypeOK
  <1>6. \A d \in Callers : CallFits(ledger, calls'[d])
    BY DEF IInv, TypeOK
  <1>7. \A other \in ApprovalIds : Accounted(other)'
    <2>1. SUFFICES ASSUME NEW other \in ApprovalIds PROVE Accounted(other)'
      OBVIOUS
    <2>2. CASE other = id
      <3>1. Performing(id)' = {}
        BY <1>4 DEF Performing, IInv, TypeOK
      <3>2. \/ ran'[id] = 1 /\ id \notin lost'
            \/ ran'[id] = 0 /\ id \in lost'
        BY <1>0, <1>1, <1>4 DEF IInv, TypeOK
      <3>3. IsConsumed(id)'
        BY <1>3 DEF IsConsumed
      <3>. QED
        BY <2>2, <3>1, <3>2, <3>3 DEF Accounted
    <2>3. CASE other # id
      <3>1. Performing(other)' = Performing(other)
        BY <1>0, <2>3 DEF Performing, IInv, TypeOK
      <3>2. ran'[other] = ran[other] /\ (other \in lost' <=> other \in lost)
        BY <1>0, <2>3 DEF IInv, TypeOK
      <3>. QED
        BY <3>1, <3>2 DEF Accounted, IsConsumed, IInv
    <2>. QED
      BY <2>2, <2>3
  <1>. QED
    BY <1>5, <1>6, <1>7 DEF IInv

LEMMA PerformInvariant ==
    ASSUME IInv, NEW c \in Callers, Perform(c)
    PROVE  IInv'
  <1> DEFINE call == [Idle EXCEPT !.reply = "executed"]
  <1>1. /\ call \in Call /\ call.pc = "idle" /\ call.conflicts = 0
        /\ call.reply = "executed"
    BY IdleFits DEF Call
  <1>2. CallFits(ledger, call)
    BY <1>1 DEF CallFits
  <1>3. calls' = [calls EXCEPT ![c] = call]
    BY DEF Perform
  <1> HIDE DEF call
  <1>. QED
    BY <1>1, <1>2, <1>3, LeavesEffect DEF Perform

LEMMA CrashInvariant ==
    ASSUME IInv, NEW c \in Callers, Crash(c)
    PROVE  IInv'
  <1>1. CASE calls[c].pc = "effect"
    BY <1>1, IdleFits, LeavesEffect DEF Crash
  <1>2. CASE calls[c].pc # "effect"
    BY <1>2, IdleFits, OneCall DEF Crash
  <1>. QED
    BY <1>1, <1>2

LEMMA StepInvariant == IInv /\ [Next]_vars => IInv'
  <1>1. ASSUME IInv, UNCHANGED vars PROVE IInv'
    BY <1>1 DEF IInv, TypeOK, vars, Accounted, IsConsumed, Performing
  <1>2. ASSUME IInv, Next PROVE IInv'
    BY <1>2, ExecuteDirectlyInvariant, RequestApprovalInvariant,
       StartResumeInvariant, ConsumeInvariant, ConsumeConflictInvariant,
       PerformInvariant, StartDecisionInvariant, RepeatDecisionInvariant,
       RecordDecisionInvariant, DecisionConflictInvariant, CrashInvariant
       DEF Next
  <1>. QED
    BY <1>1, <1>2

\* The invariant of the ledger holds in every reachable state.
THEOREM InvariantHolds == Spec => []IInv
  BY InitInvariant, StepInvariant, PTL DEF Spec

-----------------------------------------------------------------------------
\* What follows from it.

\* The rows, the calls and the histories keep their types: what a decoder of
\* durable_guardrails.rs reads is what a call wrote.
THEOREM LedgerTypeCorrect == Spec => []TypeOK
  <1>1. IInv => TypeOK
    BY DEF IInv
  <1>. QED
    BY <1>1, InvariantHolds, PTL

\* A consumed approval is accounted for exactly once, whoever races and
\* whoever dies between the two steps of resume_approved.
THEOREM EffectAlwaysAccountedFor == Spec => []EffectIsAccountedFor
  <1>1. IInv => EffectIsAccountedFor
    <2>1. SUFFICES ASSUME IInv, NEW id \in ApprovalIds
                   PROVE  ran[id] + Cardinality(Performing(id))
                              + (IF id \in lost THEN 1 ELSE 0)
                            = IF IsConsumed(id) THEN 1 ELSE 0
      BY DEF EffectIsAccountedFor
    <2>2. Cardinality({}) = 0
      BY FS_EmptySet
    <2>3. \A c \in Callers : Cardinality({c}) = 1
      BY FS_Singleton
    <2>4. Accounted(id)
      BY <2>1 DEF IInv
    <2>5. CASE Performing(id) = {}
      BY <2>2, <2>4, <2>5, FS_Singleton DEF Accounted
    <2>6. CASE \E c \in Callers : Performing(id) = {c}
      <3>1. Cardinality(Performing(id)) = 1 /\ Performing(id) # {}
        BY <2>3, <2>6
      <3>2. IsConsumed(id) /\ ran[id] = 0 /\ id \notin lost
        BY <2>4, <3>1 DEF Accounted
      <3>. QED
        BY <3>1, <3>2
    <2>. QED
      BY <2>4, <2>5, <2>6 DEF Accounted
  <1>. QED
    BY <1>1, InvariantHolds, PTL

\* When resume_approved is about to invoke an effect, the owner approved the
\* very request that the caller presents.
THEOREM EffectsAlwaysApproved == Spec => []ApprovedExactly
  <1>1. IInv => ApprovedExactly
    <2>1. SUFFICES ASSUME IInv, NEW c \in Callers, calls[c].pc = "effect"
                   PROVE  LET row == ledger[calls[c].id] IN
                          /\ row.request = calls[c].request
                          /\ Outcome(row.request) = "pause"
                          /\ row.decision # None
                          /\ row.decision.disposition = "approved"
                          /\ row.decision.guardId = calls[c].request.guardId
                          /\ row.decision.at >= row.requestedAt
      BY DEF ApprovedExactly
    <2>2. /\ calls[c].id \in ApprovalIds
          /\ ledger[calls[c].id] \in Row
          /\ ledger[calls[c].id].state = "consumed"
          /\ ledger[calls[c].id].request = calls[c].request
      BY <2>1 DEF IInv, CallFits
    <2>3. RowFits(ledger[calls[c].id])
      BY <2>1, <2>2, NoneDistinct DEF IInv
    <2>. QED
      BY <2>2, <2>3, NoneDistinct DEF RowFits, DecisionFits
  <1>. QED
    BY <1>1, InvariantHolds, PTL

\* An owner who was answered that a decision is recorded can rely on it.
THEOREM AnsweredDecisionsAlwaysStand == Spec => []AnsweredDecisionStands
  <1>1. IInv => AnsweredDecisionStands
    BY DEF IInv, CallFits, AnsweredDecisionStands
  <1>. QED
    BY <1>1, InvariantHolds, PTL

\* A resume that loses the race learns that the approval was consumed: its
\* other answer to a conflict is dead code.
THEOREM LosersAlwaysLearn == Spec => []LoserLearnsConsumption
  <1>1. IInv => LoserLearnsConsumption
    BY DEF IInv, CallFits, LoserLearnsConsumption
  <1>. QED
    BY <1>1, InvariantHolds, PTL

\* record_decision exhausts its retries only when it has none.
THEOREM OneRetryIsAlwaysEnough == Spec => []OneRetryIsEnough
  <1>1. IInv => OneRetryIsEnough
    BY DEF IInv, CallFits, OneRetryIsEnough
  <1>. QED
    BY <1>1, InvariantHolds, PTL

-----------------------------------------------------------------------------
\* What runs without the owner is local, whatever the caller declares.

LEMMA AllowedIsLocal ==
    ASSUME NEW request \in GuardRequest, Outcome(request) = "allow"
    PROVE  \/ request.sideEffect = "read_only" /\ request.writes = {}
           \/ /\ request.sideEffect = "reversible_local_write"
              /\ "reviewer" \in RequiredGates(request)
  <1>1. /\ PermissionsCover(request) /\ TierAdmitted(request)
        /\ request.tier # 2
    BY DEF Outcome
  <1>2. request.tier \in 0..1 /\ request.tier >= MinimumTier(request.sideEffect)
    BY <1>1 DEF GuardRequest, TierAdmitted
  <1>3. request.sideEffect \in SideEffects
    BY DEF GuardRequest
  <1>4. \/ request.sideEffect = "read_only"
        \/ request.sideEffect = "reversible_local_write" /\ request.tier = 1
    BY <1>2, <1>3 DEF SideEffects, MinimumTier
  <1>. QED
    BY <1>1, <1>4 DEF PermissionsCover, RequiredGates

\* execute_guarded invokes an effect without the owner only for a read or a
\* reversible local write, for every request and profile.
THEOREM DirectEffectsAlwaysLocal == Spec => []DirectEffectsAreLocal
  <1>1. Init => DirectEffectsAreLocal
    BY DEF Init, DirectEffectsAreLocal
  <1>2. DirectEffectsAreLocal /\ [Next]_vars => DirectEffectsAreLocal'
    <2>1. SUFFICES ASSUME DirectEffectsAreLocal, [Next]_vars
                   PROVE  DirectEffectsAreLocal'
      OBVIOUS
    <2>2. CASE \E c \in Callers, request \in Requests : ExecuteDirectly(c, request)
      BY <2>1, <2>2, AllowedIsLocal, LedgerAssumption
         DEF ExecuteDirectly, DirectEffectsAreLocal
    <2>3. CASE UNCHANGED direct
      BY <2>1, <2>3 DEF DirectEffectsAreLocal
    <2>. QED
      BY <2>1, <2>2, <2>3
         DEF Next, vars, RequestApproval, StartResume, Consume, ConsumeConflict,
             Perform, StartDecision, RepeatDecision, RecordDecision,
             DecisionConflict, Crash
  <1>. QED
    BY <1>1, <1>2, PTL DEF Spec

-----------------------------------------------------------------------------
\* The ledger implements its contract.

StatusOf(rows) ==
    [id \in ApprovalIds |-> IF rows[id] = None THEN "absent" ELSE rows[id].state]

LEMMA RowStepIsStatusStep ==
    ASSUME NEW rows \in [ApprovalIds -> Row \union {None}],
           NEW id \in ApprovalIds, NEW row \in Row
    PROVE  StatusOf([rows EXCEPT ![id] = row]) =
             [StatusOf(rows) EXCEPT ![id] = row.state]
  BY NoneDistinct DEF StatusOf

LEMMA ContractInit == Init => Contract!Init
  BY DEF Init, Contract!Init

\* A step that moves one row from a state to another moves the contract.
LEMMA RowStepIsContractStep ==
    ASSUME ledger \in [ApprovalIds -> Row \union {None}],
           NEW id \in ApprovalIds, NEW row \in Row,
           ledger' = [ledger EXCEPT ![id] = row], ran' = ran
    PROVE  Contract!Becomes(id, StatusOf(ledger)[id], row.state)
  <1>1. StatusOf(ledger') = [StatusOf(ledger) EXCEPT ![id] = row.state]
    BY RowStepIsStatusStep
  <1>. QED
    BY <1>1 DEF StatusOf, Contract!Becomes

LEMMA ContractStep == IInv /\ [Next]_vars => Contract!Next \/ UNCHANGED <<ledger, ran>>
  <1>1. SUFFICES ASSUME IInv, Next
                 PROVE  Contract!Next \/ UNCHANGED <<ledger, ran>>
    BY DEF vars
  <1>2. ledger \in [ApprovalIds -> Row \union {None}] /\ ran \in [ApprovalIds -> Nat]
    BY <1>1 DEF IInv, TypeOK
  <1>3. ASSUME NEW c \in Callers, NEW id \in ApprovalIds,
               NEW request \in Requests, NEW at \in Instants,
               RequestApproval(c, id, request, at)
        PROVE  Contract!Next
    <2> DEFINE row == [revision |-> 0, request |-> request, requestedAt |-> at,
                       state |-> "pending", decision |-> None]
    <2>1. row \in Row /\ row.state = "pending"
      BY DEF Row
    <2>2. ledger' = [ledger EXCEPT ![id] = row] /\ ran' = ran
      BY <1>3 DEF RequestApproval
    <2>3. StatusOf(ledger)[id] = "absent"
      BY <1>3 DEF StatusOf, RequestApproval
    <2> HIDE DEF row
    <2>4. Contract!RequestApproval(id)
      BY <1>2, <2>1, <2>2, <2>3, RowStepIsContractStep
         DEF Contract!RequestApproval
    <2>. QED
      BY <2>4 DEF Contract!Next
  <1>4. ASSUME NEW c \in Callers, RecordDecision(c)
        PROVE  Contract!Next
    <2>1. /\ LoadedFits(ledger, calls[c])
          /\ calls[c].decision \in Decision
          /\ calls[c].loaded.state = "pending"
          /\ DecisionFits(calls[c].loaded, calls[c].decision)
      BY <1>1, <1>4 DEF IInv, CallFits, RecordDecision
    <2>2. PICK id \in ApprovalIds : id = calls[c].id
      BY <2>1 DEF LoadedFits
    <2>3. calls[c].loaded = ledger[id] /\ ledger[id] \in Row /\ ledger[id] # None
      BY <1>4, <2>1, <2>2, NoneDistinct
         DEF LoadedFits, RecordDecision, RevisionMatches
    <2>4. PICK row : row = Decided(ledger[id], calls[c].decision)
      OBVIOUS
    <2>5. row \in Row /\ row.state \in {"approved", "denied"}
      BY <1>1, <2>1, <2>3, <2>4, DecidedRow DEF IInv, Decision
    <2>6. ledger' = [ledger EXCEPT ![id] = row] /\ ran' = ran
      BY <1>4, <2>2, <2>3, <2>4 DEF RecordDecision
    <2>7. StatusOf(ledger)[id] = "pending"
      BY <2>1, <2>3 DEF StatusOf
    <2>8. Contract!Decide(id)
      BY <1>2, <2>5, <2>6, <2>7, RowStepIsContractStep DEF Contract!Decide
    <2>. QED
      BY <2>8 DEF Contract!Next
  <1>5. ASSUME NEW c \in Callers, Consume(c)
        PROVE  Contract!Next
    <2>1. LoadedFits(ledger, calls[c]) /\ calls[c].loaded.state = "approved"
      BY <1>1, <1>5 DEF IInv, CallFits, Consume
    <2>2. PICK id \in ApprovalIds : id = calls[c].id
      BY <2>1 DEF LoadedFits
    <2>3. calls[c].loaded = ledger[id] /\ ledger[id] \in Row /\ ledger[id] # None
      BY <1>5, <2>1, <2>2, NoneDistinct DEF LoadedFits, Consume, RevisionMatches
    <2>4. PICK row : row = Consumed(ledger[id])
      OBVIOUS
    <2>5. row \in Row /\ row.state = "consumed"
      BY <1>1, <2>1, <2>3, <2>4, ConsumedRow DEF IInv
    <2>6. ledger' = [ledger EXCEPT ![id] = row] /\ ran' = ran
      BY <1>5, <2>2, <2>3, <2>4 DEF Consume
    <2>7. StatusOf(ledger)[id] = "approved"
      BY <2>1, <2>3 DEF StatusOf
    <2>8. Contract!Spend(id)
      BY <1>2, <2>5, <2>6, <2>7, RowStepIsContractStep DEF Contract!Spend
    <2>. QED
      BY <2>8 DEF Contract!Next
  <1>6. ASSUME NEW c \in Callers, Perform(c)
        PROVE  Contract!Next
    <2>1. PICK id \in ApprovalIds : id = calls[c].id
      BY <1>1, <1>6 DEF IInv, CallFits, Perform
    <2>2. ledger[id] \in Row /\ ledger[id].state = "consumed"
      BY <1>1, <1>6, <2>1 DEF IInv, CallFits, Perform
    <2>3. ran[id] = 0
      <3>1. c \in Performing(id)
        BY <1>6, <2>1 DEF Perform, Performing
      <3>. QED
        BY <1>1, <3>1 DEF IInv, Accounted
    <2>4. ran' = [ran EXCEPT ![id] = 1] /\ ledger' = ledger
      BY <1>6, <2>1, <2>3 DEF Perform
    <2>5. Contract!Perform(id)
      BY <2>2, <2>3, <2>4, NoneDistinct DEF Contract!Perform
    <2>. QED
      BY <2>5 DEF Contract!Next
  <1>7. CASE UNCHANGED <<ledger, ran>>
    BY <1>7
  <1>. QED
    BY <1>1, <1>3, <1>4, <1>5, <1>6, <1>7
       DEF Next, ExecuteDirectly, StartResume, ConsumeConflict, StartDecision,
           RepeatDecision, DecisionConflict, Crash

\* The ledger of compare-and-swap calls keeps the promise per approval:
\* decided once, spent once, performed at most once and only after that.
THEOREM KeepsContract == Spec => ContractSpec
  <1>1. IInv /\ [Next]_vars =>
          [Contract!Next]_<<[id \in ApprovalIds |->
                              IF ledger[id] = None THEN "absent"
                              ELSE ledger[id].state], ran>>
    BY ContractStep
  <1>. QED
    BY <1>1, ContractInit, InvariantHolds, PTL DEF Spec, ContractSpec, Contract!Spec
=============================================================================
