------------------------ MODULE DurableExecutionProofs ------------------------
(***************************************************************************)
(* Theorems about the durable authority, for any number of callers, any    *)
(* clock lag, any retry limit and any task graph.                          *)
(***************************************************************************)
EXTENDS DurableExecution, TLAPS

USE DefinitionAssumption, NoneAssumption

LEMMA TimeIsNat == Time \subseteq Nat
  BY DEF DefinitionAssumption

-----------------------------------------------------------------------------
\* Each operation maps snapshots to snapshots.

LEMMA NewRunType == NewRun \in Snapshot
  BY DEF NewRun, Snapshot, TaskState, Statuses, TerminalStatuses

LEMMA NewLeaseType ==
    ASSUME NEW s \in Snapshot, NEW r \in ClaimRequest
    PROVE  NewLease(s, r) \in Lease
  BY DEF NewLease, Lease, Snapshot, TaskState, ClaimRequest

LEMMA OwnerForType ==
    ASSUME NEW t \in Tasks, NEW lease \in Lease
    PROVE  OwnerFor(t, lease) \in WriteKeyOwner
  BY DEF OwnerFor, Lease, WriteKeyOwner

LEMMA ClaimEffectType ==
    ASSUME NEW s \in Snapshot, NEW r \in ClaimRequest
    PROVE  ClaimEffect(s, r) \in Snapshot
  <1>. DEFINE e == ClaimEffect(s, r)
  <1>1. NewLease(s, r) \in Lease
    BY NewLeaseType
  <1>2. r.task \in Tasks
    BY DEF ClaimRequest
  <1>3. OwnerFor(r.task, NewLease(s, r)) \in WriteKeyOwner
    BY <1>1, <1>2, OwnerForType
  <1>4. ClaimedTask(s, r) \in TaskState
    BY <1>1, <1>2 DEF ClaimedTask, Snapshot, TaskState, Statuses
  <1>5. e.tasks \in [Tasks -> TaskState]
    BY <1>2, <1>4 DEF ClaimEffect, Snapshot
  <1>6. e.owners \in [WriteKeys -> WriteKeyOwner \union {None}]
    BY <1>3 DEF ClaimEffect, Snapshot, Unexpired
  <1>. QED
    BY <1>5, <1>6 DEF ClaimEffect, Snapshot

LEMMA HeartbeatEffectType ==
    ASSUME NEW s \in Snapshot, NEW r \in HeartbeatRequest,
           s.tasks[r.task].lease # None, OwnersPresent(s, r.task)
    PROVE  HeartbeatEffect(s, r) \in Snapshot
  <1>. DEFINE st == s.tasks[r.task]
              e == HeartbeatEffect(s, r)
  <1>1. r.task \in Tasks /\ r.now \in Time /\ r.expires \in Time
    BY DEF HeartbeatRequest
  <1>2. st \in TaskState /\ st.lease \in Lease
    BY <1>1 DEF Snapshot, TaskState
  <1>3. ExtendedLease(st.lease, r) \in Lease
    BY <1>1, <1>2 DEF ExtendedLease, Lease
  <1>4. ExtendedTask(st, r) \in TaskState
    BY <1>2, <1>3 DEF ExtendedTask, TaskState
  <1>5. e.tasks \in [Tasks -> TaskState]
    BY <1>1, <1>4 DEF HeartbeatEffect, Snapshot
  <1>6. e.owners \in [WriteKeys -> WriteKeyOwner \union {None}]
    BY <1>1 DEF HeartbeatEffect, Snapshot, OwnersPresent, WriteKeyOwner
  <1>. QED
    BY <1>5, <1>6 DEF HeartbeatEffect, Snapshot

LEMMA ReleasedOwnersType ==
    ASSUME NEW s \in Snapshot, NEW t \in Tasks
    PROVE  ReleasedOwners(s, t) \in [WriteKeys -> WriteKeyOwner \union {None}]
  BY DEF ReleasedOwners, Snapshot

LEMMA TerminalEffectType ==
    ASSUME NEW s \in Snapshot, NEW r \in TerminalRequest
    PROVE  TerminalEffect(s, r) \in Snapshot
  <1>1. r.task \in Tasks
    BY DEF TerminalRequest
  <1>2. s.tasks[r.task] \in TaskState
    BY <1>1 DEF Snapshot
  <1>3. RecordOf(r) \in TerminalRecord
    BY DEF RecordOf, TerminalRequest, TerminalRecord, OutcomeOf, Outcomes
  <1>4. FinishedTask(s.tasks[r.task], r) \in TaskState
    BY <1>2, <1>3 DEF FinishedTask, TaskState, OutcomeOf, Statuses,
                      TerminalStatuses
  <1>5. TerminalEffect(s, r).tasks \in [Tasks -> TaskState]
    BY <1>1, <1>4 DEF TerminalEffect, Snapshot
  <1>. QED
    BY <1>1, <1>5, ReleasedOwnersType DEF TerminalEffect, Snapshot

LEMMA FailureEffectType ==
    ASSUME NEW s \in Snapshot, NEW r \in FailureRequest
    PROVE  FailureEffect(s, r) \in Snapshot
  <1>1. r.task \in Tasks
    BY DEF FailureRequest
  <1>2. s.tasks[r.task] \in TaskState
    BY <1>1 DEF Snapshot
  <1>3. FailedTask(s.tasks[r.task]) \in TaskState
    BY <1>2 DEF FailedTask, TaskState, StatusAfterFailure, Statuses,
                TerminalStatuses
  <1>4. FailureEffect(s, r).tasks \in [Tasks -> TaskState]
    BY <1>1, <1>3 DEF FailureEffect, Snapshot
  <1>. QED
    BY <1>1, <1>4, ReleasedOwnersType DEF FailureEffect, Snapshot

-----------------------------------------------------------------------------
\* An operation on one task leaves every other task's state alone.

LEMMA OtherTasksKept ==
    ASSUME NEW s \in Snapshot, NEW r \in Request, NEW t \in Tasks,
           t # r.task
    PROVE  /\ ClaimEffect(s, r).tasks[t] = s.tasks[t]
           /\ HeartbeatEffect(s, r).tasks[t] = s.tasks[t]
           /\ TerminalEffect(s, r).tasks[t] = s.tasks[t]
           /\ FailureEffect(s, r).tasks[t] = s.tasks[t]
  BY DEF Snapshot, ClaimEffect, HeartbeatEffect, TerminalEffect, FailureEffect

\* The state an operation gives to the task it names.
LEMMA NamedTaskChanged ==
    ASSUME NEW s \in Snapshot, NEW r, r.task \in Tasks
    PROVE  /\ ClaimEffect(s, r).tasks[r.task] = ClaimedTask(s, r)
           /\ HeartbeatEffect(s, r).tasks[r.task]
                = ExtendedTask(s.tasks[r.task], r)
           /\ TerminalEffect(s, r).tasks[r.task]
                = FinishedTask(s.tasks[r.task], r)
           /\ FailureEffect(s, r).tasks[r.task] = FailedTask(s.tasks[r.task])
  BY DEF Snapshot, ClaimEffect, HeartbeatEffect, TerminalEffect, FailureEffect

-----------------------------------------------------------------------------
\* A command that changes a snapshot yields a snapshot.

LEMMA EffectType ==
    ASSUME NEW s \in Snapshot, NEW r \in Request, Changes(s, r)
    PROVE  Effect(s, r) \in Snapshot
  <1>1. CASE r.op = "claim"
    <2>1. r \in ClaimRequest
      BY <1>1 DEF Request, ClaimRequest, HeartbeatRequest, FailureRequest,
                  TerminalRequest
    <2>. QED
      BY <1>1, <2>1, ClaimEffectType DEF Effect
  <1>2. CASE r.op = "heartbeat"
    <2>1. r \in HeartbeatRequest
      BY <1>2 DEF Request, ClaimRequest, HeartbeatRequest, FailureRequest,
                  TerminalRequest
    <2>2. s.tasks[r.task].lease # None /\ OwnersPresent(s, r.task)
      BY <1>2 DEF Changes, HeartbeatAllowed, HoldsLease
    <2>. QED
      BY <1>2, <2>1, <2>2, HeartbeatEffectType DEF Effect
  <1>3. CASE r.op = "fail"
    <2>1. r \in FailureRequest
      BY <1>3 DEF Request, ClaimRequest, HeartbeatRequest, FailureRequest,
                  TerminalRequest
    <2>. QED
      BY <1>3, <2>1, FailureEffectType DEF Effect
  <1>4. CASE r.op \in {"complete", "cancel"}
    <2>1. r \in TerminalRequest
      BY <1>4 DEF Request, ClaimRequest, HeartbeatRequest, FailureRequest,
                  TerminalRequest
    <2>. QED
      BY <1>4, <2>1, TerminalEffectType DEF Effect
  <1>. QED
    BY <1>1, <1>2, <1>3, <1>4 DEF Changes

LEMMA RequestTask == \A r \in Request : r.task \in Tasks /\ r.now \in Time
  BY DEF Request, ClaimRequest, HeartbeatRequest, FailureRequest, TerminalRequest

-----------------------------------------------------------------------------
\* The inductive invariant.  Besides the types it says that the stored row is
\* restorable, that what a call loaded is never newer than the row and is the
\* row itself when the revisions agree, and that a call waiting to swap has a
\* request its loaded snapshot accepts with a result that restores.

LoadedFits(c) ==
    /\ row # None
    /\ calls[c].loaded # None
    /\ calls[c].loaded.revision <= row.revision
    /\ calls[c].loaded.revision = row.revision => calls[c].loaded = row

CallFits(c) ==
    /\ calls[c].pc \in {"swap", "install"} => LoadedFits(c)
    /\ calls[c].pc = "swap" =>
          /\ calls[c].request # None
          /\ calls[c].request.now <= clock
          /\ ReadyToSwap(calls[c].loaded.snapshot, calls[c].request)

IInv ==
    /\ TypeOK
    /\ StoredSnapshotRestorable
    /\ \A c \in Callers : CallFits(c)

LEMMA NewRunRestorable == Restorable(NewRun)
  <1>1. \A t \in Tasks : InitialStatus[t] \in {"pending", "ready"}
    BY DefinitionAssumption DEF DefinitionAssumption
  <1>2. MaxAttempts \in Nat \ {0}
    BY DefinitionAssumption DEF DefinitionAssumption
  <1>. QED
    BY <1>1, <1>2 DEF NewRun, Restorable, TaskFits, LeaseTimesFit, OwnersFit,
         AttemptsFit, LeaseFits, RecordFits, Outcomes

LEMMA IdleType == Idle \in Call
  BY DEF Idle, Call, Replies

LEMMA InitFits == Init => IInv
  BY IdleType DEF Init, IInv, TypeOK, StoredSnapshotRestorable, CallFits, Idle

\* A step that keeps the row and moves one call keeps the others fitting.
LEMMA OneCallMoves ==
    ASSUME IInv, row' = row, clock' = clock, NEW c \in Callers,
           NEW call \in Call, calls' = [calls EXCEPT ![c] = call],
           call.pc \in {"swap", "install"} =>
              /\ row # None /\ call.loaded # None
              /\ call.loaded.revision <= row.revision
              /\ call.loaded.revision = row.revision => call.loaded = row,
           call.pc = "swap" =>
              /\ call.request # None
              /\ call.request.now <= clock
              /\ ReadyToSwap(call.loaded.snapshot, call.request)
    PROVE  IInv'
  <1>1. TypeOK'
    BY DEF IInv, TypeOK
  <1>2. StoredSnapshotRestorable'
    BY DEF IInv, StoredSnapshotRestorable
  <1>3. calls'[c] = call /\ \A d \in Callers : d # c => calls'[d] = calls[d]
    BY DEF IInv, TypeOK
  <1>4. \A d \in Callers : CallFits(d)'
    <2>. TAKE d \in Callers
    <2>1. CASE d = c
      BY <1>3, <2>1 DEF CallFits, LoadedFits
    <2>2. CASE d # c
      BY <1>3, <2>2 DEF IInv, CallFits, LoadedFits
    <2>. QED
      BY <2>1, <2>2
  <1>. QED
    BY <1>1, <1>2, <1>4 DEF IInv

\* A commit moves the revision on, so what the others loaded is now older.
LEMMA RowMoves ==
    ASSUME IInv, row # None, clock' = clock, NEW c \in Callers, NEW call \in Call,
           calls' = [calls EXCEPT ![c] = call], call.pc = "idle",
           row' \in Row, row'.revision = row.revision + 1,
           Restorable(row'.snapshot)
    PROVE  IInv'
  <1>1. TypeOK' /\ row' # None
    BY RowAssumption DEF IInv, TypeOK
  <1>2. StoredSnapshotRestorable'
    BY DEF StoredSnapshotRestorable
  <1>3. calls'[c] = call /\ \A d \in Callers : d # c => calls'[d] = calls[d]
    BY DEF IInv, TypeOK
  <1>4. \A d \in Callers : CallFits(d)'
    <2>. TAKE d \in Callers
    <2>1. CASE d = c
      BY <1>3, <2>1 DEF CallFits
    <2>2. CASE d # c
      <3>1. calls'[d] = calls[d] /\ CallFits(d)
        BY <1>3, <2>2 DEF IInv
      <3>2. row \in Row /\ calls[d].loaded \in Row \union {None}
        BY DEF IInv, TypeOK, Call
      <3>3. row.revision \in Nat
        BY <3>2 DEF Row
      <3>4. calls[d].pc \in {"swap", "install"} => LoadedFits(d)'
        <4>. SUFFICES ASSUME calls[d].pc \in {"swap", "install"}
                      PROVE  LoadedFits(d)'
          OBVIOUS
        <4>1. LoadedFits(d)
          BY <3>1 DEF CallFits
        <4>2. calls[d].loaded.revision \in Nat
          BY <3>2, <4>1 DEF LoadedFits, Row
        <4>3. calls[d].loaded.revision < row'.revision
          BY <3>3, <4>1, <4>2 DEF LoadedFits
        <4>. QED
          BY <1>1, <3>1, <3>3, <4>1, <4>2, <4>3 DEF LoadedFits
      <3>. QED
        BY <3>1, <3>4 DEF CallFits
    <2>. QED
      BY <2>1, <2>2
  <1>. QED
    BY <1>1, <1>2, <1>4 DEF IInv

\* The call that an Ok leaves behind.
LEMMA AnswerType ==
    ASSUME NEW r \in Request, NEW envelope \in Row
    PROVE  /\ [Idle EXCEPT !.request = r,
                           !.attempt = envelope.snapshot.tasks[r.task].attempts,
                           !.reply = "ok"] \in Call
           /\ [Idle EXCEPT !.request = r,
                           !.attempt = envelope.snapshot.tasks[r.task].attempts,
                           !.reply = "ok"].pc = "idle"
  <1>1. envelope.snapshot.tasks[r.task].attempts \in Nat
    BY RequestTask DEF Row, Snapshot, TaskState
  <1>. QED
    BY <1>1 DEF Idle, Call, Replies

LEMMA LoadedType ==
    ASSUME IInv, NEW c \in Callers, calls[c].pc \in {"swap", "install"}
    PROVE  /\ calls[c].loaded \in Row /\ row \in Row /\ LoadedFits(c)
           /\ calls[c].pc = "swap" => calls[c].request \in Request
  BY DEF IInv, TypeOK, Call, CallFits, LoadedFits

LEMMA SwappedType ==
    ASSUME IInv, NEW c \in Callers, calls[c].pc = "swap", RevisionMatches(c)
    PROVE  /\ calls[c].loaded = row /\ row \in Row
           /\ Swapped(c) \in Row
           /\ Swapped(c).revision = row.revision + 1
           /\ Swapped(c).snapshot = Effect(row.snapshot, Req(c))
           /\ Restorable(Swapped(c).snapshot)
  <1>a. LoadedFits(c) /\ row \in Row /\ calls[c].request \in Request
    BY LoadedType
  <1>b. calls[c].loaded = row
    BY <1>a DEF LoadedFits, RevisionMatches
  <1>c. ReadyToSwap(calls[c].loaded.snapshot, calls[c].request)
    BY DEF IInv, CallFits
  <1>1. /\ calls[c].loaded = row /\ row \in Row /\ Req(c) \in Request
        /\ ReadyToSwap(row.snapshot, Req(c))
    BY <1>a, <1>b, <1>c DEF Req
  <1>2. Effect(row.snapshot, Req(c)) \in Snapshot
    BY <1>1, EffectType DEF ReadyToSwap, Row
  <1>3. Swapped(c) = [revision |-> row.revision + 1,
                      snapshot |-> Effect(row.snapshot, Req(c)),
                      projection |-> row.projection]
    BY <1>1 DEF Swapped
  <1>4. /\ Swapped(c) \in Row
        /\ Swapped(c).revision = row.revision + 1
        /\ Swapped(c).snapshot = Effect(row.snapshot, Req(c))
    BY <1>1, <1>2, <1>3 DEF Row
  <1>. QED
    BY <1>1, <1>4 DEF ReadyToSwap

LEMMA CommitFits ==
    ASSUME IInv, NEW c \in Callers, Commit(c) PROVE IInv'
  <1>1. /\ calls[c].pc = "swap" /\ RevisionMatches(c) /\ row' = Swapped(c)
        /\ clock' = clock /\ Req(c) \in Request
    BY LoadedType DEF Commit, Req
  <1>a. /\ row \in Row
        /\ Swapped(c) \in Row
        /\ Swapped(c).revision = row.revision + 1
        /\ Restorable(Swapped(c).snapshot)
    BY <1>1, SwappedType
  <1>2. /\ row \in Row /\ row' \in Row /\ row'.revision = row.revision + 1
        /\ Restorable(row'.snapshot)
    BY <1>1, <1>a, Zenon
  <1>. DEFINE call == [Idle EXCEPT !.request = Req(c),
                        !.attempt = row'.snapshot.tasks[Req(c).task].attempts,
                        !.reply = "ok"]
  <1>3. call \in Call /\ call.pc = "idle"
    BY <1>1, <1>2, AnswerType
  <1>4. calls' = [calls EXCEPT ![c] = call]
    BY <1>1 DEF Commit, AnswerOk
  <1>. HIDE DEF call
  <1>. QED
    BY <1>1, <1>2, <1>3, <1>4, RowMoves, RowAssumption

LEMMA InstallFits ==
    ASSUME IInv, NEW c \in Callers, Install(c) PROVE IInv'
  <1>1. /\ calls[c].pc = "install" /\ RevisionMatches(c) /\ row' = Installed(c)
        /\ clock' = clock
    BY DEF Install
  <1>2. calls[c].loaded = row /\ row \in Row
    BY <1>1, LoadedType DEF LoadedFits, RevisionMatches
  <1>a. row' = [revision |-> row.revision + 1, snapshot |-> row.snapshot,
                projection |-> row.projection + 1]
    BY <1>1, <1>2 DEF Installed
  <1>3. /\ row' \in Row /\ row'.revision = row.revision + 1
        /\ row'.snapshot = row.snapshot
    BY <1>2, <1>a DEF Row
  <1>4. Restorable(row'.snapshot) /\ row # None
    BY <1>2, <1>3, RowAssumption DEF IInv, StoredSnapshotRestorable
  <1>. DEFINE call == [Idle EXCEPT !.reply = "ok"]
  <1>5. call \in Call /\ call.pc = "idle"
    BY DEF Idle, Call, Replies
  <1>6. calls' = [calls EXCEPT ![c] = call]
    BY DEF Install
  <1>. HIDE DEF call
  <1>. QED
    BY <1>1, <1>3, <1>4, <1>5, <1>6, RowMoves

LEMMA InitializeFits ==
    ASSUME IInv, NEW c \in Callers, InitializeRun(c) PROVE IInv'
  <1>1. row' \in Row /\ row' # None /\ row'.snapshot = NewRun
    BY NewRunType, RowAssumption DEF InitializeRun, Row
  <1>2. TypeOK'
    BY <1>1 DEF IInv, TypeOK, InitializeRun, Idle, Call, Replies
  <1>3. StoredSnapshotRestorable'
    BY <1>1, NewRunRestorable DEF StoredSnapshotRestorable
  <1>4. \A d \in Callers : CallFits(d)'
    BY DEF IInv, TypeOK, InitializeRun, CallFits, LoadedFits, Idle
  <1>. QED
    BY <1>2, <1>3, <1>4 DEF IInv

\* A call that ends without a write.
LEMMA AnswerFits ==
    ASSUME IInv, row' = row, clock' = clock, NEW c \in Callers,
           \/ AnswerError(c)
           \/ \E r \in Request : row # None /\ AnswerOk(c, r, row)
           \/ calls' = [calls EXCEPT ![c] = [Idle EXCEPT
                           !.first = calls[c].first, !.reply = "exhausted"]]
    PROVE  IInv'
  <1>1. ASSUME NEW call \in Call, call.pc = "idle",
               calls' = [calls EXCEPT ![c] = call]
        PROVE  IInv'
    BY <1>1, OneCallMoves
  <1>2. CASE AnswerError(c)
    BY <1>1, <1>2, IdleType DEF AnswerError, Idle
  <1>3. ASSUME NEW r \in Request, row # None, AnswerOk(c, r, row) PROVE IInv'
    <2>1. row \in Row
      BY <1>3 DEF IInv, TypeOK
    <2>. QED
      BY <1>1, <1>3, <2>1, AnswerType DEF AnswerOk
  <1>4. CASE calls' = [calls EXCEPT ![c] = [Idle EXCEPT
                           !.first = calls[c].first, !.reply = "exhausted"]]
    <2>1. calls[c].first \in Nat
      BY DEF IInv, TypeOK, Call
    <2>2. [Idle EXCEPT !.first = calls[c].first, !.reply = "exhausted"] \in Call
      BY <2>1 DEF Idle, Call, Replies
    <2>3. [Idle EXCEPT !.first = calls[c].first, !.reply = "exhausted"].pc
            = "idle"
      BY DEF Idle
    <2>. QED
      BY <1>1, <1>4, <2>2, <2>3
  <1>. QED
    BY <1>2, <1>3, <1>4

\* A call that goes on to swap on the row as it is now.
LEMMA NowLoaded ==
    ASSUME IInv, row' = row, clock' = clock, row # None, row.revision \in Nat,
           NEW c \in Callers, NEW call \in Call, call.loaded = row,
           calls' = [calls EXCEPT ![c] = call],
           call.pc = "swap" =>
              /\ call.request # None
              /\ call.request.now <= clock
              /\ ReadyToSwap(row.snapshot, call.request)
    PROVE  IInv'
  <1>1. /\ call.loaded # None
        /\ call.loaded.revision <= row.revision
        /\ call.loaded.revision = row.revision => call.loaded = row
    OBVIOUS
  <1>2. call.pc = "swap" => ReadyToSwap(call.loaded.snapshot, call.request)
    OBVIOUS
  <1>. QED
    BY <1>1, <1>2, OneCallMoves

LEMMA StartFits ==
    ASSUME IInv, NEW c \in Callers, NEW r \in Request, Start(c, r)
    PROVE  IInv'
  <1>. DEFINE call == [Idle EXCEPT !.pc = "swap", !.request = r,
                                   !.loaded = row, !.first = row.revision]
  <1>1. /\ row # None /\ row \in Row /\ r.now <= clock
        /\ ReadyToSwap(row.snapshot, r) /\ row' = row /\ clock' = clock
    BY DEF Start, MayStart, IInv, TypeOK
  <1>2. row.revision \in Nat
    BY <1>1 DEF Row
  <1>3. call \in Call
    BY <1>1, <1>2 DEF Idle, Call, Replies
  <1>4. call.pc = "swap" /\ call.request = r /\ call.loaded = row
    BY DEF Idle
  <1>5. calls' = [calls EXCEPT ![c] = call]
    BY DEF Start
  <1>6. r # None
    BY RowAssumption
  <1>. HIDE DEF call
  <1>. QED
    BY <1>1, <1>2, <1>3, <1>4, <1>5, <1>6, NowLoaded

LEMMA RetryFits ==
    ASSUME IInv, NEW c \in Callers, Retry(c) PROVE IInv'
  <1>. DEFINE call == Reloaded(c)
  <1>1. /\ row' = row /\ clock' = clock /\ calls[c].pc = "swap"
        /\ ReadyToSwap(row.snapshot, calls[c].request)
        /\ calls' = [calls EXCEPT ![c] = call]
    BY DEF Retry, Conflicted, Req
  <1>2. /\ row \in Row /\ row # None /\ calls[c].request # None
        /\ calls[c].request.now <= clock
    BY <1>1, LoadedType DEF IInv, CallFits, LoadedFits
  <1>3. calls[c] \in Call
    BY DEF IInv, TypeOK
  <1>4. /\ call \in Call /\ call.pc = "swap" /\ call.loaded = row
        /\ call.request = calls[c].request
    <2>1. PICK n \in Nat : n = calls[c].conflicts + 1
      BY <1>3 DEF Call
    <2>2. call = [calls[c] EXCEPT !.loaded = row, !.conflicts = n]
      BY <2>1 DEF Reloaded
    <2>. QED
      BY <1>1, <1>2, <1>3, <2>2 DEF Call
  <1>5. row.revision \in Nat
    BY <1>2 DEF Row
  <1>. HIDE DEF call
  <1>. QED
    BY <1>1, <1>2, <1>4, <1>5, NowLoaded

LEMMA ReadFits ==
    ASSUME IInv, NEW c \in Callers, ReadForInstall(c) PROVE IInv'
  <1>. DEFINE call == [Idle EXCEPT !.pc = "install", !.loaded = row]
  <1>1. /\ row' = row /\ clock' = clock /\ row # None /\ row \in Row
        /\ calls' = [calls EXCEPT ![c] = call]
    BY DEF ReadForInstall, IInv, TypeOK
  <1>2. call \in Call /\ call.pc = "install" /\ call.loaded = row
    BY <1>1 DEF Idle, Call, Replies
  <1>3. row.revision \in Nat
    BY <1>1 DEF Row
  <1>. HIDE DEF call
  <1>. QED
    BY <1>1, <1>2, <1>3, NowLoaded

LEMMA TickFits == ASSUME IInv, Tick PROVE IInv'
  <1>1. PICK n \in Time : n > clock /\ clock' = n
    BY DEF Tick
  <1>2. row' = row /\ calls' = calls
    BY DEF Tick
  <1>3. clock \in Nat /\ n \in Nat
    BY TimeIsNat DEF IInv, TypeOK
  <1>4. TypeOK' /\ StoredSnapshotRestorable'
    BY <1>1, <1>2 DEF IInv, TypeOK, StoredSnapshotRestorable
  <1>5. ASSUME NEW c \in Callers PROVE CallFits(c)'
    <2>1. CallFits(c) /\ calls[c] \in Call
      BY DEF IInv, TypeOK
    <2>2. LoadedFits(c) => LoadedFits(c)'
      BY <1>2 DEF LoadedFits
    <2>3. ASSUME calls[c].pc = "swap" PROVE calls[c].request.now <= clock'
      <3>1. calls[c].request \in Request /\ calls[c].request.now <= clock
        BY <2>1, <2>3 DEF CallFits, Call
      <3>2. calls[c].request.now \in Nat
        BY <3>1, RequestTask, TimeIsNat
      <3>. QED
        BY <1>1, <1>3, <3>1, <3>2
    <2>. QED
      BY <1>2, <2>1, <2>2, <2>3 DEF CallFits
  <1>. QED
    BY <1>4, <1>5 DEF IInv

LEMMA StutterFits == ASSUME IInv, UNCHANGED vars PROVE IInv'
  BY DEF vars, IInv, TypeOK, StoredSnapshotRestorable, CallFits, LoadedFits

LEMMA ProceedFits ==
    ASSUME IInv, NEW c \in Callers, Proceed(c) PROVE IInv'
  <1>1. CASE Commit(c)
    BY <1>1, CommitFits
  <1>2. CASE ContentionExhausted(c)
    BY <1>2, AnswerFits DEF ContentionExhausted
  <1>3. CASE Retry(c)
    BY <1>3, RetryFits
  <1>4. CASE RetryUnchanged(c)
    <2>1. /\ row # None /\ Req(c) \in Request /\ AnswerOk(c, Req(c), row)
          /\ row' = row /\ clock' = clock
      BY <1>4, LoadedType DEF RetryUnchanged, Conflicted, LoadedFits, Req
    <2>. QED
      BY <2>1, AnswerFits
  <1>5. CASE RetryRefused(c)
    BY <1>5, AnswerFits DEF RetryRefused
  <1>6. CASE Install(c)
    BY <1>6, InstallFits
  <1>7. CASE InstallConflict(c)
    BY <1>7, AnswerFits DEF InstallConflict
  <1>. QED
    BY <1>1, <1>2, <1>3, <1>4, <1>5, <1>6, <1>7 DEF Proceed

LEMMA StepFits == IInv /\ [Next]_vars => IInv'
  <1>. SUFFICES ASSUME IInv, [Next]_vars PROVE IInv'
    OBVIOUS
  <1>1. ASSUME NEW c \in Callers, InitializeRun(c) PROVE IInv'
    BY <1>1, InitializeFits
  <1>2. ASSUME NEW c \in Callers, NEW r \in Request, Start(c, r) PROVE IInv'
    BY <1>2, StartFits
  <1>3. ASSUME NEW c \in Callers, NEW r \in Request, StartUnchanged(c, r)
        PROVE  IInv'
    BY <1>3, AnswerFits DEF StartUnchanged, MayStart
  <1>4. ASSUME NEW c \in Callers, ReadForInstall(c) PROVE IInv'
    BY <1>4, ReadFits
  <1>5. ASSUME NEW c \in Callers, Proceed(c) PROVE IInv'
    BY <1>5, ProceedFits
  <1>6. ASSUME NEW c \in Callers, Crash(c) PROVE IInv'
    BY <1>6, AnswerFits DEF Crash, AnswerError
  <1>7. CASE Tick
    BY <1>7, TickFits
  <1>8. CASE UNCHANGED vars
    BY <1>8, StutterFits
  <1>. QED
    BY <1>1, <1>2, <1>3, <1>4, <1>5, <1>6, <1>7, <1>8 DEF Next

THEOREM InvariantHolds == Spec => []IInv
  <1>1. Init => IInv
    BY InitFits
  <1>2. IInv /\ [Next]_vars => IInv'
    BY StepFits
  <1>. QED
    BY <1>1, <1>2, PTL DEF Spec

\* The row, the calls and the clock keep their types.
THEOREM DurableTypeCorrect == Spec => []TypeOK
  <1>1. IInv => TypeOK
    BY DEF IInv
  <1>. QED
    BY <1>1, InvariantHolds, PTL

\* No interleaving of callers, conflicts, retries and crashes stores a row that
\* the strict restore of the next command refuses.
THEOREM StoredAlwaysRestorable == Spec => []StoredSnapshotRestorable
  <1>1. IInv => StoredSnapshotRestorable
    BY DEF IInv
  <1>. QED
    BY <1>1, InvariantHolds, PTL

\* Two running tasks of the store never declare a common write key, whatever
\* the instants of the requests that started them.
THEOREM WritersAlwaysExclusive == Spec => []WritersExclusive
  <1>1. IInv => WritersExclusive
    <2>. SUFFICES ASSUME IInv, NEW t1 \in Tasks, NEW t2 \in Tasks,
                         t1 # t2, Running(t1), Running(t2),
                         NEW k \in WriteKeysOf[t1], k \in WriteKeysOf[t2]
                  PROVE  FALSE
      BY DEF WritersExclusive
    <2>1. Restorable(row.snapshot)
      BY DEF IInv, StoredSnapshotRestorable, Running
    <2>2. /\ row.snapshot.tasks[t1].lease # None
          /\ row.snapshot.tasks[t2].lease # None
      BY <2>1 DEF Restorable, TaskFits, LeaseFits, Running
    <2>3. /\ row.snapshot.owners[k] = OwnerFor(t1, row.snapshot.tasks[t1].lease)
          /\ row.snapshot.owners[k] = OwnerFor(t2, row.snapshot.tasks[t2].lease)
      BY <2>1, <2>2 DEF Restorable, OwnersFit
    <2>. QED
      BY <2>3 DEF OwnerFor
  <1>. QED
    BY <1>1, InvariantHolds, PTL

-----------------------------------------------------------------------------
(* What callers were told, and the row.                                    *)

\* An operation that goes through takes no attempt and no record back; a claim
\* adds an attempt, and a completion or a cancellation adds its record.
LEMMA EffectKeepsHistory ==
    ASSUME NEW s \in Snapshot, Restorable(s), NEW r \in Request, Changes(s, r)
    PROVE  /\ \A t \in Tasks :
                /\ Effect(s, r).tasks[t].attempts >= s.tasks[t].attempts
                /\ s.tasks[t].terminal # None =>
                     Effect(s, r).tasks[t].terminal = s.tasks[t].terminal
           /\ r.op = "claim" =>
                Effect(s, r).tasks[r.task].attempts > s.tasks[r.task].attempts
           /\ r.op \in {"complete", "cancel"} =>
                Effect(s, r).tasks[r.task].terminal = RecordOf(r)
  <1>. DEFINE st == s.tasks[r.task]
  <1>1. r.task \in Tasks /\ st \in TaskState /\ st.attempts \in Nat
    BY RequestTask DEF Snapshot, TaskState
  <1>2. st.terminal # None => st.status \in Outcomes /\ st.lease = None
    BY <1>1 DEF Restorable, TaskFits, RecordFits, LeaseFits, Outcomes
  <1>3. ASSUME NEW t \in Tasks, t # r.task
        PROVE  Effect(s, r).tasks[t] = s.tasks[t] /\ s.tasks[t].attempts \in Nat
    BY <1>3, OtherTasksKept DEF Effect, Snapshot, TaskState
  <1>4. CASE r.op = "claim" /\ ClaimAllowed(s, r)
    <2>1. Effect(s, r).tasks[r.task] = ClaimedTask(s, r)
      BY <1>1, <1>4, NamedTaskChanged DEF Effect
    <2>2. st.terminal = None
      BY <1>2, <1>4 DEF ClaimAllowed, Unclaimed, LeaseRanOut, Outcomes
    <2>. QED
      BY <1>1, <1>3, <1>4, <2>1, <2>2 DEF ClaimedTask
  <1>5. CASE r.op = "heartbeat" /\ HeartbeatAllowed(s, r)
    <2>1. Effect(s, r).tasks[r.task] = ExtendedTask(st, r)
      BY <1>1, <1>5, NamedTaskChanged DEF Effect
    <2>. QED
      BY <1>1, <1>3, <1>5, <2>1 DEF ExtendedTask, TaskState
  <1>6. CASE r.op \in {"complete", "cancel"} /\ TerminalAllowed(s, r)
    <2>1. Effect(s, r).tasks[r.task] = FinishedTask(st, r)
      BY <1>1, <1>6, NamedTaskChanged DEF Effect
    <2>2. FinishedTask(st, r).attempts = st.attempts /\ FinishedTask(st, r).terminal = RecordOf(r)
      BY <1>1 DEF FinishedTask, TaskState
    <2>3. st.terminal = None /\ r.op # "claim"
      BY <1>6 DEF TerminalAllowed
    <2>. QED
      BY <1>1, <1>3, <2>1, <2>2, <2>3
  <1>7. CASE r.op = "fail" /\ FailureAllowed(s, r)
    <2>1. Effect(s, r).tasks[r.task] = FailedTask(st)
      BY <1>1, <1>7, NamedTaskChanged DEF Effect
    <2>2. FailedTask(st).attempts = st.attempts /\ FailedTask(st).terminal = st.terminal
      BY <1>1 DEF FailedTask, TaskState
    <2>3. r.op \notin {"claim", "complete", "cancel"}
      BY <1>7
    <2>. QED
      BY <1>1, <1>3, <2>1, <2>2, <2>3
  <1>. QED
    BY <1>4, <1>5, <1>6, <1>7 DEF Changes

\* What a command was told Ok about: a request it had, answered from the row.
Told(c) == calls[c].reply = "ok" /\ calls[c].request # None

\* One call c is answered Ok to r, from the row that the step leaves.
Answered(c, r) ==
    /\ AnswerOk(c, r, row')
    /\ row # None /\ row' # None
    /\ \/ row' = row /\ Repeats(row.snapshot, r)
       \/ Changes(row.snapshot, r) /\ row'.snapshot = Effect(row.snapshot, r)

\* The row keeps every task as it was, if there was a row.
SnapshotStays == row # None => row' # None /\ row'.snapshot = row.snapshot

LEMMA CommitAnswers ==
    ASSUME IInv, NEW c \in Callers, Commit(c)
    PROVE  Req(c) \in Request /\ Answered(c, Req(c))
  <1>1. /\ calls[c].pc = "swap" /\ RevisionMatches(c) /\ row' = Swapped(c)
        /\ AnswerOk(c, Req(c), row') /\ Req(c) \in Request
    BY LoadedType DEF Commit, Req
  <1>2. /\ calls[c].loaded = row /\ row \in Row /\ Swapped(c) \in Row
        /\ Swapped(c).snapshot = Effect(row.snapshot, Req(c))
    BY <1>1, SwappedType
  <1>3. ReadyToSwap(row.snapshot, Req(c))
    BY <1>1, <1>2 DEF IInv, CallFits, Req
  <1>4. row'.snapshot = Effect(row.snapshot, Req(c)) /\ row # None /\ row' # None
    BY <1>1, <1>2, RowAssumption, Zenon
  <1>. QED
    BY <1>1, <1>3, <1>4 DEF Answered, ReadyToSwap

\* Who is in the authority has no answer yet.
NoAnswerYet == \A c \in Callers : calls[c].pc # "idle" => calls[c].reply = "none"

\* A step answers one command, or tells nobody anything and leaves the tasks of
\* the row as they are.
LEMMA StepAnswers ==
    ASSUME IInv, NoAnswerYet, [Next]_vars
    PROVE  \/ \E c \in Callers, r \in Request : Answered(c, r)
           \/ /\ SnapshotStays
              /\ \A d \in Callers : calls'[d] = calls[d] \/ ~Told(d)'
  <1>. DEFINE Quiet == /\ SnapshotStays
                       /\ \A d \in Callers : calls'[d] = calls[d] \/ ~Told(d)'
  <1>0. ASSUME NEW c \in Callers, NEW call \in Call, calls' = [calls EXCEPT ![c] = call],
               call.reply # "ok" \/ call.request = None, SnapshotStays
        PROVE  Quiet
    <2>1. \A d \in Callers : calls'[d] = IF d = c THEN call ELSE calls[d]
      BY <1>0 DEF IInv, TypeOK
    <2>. QED
      BY <1>0, <2>1 DEF Told
  <1>1. ASSUME NEW c \in Callers, InitializeRun(c) PROVE Quiet
    <2>1. [Idle EXCEPT !.reply = "ok"] \in Call /\ [Idle EXCEPT !.reply = "ok"].request = None
      BY DEF Idle, Call, Replies
    <2>. QED
      BY <1>0, <1>1, <2>1 DEF InitializeRun, SnapshotStays
  <1>2. ASSUME NEW c \in Callers, NEW r \in Request, Start(c, r) PROVE Quiet
    <2>1. PICK x : x = [Idle EXCEPT !.pc = "swap", !.request = r,
                                    !.loaded = row, !.first = row.revision]
      OBVIOUS
    <2>2. row \in Row /\ row.revision \in Nat
      BY <1>2 DEF Start, MayStart, IInv, TypeOK, Row
    <2>3. x \in Call /\ x.reply = "none"
      BY <2>1, <2>2 DEF Idle, Call, Replies
    <2>. QED
      BY <1>0, <1>2, <2>1, <2>3 DEF Start, SnapshotStays
  <1>3. ASSUME NEW c \in Callers, NEW r \in Request, StartUnchanged(c, r)
        PROVE  Answered(c, r)
    BY <1>3 DEF StartUnchanged, MayStart, Unchanged, Answered
  <1>4. ASSUME NEW c \in Callers, ReadForInstall(c) PROVE Quiet
    <2>1. PICK x : x = [Idle EXCEPT !.pc = "install", !.loaded = row]
      OBVIOUS
    <2>2. x \in Call /\ x.reply = "none"
      BY <1>4, <2>1 DEF Idle, Call, Replies, ReadForInstall, IInv, TypeOK
    <2>. QED
      BY <1>0, <1>4, <2>1, <2>2 DEF ReadForInstall, SnapshotStays
  <1>5. ASSUME NEW c \in Callers, ContentionExhausted(c) PROVE Quiet
    <2>1. PICK x : x = [Idle EXCEPT !.first = calls[c].first, !.reply = "exhausted"]
      OBVIOUS
    <2>2. x \in Call /\ x.reply = "exhausted"
      BY <2>1 DEF Idle, Call, Replies, IInv, TypeOK
    <2>. QED
      BY <1>0, <1>5, <2>1, <2>2 DEF ContentionExhausted, SnapshotStays
  <1>6. ASSUME NEW c \in Callers, Retry(c) PROVE Quiet
    <2>1. PICK x : x = Reloaded(c)
      OBVIOUS
    <2>2. \A d \in Callers : calls'[d] = IF d = c THEN x ELSE calls[d]
      BY <1>6, <2>1 DEF Retry, IInv, TypeOK
    <2>3. calls[c] \in Call /\ x.reply = calls[c].reply /\ x.request = calls[c].request
      BY <2>1 DEF Reloaded, IInv, TypeOK, Call
    <2>4. calls[c].pc = "swap"
      BY <1>6 DEF Retry, Conflicted
    <2>. QED
      BY <1>6, <2>2, <2>3, <2>4 DEF Retry, SnapshotStays, Told, NoAnswerYet
  <1>7. ASSUME NEW c \in Callers, RetryUnchanged(c)
        PROVE  Req(c) \in Request /\ Answered(c, Req(c))
    BY <1>7, LoadedType DEF RetryUnchanged, Conflicted, Unchanged, Answered, Req, LoadedFits
  <1>8. ASSUME NEW c \in Callers, RetryRefused(c) \/ InstallConflict(c) \/ Crash(c)
        PROVE  Quiet
    <2>1. calls' = [calls EXCEPT ![c] = Idle] /\ row' = row
      BY <1>8 DEF RetryRefused, InstallConflict, Crash, AnswerError
    <2>. QED
      BY <1>0, <2>1, IdleType DEF Idle, SnapshotStays
  <1>9. ASSUME NEW c \in Callers, Install(c) PROVE Quiet
    <2>1. /\ calls[c].pc = "install" /\ RevisionMatches(c) /\ row' = Installed(c)
      BY <1>9 DEF Install
    <2>2. calls[c].loaded = row /\ row \in Row
      BY <2>1, LoadedType DEF LoadedFits, RevisionMatches
    <2>3. row' = [revision |-> row.revision + 1, snapshot |-> row.snapshot,
                  projection |-> row.projection + 1]
      BY <2>1, <2>2 DEF Installed
    <2>4. row' \in Row
      BY <2>2, <2>3 DEF Row
    <2>5. SnapshotStays
      BY <2>3, <2>4, RowAssumption DEF SnapshotStays
    <2>6. [Idle EXCEPT !.reply = "ok"] \in Call /\ [Idle EXCEPT !.reply = "ok"].request = None
      BY DEF Idle, Call, Replies
    <2>. QED
      BY <1>0, <1>9, <2>5, <2>6 DEF Install
  <1>10. ASSUME NEW c \in Callers, Commit(c)
         PROVE  Req(c) \in Request /\ Answered(c, Req(c))
    BY <1>10, CommitAnswers
  <1>11. ASSUME Tick \/ UNCHANGED vars PROVE Quiet
    BY <1>11 DEF Tick, vars, SnapshotStays
  <1>. HIDE DEF Quiet
  <1>12. ASSUME NEW c \in Callers, Proceed(c)
         PROVE  (\E r \in Request : Answered(c, r)) \/ Quiet
    BY <1>5, <1>6, <1>7, <1>8, <1>9, <1>10, <1>12 DEF Proceed
  <1>13. (\E c \in Callers, r \in Request : Answered(c, r)) \/ Quiet
    <2>1. CASE UNCHANGED vars
      BY <1>11, <2>1
    <2>2. CASE Next
      BY <1>1, <1>2, <1>3, <1>4, <1>8, <1>11, <1>12, <2>2 DEF Next
    <2>. QED
      BY <2>1, <2>2
  <1>. QED
    BY <1>13 DEF Quiet

\* Of a task, what may not be taken back.
RowGrows ==
    row # None =>
        /\ row' # None
        /\ \A t \in Tasks :
             /\ row'.snapshot.tasks[t].attempts >= row.snapshot.tasks[t].attempts
             /\ row.snapshot.tasks[t].terminal # None =>
                  row'.snapshot.tasks[t].terminal = row.snapshot.tasks[t].terminal

LEMMA StaysGrows == ASSUME IInv, SnapshotStays PROVE RowGrows
  BY DEF SnapshotStays, RowGrows, IInv, TypeOK, Row, Snapshot, TaskState

LEMMA AnsweredGrows ==
    ASSUME IInv, NEW c \in Callers, NEW r \in Request, Answered(c, r)
    PROVE  RowGrows
  <1>1. row \in Row /\ row.snapshot \in Snapshot /\ Restorable(row.snapshot)
    BY DEF Answered, IInv, TypeOK, StoredSnapshotRestorable, Row
  <1>2. CASE row' = row
    BY <1>2, StaysGrows DEF SnapshotStays
  <1>3. CASE Changes(row.snapshot, r) /\ row'.snapshot = Effect(row.snapshot, r)
    BY <1>1, <1>3, EffectKeepsHistory DEF Answered, RowGrows
  <1>. QED
    BY <1>2, <1>3 DEF Answered

\* What the callers were told of the row still stands in it.
WinInv ==
    /\ \A c \in Callers : Ok(c, {"claim"}) =>
         /\ row # None
         /\ calls[c].attempt <= row.snapshot.tasks[Req(c).task].attempts
    /\ \A c \in Callers : Ok(c, {"complete", "cancel"}) =>
         /\ row # None
         /\ row.snapshot.tasks[Req(c).task].terminal = RecordOf(Req(c))
    /\ AttemptsAreWonOnce
    /\ NoAnswerYet

\* What a caller was told before stays true.
LEMMA ToldStays ==
    ASSUME IInv, TypeOK', WinInv, RowGrows, NEW d \in Callers, calls'[d] = calls[d]
    PROVE  /\ Ok(d, {"claim"})' =>
                /\ Ok(d, {"claim"}) /\ row' # None
                /\ calls[d].attempt <= row.snapshot.tasks[Req(d).task].attempts
                /\ calls'[d].attempt <= row'.snapshot.tasks[Req(d)'.task].attempts
           /\ Ok(d, {"complete", "cancel"})' =>
                /\ row' # None
                /\ row'.snapshot.tasks[Req(d)'.task].terminal = RecordOf(Req(d)')
  <1>1. calls[d].request # None => Req(d) \in Request /\ Req(d).task \in Tasks
    BY RequestTask DEF IInv, TypeOK, Call, Req
  <1>2. Ok(d, {"claim"})' => Ok(d, {"claim"})
    BY DEF Ok
  <1>3. Ok(d, {"complete", "cancel"})' => Ok(d, {"complete", "cancel"})
    BY DEF Ok
  <1>4. Req(d)' = Req(d)
    BY DEF Req
  <1>5. ASSUME NEW t \in Tasks, row # None, row' # None
        PROVE  /\ row.snapshot.tasks[t].attempts \in Nat /\ calls[d].attempt \in Nat
               /\ row'.snapshot.tasks[t].attempts \in Nat
               /\ row.snapshot.tasks[t].terminal # None =>
                    row'.snapshot.tasks[t].terminal = row.snapshot.tasks[t].terminal
               /\ row'.snapshot.tasks[t].attempts >= row.snapshot.tasks[t].attempts
    BY <1>5 DEF IInv, TypeOK, Row, Snapshot, TaskState, Call, RowGrows
  <1>6. ASSUME Ok(d, {"claim"})'
        PROVE  /\ Ok(d, {"claim"}) /\ row' # None
               /\ calls[d].attempt <= row.snapshot.tasks[Req(d).task].attempts
               /\ calls'[d].attempt <= row'.snapshot.tasks[Req(d)'.task].attempts
    <2>1. /\ Ok(d, {"claim"}) /\ row # None
          /\ calls[d].attempt <= row.snapshot.tasks[Req(d).task].attempts
      BY <1>2, <1>6 DEF WinInv
    <2>2. Req(d).task \in Tasks /\ row' # None
      BY <1>1, <2>1 DEF Ok, RowGrows
    <2>. QED
      BY <1>4, <1>5, <2>1, <2>2
  <1>7. ASSUME Ok(d, {"complete", "cancel"})'
        PROVE  /\ row' # None
               /\ row'.snapshot.tasks[Req(d)'.task].terminal = RecordOf(Req(d)')
    <2>1. row # None /\ row.snapshot.tasks[Req(d).task].terminal = RecordOf(Req(d))
      BY <1>3, <1>7 DEF WinInv
    <2>2. Req(d).task \in Tasks /\ row' # None /\ Req(d) \in Request
      BY <1>1, <1>3, <1>7, <2>1 DEF Ok, RowGrows
    <2>3. RecordOf(Req(d)) \in TerminalRecord
      <3>1. Req(d) \in TerminalRequest
        BY <1>3, <1>7, <2>2 DEF Ok, Req, Request, ClaimRequest, HeartbeatRequest,
             FailureRequest, TerminalRequest
      <3>. QED
        BY <3>1, <2>2 DEF RecordOf, TerminalRequest, TerminalRecord, OutcomeOf, Outcomes
    <2>4. RecordOf(Req(d)) # None
      BY <2>3, NoneAssumption
    <2>. QED
      BY <1>4, <1>5, <2>1, <2>2, <2>4
  <1>. QED
    BY <1>6, <1>7

LEMMA NoAnswerStays == ASSUME IInv, NoAnswerYet, [Next]_vars PROVE NoAnswerYet'
  <1>1. ASSUME NEW c \in Callers, NEW call, calls' = [calls EXCEPT ![c] = call],
               call.pc # "idle" => call.reply = "none"
        PROVE  NoAnswerYet'
    BY <1>1 DEF NoAnswerYet, IInv, TypeOK
  <1>2. ASSUME NEW c \in Callers, NEW r, NEW envelope, AnswerOk(c, r, envelope)
        PROVE  NoAnswerYet'
    BY <1>1, <1>2 DEF AnswerOk, Idle
  <1>3. ASSUME NEW c \in Callers, calls' = [calls EXCEPT ![c] = Idle] PROVE NoAnswerYet'
    BY <1>1, <1>3 DEF Idle
  <1>4. ASSUME NEW c \in Callers, calls' = [calls EXCEPT ![c] = [Idle EXCEPT !.reply = "ok"]]
        PROVE  NoAnswerYet'
    BY <1>1, <1>4 DEF Idle
  <1>5. ASSUME NEW c \in Callers, Retry(c) PROVE NoAnswerYet'
    <2>1. calls[c] \in Call /\ calls[c].reply = "none"
      BY <1>5 DEF NoAnswerYet, IInv, TypeOK, Retry, Conflicted
    <2>2. Reloaded(c).reply = "none"
      BY <2>1 DEF Reloaded, Call
    <2>. QED
      BY <1>1, <1>5, <2>2 DEF Retry
  <1>6. ASSUME NEW c \in Callers, ContentionExhausted(c) PROVE NoAnswerYet'
    <2>1. [Idle EXCEPT !.first = calls[c].first, !.reply = "exhausted"].pc = "idle"
      BY DEF Idle
    <2>. QED
      BY <1>1, <1>6, <2>1 DEF ContentionExhausted
  <1>7. ASSUME NEW c \in Callers, NEW r \in Request, Start(c, r) PROVE NoAnswerYet'
    <2>1. [Idle EXCEPT !.pc = "swap", !.request = r, !.loaded = row,
                       !.first = row.revision].reply = "none"
      BY DEF Idle
    <2>. QED
      BY <1>1, <1>7, <2>1 DEF Start
  <1>8. ASSUME NEW c \in Callers, ReadForInstall(c) PROVE NoAnswerYet'
    <2>1. [Idle EXCEPT !.pc = "install", !.loaded = row].reply = "none"
      BY DEF Idle
    <2>. QED
      BY <1>1, <1>8, <2>1 DEF ReadForInstall
  <1>9. ASSUME NEW c \in Callers, Proceed(c) PROVE NoAnswerYet'
    BY <1>2, <1>3, <1>4, <1>5, <1>6, <1>9
       DEF Proceed, Commit, RetryUnchanged, RetryRefused, Install, InstallConflict, AnswerError
  <1>10. CASE Tick \/ UNCHANGED vars
    BY <1>10 DEF Tick, vars, NoAnswerYet
  <1>11. ASSUME NEW c \in Callers, InitializeRun(c) \/ Crash(c) PROVE NoAnswerYet'
    BY <1>3, <1>4, <1>11 DEF InitializeRun, Crash
  <1>12. ASSUME NEW c \in Callers, NEW r \in Request, StartUnchanged(c, r)
         PROVE  NoAnswerYet'
    BY <1>2, <1>12 DEF StartUnchanged
  <1>. QED
    BY <1>7, <1>8, <1>9, <1>10, <1>11, <1>12 DEF Next

\* The caller that is answered now is told what the row then says.
LEMMA AnsweredTells ==
    ASSUME IInv, IInv', NEW c \in Callers, NEW r \in Request, Answered(c, r)
    PROVE  /\ calls'[c].request = r /\ Req(c)' = r
           /\ calls'[c].attempt = row'.snapshot.tasks[r.task].attempts
           /\ r.op = "claim" =>
                row'.snapshot.tasks[r.task].attempts > row.snapshot.tasks[r.task].attempts
           /\ r.op \in {"complete", "cancel"} =>
                row'.snapshot.tasks[r.task].terminal = RecordOf(r)
           /\ \A d \in Callers : d # c => calls'[d] = calls[d]
  <1>1. /\ row \in Row /\ row.snapshot \in Snapshot /\ Restorable(row.snapshot)
        /\ r.task \in Tasks
    BY RequestTask DEF Answered, IInv, TypeOK, StoredSnapshotRestorable, Row
  <1>2. calls' = [calls EXCEPT ![c] =
          [Idle EXCEPT !.request = r,
                       !.attempt = row'.snapshot.tasks[r.task].attempts, !.reply = "ok"]]
    BY DEF Answered, AnswerOk
  <1>3. /\ calls'[c] = [Idle EXCEPT !.request = r,
                          !.attempt = row'.snapshot.tasks[r.task].attempts, !.reply = "ok"]
        /\ \A d \in Callers : d # c => calls'[d] = calls[d]
    BY <1>2 DEF IInv, TypeOK
  <1>4. /\ calls'[c].request = r
        /\ calls'[c].attempt = row'.snapshot.tasks[r.task].attempts
    BY <1>3 DEF Idle
  <1>5. CASE Changes(row.snapshot, r) /\ row'.snapshot = Effect(row.snapshot, r)
    BY <1>1, <1>3, <1>4, <1>5, EffectKeepsHistory DEF Req
  <1>6. CASE row' = row /\ Repeats(row.snapshot, r)
    <2>1. /\ row.snapshot.tasks[r.task].terminal # None
          /\ TerminalRetry(row.snapshot, r) /\ r.op # "claim"
      BY <1>6 DEF Repeats, TerminalRetry
    <2>2. row.snapshot.tasks[r.task].terminal \in TerminalRecord
      BY <1>1, <2>1 DEF Snapshot, TaskState
    <2>3. row.snapshot.tasks[r.task].terminal = RecordOf(r)
      BY <2>1, <2>2 DEF TerminalRetry, RecordOf, TerminalRecord
    <2>. QED
      BY <1>3, <1>4, <1>6, <2>1, <2>3 DEF Req
  <1>. QED
    BY <1>5, <1>6 DEF Answered

LEMMA WinStep == IInv /\ IInv' /\ WinInv /\ [Next]_vars => WinInv'
  <1>. SUFFICES ASSUME IInv, IInv', WinInv, [Next]_vars PROVE WinInv'
    OBVIOUS
  <1>0. TypeOK'
    BY DEF IInv
  <1>0a. NoAnswerYet'
    BY NoAnswerStays DEF WinInv
  <1>1. ASSUME NEW c \in Callers, NEW r \in Request, Answered(c, r) PROVE WinInv'
    <2>1. RowGrows /\ row # None /\ row' # None
      BY <1>1, AnsweredGrows DEF Answered
    <2>2. /\ calls'[c].request = r /\ Req(c)' = r
          /\ calls'[c].attempt = row'.snapshot.tasks[r.task].attempts
          /\ r.op = "claim" =>
               row'.snapshot.tasks[r.task].attempts > row.snapshot.tasks[r.task].attempts
          /\ r.op \in {"complete", "cancel"} =>
               row'.snapshot.tasks[r.task].terminal = RecordOf(r)
          /\ \A d \in Callers : d # c => calls'[d] = calls[d]
      BY <1>1, AnsweredTells
    <2>3. r.task \in Tasks
      BY RequestTask
    <2>4. /\ row.snapshot.tasks[r.task].attempts \in Nat
          /\ row'.snapshot.tasks[r.task].attempts \in Nat
      BY <1>0, <2>1, <2>3 DEF IInv, TypeOK, Row, Snapshot, TaskState
    <2>5. ASSUME NEW d \in Callers, d # c
          PROVE  /\ Ok(d, {"claim"})' =>
                      /\ Ok(d, {"claim"}) /\ row' # None
                      /\ calls[d].attempt <= row.snapshot.tasks[Req(d).task].attempts
                      /\ calls'[d].attempt <= row'.snapshot.tasks[Req(d)'.task].attempts
                 /\ Ok(d, {"complete", "cancel"})' =>
                      /\ row' # None
                      /\ row'.snapshot.tasks[Req(d)'.task].terminal = RecordOf(Req(d)')
      BY <1>0, <2>1, <2>2, <2>5, ToldStays
    <2>6. ASSUME NEW d \in Callers, Ok(d, {"claim"})'
          PROVE  /\ row' # None
                 /\ calls'[d].attempt <= row'.snapshot.tasks[Req(d)'.task].attempts
      BY <2>1, <2>2, <2>4, <2>5, <2>6
    <2>7. ASSUME NEW d \in Callers, Ok(d, {"complete", "cancel"})'
          PROVE  /\ row' # None
                 /\ row'.snapshot.tasks[Req(d)'.task].terminal = RecordOf(Req(d)')
      <3>1. CASE d = c
        <4>1. r.op \in {"complete", "cancel"}
          BY <2>2, <2>7, <3>1 DEF Ok
        <4>. QED
          BY <2>1, <2>2, <3>1, <4>1
      <3>. QED
        BY <2>5, <2>7, <3>1
    <2>8. ASSUME NEW d \in Callers, d # c, Ok(d, {"claim"})', Ok(c, {"claim"})',
                 Req(d)'.task = Req(c)'.task
          PROVE  calls'[d].attempt # calls'[c].attempt
      <3>1. /\ calls'[d] = calls[d] /\ Req(d) = Req(d)'
            /\ calls[d].attempt <= row.snapshot.tasks[Req(d).task].attempts
        BY <2>2, <2>5, <2>8 DEF Req
      <3>2. r.op = "claim"
        BY <2>2, <2>8 DEF Ok
      <3>3. calls[d].attempt \in Nat
        BY DEF IInv, TypeOK, Call
      <3>. QED
        BY <2>2, <2>4, <2>8, <3>1, <3>2, <3>3
    <2>9. AttemptsAreWonOnce'
      <3>. SUFFICES ASSUME NEW c1 \in Callers, NEW c2 \in Callers, c1 # c2,
                           Ok(c1, {"claim"})', Ok(c2, {"claim"})',
                           Req(c1)'.task = Req(c2)'.task
                    PROVE  calls'[c1].attempt # calls'[c2].attempt
        BY DEF AttemptsAreWonOnce
      <3>1. CASE c1 = c
        BY <2>8, <3>1
      <3>2. CASE c2 = c
        BY <2>8, <3>2
      <3>3. CASE c1 # c /\ c2 # c
        <4>1. calls'[c1] = calls[c1] /\ calls'[c2] = calls[c2]
          BY <2>2, <3>3
        <4>2. Ok(c1, {"claim"}) /\ Ok(c2, {"claim"})
          BY <2>5, <3>3
        <4>3. Req(c1) = Req(c1)' /\ Req(c2) = Req(c2)'
          BY <4>1 DEF Req
        <4>. QED
          BY <4>1, <4>2, <4>3 DEF WinInv, AttemptsAreWonOnce
      <3>. QED
        BY <3>1, <3>2, <3>3
    <2>. QED
      BY <1>0a, <2>6, <2>7, <2>9 DEF WinInv
  <1>2. ASSUME SnapshotStays, \A d \in Callers : calls'[d] = calls[d] \/ ~Told(d)'
        PROVE  WinInv'
    <2>1. RowGrows
      BY <1>2, StaysGrows
    <2>2. ASSUME NEW d \in Callers, NEW ops, Ok(d, ops)'
          PROVE  calls'[d] = calls[d] /\ Req(d)' = Req(d) /\ Ok(d, ops)
      BY <1>2, <2>2 DEF Ok, Told, Req
    <2>3. ASSUME NEW d \in Callers, calls'[d] = calls[d]
          PROVE  /\ Ok(d, {"claim"})' =>
                      /\ Ok(d, {"claim"}) /\ row' # None
                      /\ calls[d].attempt <= row.snapshot.tasks[Req(d).task].attempts
                      /\ calls'[d].attempt <= row'.snapshot.tasks[Req(d)'.task].attempts
                 /\ Ok(d, {"complete", "cancel"})' =>
                      /\ row' # None
                      /\ row'.snapshot.tasks[Req(d)'.task].terminal = RecordOf(Req(d)')
      BY <1>0, <2>1, <2>3, ToldStays
    <2>4. AttemptsAreWonOnce'
      BY <2>2 DEF WinInv, AttemptsAreWonOnce
    <2>. QED
      BY <1>0a, <2>2, <2>3, <2>4 DEF WinInv
  <1>. QED
    BY <1>1, <1>2, StepAnswers DEF WinInv

LEMMA WinHolds == Spec => []WinInv
  <1>1. Init => WinInv
    BY DEF Init, WinInv, AttemptsAreWonOnce, NoAnswerYet, Ok, Idle
  <1>2. IInv /\ IInv' /\ WinInv /\ [Next]_vars => WinInv'
    BY WinStep
  <1>. QED
    BY <1>1, <1>2, InvariantHolds, PTL DEF Spec

\* No two callers are told that they won the same attempt of a task, however
\* many there are, for whomever they act and whatever the conflicts and crashes.
THEOREM AttemptsAlwaysWonOnce == Spec => []AttemptsAreWonOnce
  <1>1. WinInv => AttemptsAreWonOnce
    BY DEF WinInv
  <1>. QED
    BY <1>1, WinHolds, PTL

\* Every caller that was told Ok to a completion or a cancellation finds in the
\* row the record of just that request: all of them won the same race.
THEOREM TerminalAlwaysOneWinner == Spec => []OneTerminalWinner
  <1>1. WinInv => OneTerminalWinner
    BY DEF WinInv, OneTerminalWinner
  <1>. QED
    BY <1>1, WinHolds, PTL

\* No claim takes effect past a writer whose lease ran out: the row that would
\* result, without the owner entry of that writer, is refused before the swap.
THEOREM ClaimsNeverPass == Spec => NoClaimPassesAnExpiredWriter
  <1>1. IInv /\ NoAnswerYet /\ IInv' /\ [Next]_vars =>
          \A t, u \in Tasks :
             /\ t # u /\ Running(t) /\ WriteKeysOf[t] # {}
             /\ row'.snapshot.tasks[u].attempts > row.snapshot.tasks[u].attempts
             => row.snapshot.tasks[t].lease.expires
                  > row'.snapshot.tasks[u].lease.claimed
    <2>. SUFFICES ASSUME IInv, NoAnswerYet, IInv', [Next]_vars,
                         NEW t \in Tasks, NEW u \in Tasks, t # u, Running(t),
                         WriteKeysOf[t] # {},
                         row'.snapshot.tasks[u].attempts > row.snapshot.tasks[u].attempts
                  PROVE  row.snapshot.tasks[t].lease.expires
                           > row'.snapshot.tasks[u].lease.claimed
      OBVIOUS
    <2>1. /\ row \in Row /\ row # None /\ row.snapshot \in Snapshot
          /\ Restorable(row.snapshot) /\ row.snapshot.tasks[u].attempts \in Nat
      BY DEF Running, IInv, TypeOK, StoredSnapshotRestorable, Row, Snapshot, TaskState
    <2>2. ~SnapshotStays
      BY <2>1 DEF SnapshotStays
    <2>3. PICK c \in Callers, r \in Request : Answered(c, r)
      BY <2>2, StepAnswers
    <2>4. /\ Changes(row.snapshot, r) /\ row' # None
          /\ row'.snapshot = Effect(row.snapshot, r)
      BY <2>1, <2>3 DEF Answered
    <2>5. r.op = "claim" /\ r.task = u /\ r \in ClaimRequest
      <3>1. r.task = u
        BY <2>1, <2>4, RequestTask, OtherTasksKept DEF Effect
      <3>2. CASE r.op = "heartbeat"
        <4>1. Effect(row.snapshot, r).tasks[u] = ExtendedTask(row.snapshot.tasks[u], r)
          BY <2>1, <3>1, <3>2, NamedTaskChanged DEF Effect
        <4>. QED
          BY <2>1, <2>4, <4>1 DEF ExtendedTask, Snapshot, TaskState
      <3>3. CASE r.op = "fail"
        <4>1. Effect(row.snapshot, r).tasks[u] = FailedTask(row.snapshot.tasks[u])
          BY <2>1, <3>1, <3>3, NamedTaskChanged DEF Effect
        <4>. QED
          BY <2>1, <2>4, <4>1 DEF FailedTask, Snapshot, TaskState
      <3>4. CASE r.op \in {"complete", "cancel"}
        <4>1. Effect(row.snapshot, r).tasks[u] = FinishedTask(row.snapshot.tasks[u], r)
          BY <2>1, <3>1, <3>4, NamedTaskChanged DEF Effect
        <4>. QED
          BY <2>1, <2>4, <4>1 DEF FinishedTask, Snapshot, TaskState
      <3>. QED
        BY <2>4, <3>1, <3>2, <3>3, <3>4 DEF Changes, Request, ClaimRequest,
             HeartbeatRequest, FailureRequest, TerminalRequest
    <2>6. Effect(row.snapshot, r) = ClaimEffect(row.snapshot, r)
      BY <2>5 DEF Effect
    <2>7. /\ row'.snapshot.tasks[u] = ClaimedTask(row.snapshot, r)
          /\ row'.snapshot.tasks[t] = row.snapshot.tasks[t]
      BY <2>1, <2>4, <2>5, <2>6, NamedTaskChanged, OtherTasksKept
    <2>8. Restorable(row'.snapshot)
      BY <2>4 DEF IInv, StoredSnapshotRestorable
    <2>9. PICK k \in WriteKeysOf[t] : TRUE
      OBVIOUS
    <2>10. k \in WriteKeys
      BY DefinitionAssumption
    <2>11. row.snapshot.tasks[t].lease # None /\ row.snapshot.tasks[t].lease \in Lease
      BY <2>1 DEF Running, Restorable, TaskFits, LeaseFits, Snapshot, TaskState
    <2>12. /\ row'.snapshot.owners[k] = OwnerFor(t, row.snapshot.tasks[t].lease)
           /\ row.snapshot.owners[k] = OwnerFor(t, row.snapshot.tasks[t].lease)
      BY <2>1, <2>7, <2>8, <2>11 DEF Restorable, OwnersFit
    <2>13. row'.snapshot.owners[k] = IF k \in WriteKeysOf[u]
                                     THEN OwnerFor(u, NewLease(row.snapshot, r))
                                     ELSE Unexpired(row.snapshot.owners[k], r.now)
      BY <2>4, <2>5, <2>6, <2>10 DEF ClaimEffect
    <2>14. row'.snapshot.owners[k] = Unexpired(row.snapshot.owners[k], r.now)
      BY <2>12, <2>13 DEF OwnerFor
    <2>15. row.snapshot.tasks[t].lease.expires > r.now
      BY <2>11, <2>12, <2>14, OwnerForType, NoneAssumption DEF Unexpired, OwnerFor
    <2>. QED
      BY <2>7, <2>15 DEF ClaimedTask, NewLease
  <1>2. WinInv => NoAnswerYet
    BY DEF WinInv
  <1>. QED
    BY <1>1, <1>2, WinHolds, InvariantHolds, PTL DEF Spec, NoClaimPassesAnExpiredWriter

-----------------------------------------------------------------------------
\* The authority implements the kernel.  The instance repeats the operators of
\* ExecutionKernel under the name Kernel: they are the same operators.

Run == IF row = None THEN NewRun ELSE row.snapshot

LEMMA SameRequests ==
    /\ Kernel!ClaimRequest = ClaimRequest
    /\ Kernel!HeartbeatRequest = HeartbeatRequest
    /\ Kernel!TerminalRequest = TerminalRequest
    /\ Kernel!FailureRequest = FailureRequest
  BY DEF Kernel!ClaimRequest, ClaimRequest, Kernel!HeartbeatRequest,
         HeartbeatRequest, Kernel!TerminalRequest, TerminalRequest,
         Kernel!FailureRequest, FailureRequest

LEMMA SameNewRun == Kernel!NewRun = NewRun
  BY DEF Kernel!NewRun, NewRun

LEMMA SameClaim ==
    ASSUME NEW s, NEW r
    PROVE  /\ Kernel!ClaimAllowed(s, r) = ClaimAllowed(s, r)
           /\ Kernel!ClaimEffect(s, r) = ClaimEffect(s, r)
  <1>1. Kernel!ClaimAllowed(s, r) = ClaimAllowed(s, r)
    BY Zenon DEF Kernel!ClaimAllowed, ClaimAllowed, Kernel!RoleMatches, RoleMatches,
           Kernel!Unclaimed, Unclaimed, Kernel!LeaseRanOut, LeaseRanOut,
           Kernel!DependenciesCompleted, DependenciesCompleted,
           Kernel!AttemptLeft, AttemptLeft, Kernel!WriteKeysFree, WriteKeysFree
  <1>2. Kernel!ClaimEffect(s, r) = ClaimEffect(s, r)
    BY Zenon DEF Kernel!ClaimEffect, ClaimEffect, Kernel!ClaimedTask, ClaimedTask,
           Kernel!NewLease, NewLease, Kernel!OwnerFor, OwnerFor,
           Kernel!Unexpired, Unexpired
  <1>. QED
    BY <1>1, <1>2

LEMMA SameHeartbeat ==
    ASSUME NEW s, NEW r
    PROVE  /\ Kernel!HeartbeatAllowed(s, r) = HeartbeatAllowed(s, r)
           /\ Kernel!OwnersPresent(s, r.task) = OwnersPresent(s, r.task)
           /\ Kernel!HeartbeatEffect(s, r) = HeartbeatEffect(s, r)
  <1>1. Kernel!HeartbeatAllowed(s, r) = HeartbeatAllowed(s, r)
    BY Zenon DEF Kernel!HeartbeatAllowed, HeartbeatAllowed, Kernel!RoleMatches,
           RoleMatches, Kernel!HoldsLease, HoldsLease
  <1>2. Kernel!OwnersPresent(s, r.task) = OwnersPresent(s, r.task)
    BY Zenon DEF Kernel!OwnersPresent, OwnersPresent
  <1>3. Kernel!HeartbeatEffect(s, r) = HeartbeatEffect(s, r)
    BY Zenon DEF Kernel!HeartbeatEffect, HeartbeatEffect, Kernel!ExtendedTask,
           ExtendedTask, Kernel!ExtendedLease, ExtendedLease
  <1>. QED
    BY <1>1, <1>2, <1>3

LEMMA SameEndings ==
    ASSUME NEW s, NEW r
    PROVE  /\ Kernel!TerminalAllowed(s, r) = TerminalAllowed(s, r)
           /\ Kernel!TerminalEffect(s, r) = TerminalEffect(s, r)
           /\ Kernel!FailureAllowed(s, r) = FailureAllowed(s, r)
           /\ Kernel!FailureEffect(s, r) = FailureEffect(s, r)
  <1>1. Kernel!ActiveOwner(s, r) = ActiveOwner(s, r)
    BY Zenon DEF Kernel!ActiveOwner, ActiveOwner, Kernel!RoleMatches, RoleMatches,
           Kernel!HoldsLease, HoldsLease
  <1>2. Kernel!ReleasedOwners(s, r.task) = ReleasedOwners(s, r.task)
    BY Zenon DEF Kernel!ReleasedOwners, ReleasedOwners
  <1>3. Kernel!TerminalAllowed(s, r) = TerminalAllowed(s, r)
    BY <1>1, Zenon DEF Kernel!TerminalAllowed, TerminalAllowed,
           Kernel!TerminalStatuses, TerminalStatuses
  <1>4. Kernel!TerminalEffect(s, r) = TerminalEffect(s, r)
    BY <1>2, Zenon DEF Kernel!TerminalEffect, TerminalEffect, Kernel!FinishedTask,
           FinishedTask, Kernel!OutcomeOf, OutcomeOf, Kernel!RecordOf, RecordOf
  <1>5. Kernel!FailureAllowed(s, r) = FailureAllowed(s, r)
    BY <1>1, Zenon DEF Kernel!FailureAllowed, FailureAllowed
  <1>6. Kernel!FailureEffect(s, r) = FailureEffect(s, r)
    BY <1>2, Zenon DEF Kernel!FailureEffect, FailureEffect, Kernel!FailedTask,
           FailedTask, Kernel!StatusAfterFailure, StatusAfterFailure
  <1>. QED
    BY <1>3, <1>4, <1>5, <1>6

\* One kernel operation on the stored snapshot is one step of the kernel.
LEMMA OperationIsKernelStep ==
    ASSUME row # None, row' # None, clock' = clock, clock \in Time,
           row.snapshot \in Snapshot,
           NEW r \in Request, r.now <= clock, Changes(row.snapshot, r),
           row'.snapshot = Effect(row.snapshot, r)
    PROVE  Kernel!Next
  <1>. DEFINE s == row.snapshot
  <1>1. Kernel!InFlight(r)
    <2>1. r.now \in Nat /\ clock \in Nat /\ MaxLag \in Nat /\ clock <= MaxLag
      BY RequestTask, TimeIsNat, DurableAssumption DEF DurableAssumption
    <2>. QED
      BY <2>1 DEF Kernel!InFlight
  <1>2. /\ (IF row = None THEN Kernel!NewRun ELSE row.snapshot) = s
        /\ (IF row' = None THEN Kernel!NewRun ELSE row'.snapshot) = Effect(s, r)
    OBVIOUS
  <1>3. CASE r.op = "claim" /\ ClaimAllowed(s, r)
    <2>1. r \in Kernel!ClaimRequest
      BY <1>3, SameRequests DEF Request, ClaimRequest, HeartbeatRequest,
                  FailureRequest, TerminalRequest
    <2>2. Effect(s, r) = ClaimEffect(s, r)
      BY <1>3 DEF Effect
    <2>3. Kernel!Claim(r)
      BY <1>1, <1>2, <1>3, <2>2, SameClaim, SameNewRun DEF Kernel!Claim
    <2>. QED
      BY <2>1, <2>3 DEF Kernel!Next
  <1>4. CASE r.op = "heartbeat" /\ HeartbeatAllowed(s, r)
                /\ OwnersPresent(s, r.task)
    <2>1. r \in Kernel!HeartbeatRequest
      BY <1>4, SameRequests DEF Request, ClaimRequest, HeartbeatRequest,
                  FailureRequest, TerminalRequest
    <2>2. Effect(s, r) = HeartbeatEffect(s, r)
      BY <1>4 DEF Effect
    <2>3. Kernel!Heartbeat(r)
      BY <1>1, <1>2, <1>4, <2>2, SameHeartbeat, SameNewRun DEF Kernel!Heartbeat
    <2>. QED
      BY <2>1, <2>3 DEF Kernel!Next
  <1>5. CASE r.op \in {"complete", "cancel"} /\ TerminalAllowed(s, r)
    <2>1. r \in Kernel!TerminalRequest
      BY <1>5, SameRequests DEF Request, ClaimRequest, HeartbeatRequest,
                  FailureRequest, TerminalRequest
    <2>2. Effect(s, r) = TerminalEffect(s, r)
      BY <1>5 DEF Effect
    <2>3. Kernel!Finish(r)
      BY <1>1, <1>2, <1>5, <2>2, SameEndings, SameNewRun DEF Kernel!Finish
    <2>. QED
      BY <2>1, <2>3 DEF Kernel!Next
  <1>6. CASE r.op = "fail" /\ FailureAllowed(s, r)
    <2>1. r \in Kernel!FailureRequest
      BY <1>6, SameRequests DEF Request, ClaimRequest, HeartbeatRequest,
                  FailureRequest, TerminalRequest
    <2>2. Effect(s, r) = FailureEffect(s, r)
      BY <1>6 DEF Effect
    <2>3. Kernel!Fail(r)
      BY <1>1, <1>2, <1>6, <2>2, SameEndings, SameNewRun DEF Kernel!Fail
    <2>. QED
      BY <2>1, <2>3 DEF Kernel!Next
  <1>. QED
    BY <1>3, <1>4, <1>5, <1>6 DEF Changes

\* Any other step keeps the run and the clock, or moves the clock alone.
LEMMA StutterIsKernelStep ==
    ASSUME Run' = Run, clock' = clock PROVE UNCHANGED Kernel!vars
  BY SameNewRun DEF Kernel!vars, Run

LEMMA ProceedIsKernelStep ==
    ASSUME IInv, NEW c \in Callers, Proceed(c)
    PROVE  [Kernel!Next]_(Kernel!vars)
  <1>1. CASE Commit(c)
    <2>1. /\ calls[c].pc = "swap" /\ RevisionMatches(c) /\ row' = Swapped(c)
          /\ clock' = clock /\ Req(c) \in Request
      BY <1>1, LoadedType DEF Commit, Req
    <2>2. /\ calls[c].loaded = row /\ row \in Row /\ Swapped(c) \in Row
          /\ Swapped(c).snapshot = Effect(row.snapshot, Req(c))
      BY <2>1, SwappedType
    <2>3. ReadyToSwap(calls[c].loaded.snapshot, Req(c)) /\ Req(c).now <= clock
      BY <2>1 DEF IInv, CallFits, Req
    <2>4. Changes(row.snapshot, Req(c))
      BY <2>2, <2>3 DEF ReadyToSwap
    <2>5. row # None /\ row' # None /\ row.snapshot \in Snapshot
      BY <2>1, <2>2, RowAssumption DEF Row
    <2>6. row'.snapshot = Effect(row.snapshot, Req(c))
      BY <2>1, <2>2, Zenon
    <2>7. clock \in Time
      BY DEF IInv, TypeOK
    <2>. QED
      BY <2>1, <2>3, <2>4, <2>5, <2>6, <2>7, OperationIsKernelStep
  <1>2. CASE Install(c)
    <2>1. /\ calls[c].pc = "install" /\ RevisionMatches(c)
          /\ row' = Installed(c) /\ clock' = clock
      BY <1>2 DEF Install
    <2>2. calls[c].loaded = row /\ row \in Row
      BY <2>1, LoadedType DEF LoadedFits, RevisionMatches
    <2>3. row' = [revision |-> row.revision + 1, snapshot |-> row.snapshot,
                  projection |-> row.projection + 1]
      BY <2>1, <2>2 DEF Installed
    <2>4. row' \in Row
      BY <2>2, <2>3 DEF Row
    <2>5. Run' = Run
      BY <2>2, <2>3, <2>4, RowAssumption DEF Run
    <2>. QED
      BY <2>1, <2>5, StutterIsKernelStep
  <1>3. ASSUME row' = row, clock' = clock PROVE UNCHANGED Kernel!vars
    BY <1>3, StutterIsKernelStep DEF Run
  <1>. QED
    BY <1>1, <1>2, <1>3 DEF Proceed, ContentionExhausted, Retry,
         RetryUnchanged, RetryRefused, InstallConflict

LEMMA StepIsKernelStep ==
    ASSUME IInv, [Next]_vars PROVE [Kernel!Next]_(Kernel!vars)
  <1>1. ASSUME row' = row, clock' = clock PROVE UNCHANGED Kernel!vars
    BY <1>1, StutterIsKernelStep DEF Run
  <1>2. ASSUME NEW c \in Callers, InitializeRun(c)
        PROVE  UNCHANGED Kernel!vars
    <2>1. [revision |-> 0, snapshot |-> NewRun, projection |-> 0] \in Row
      BY NewRunType DEF Row
    <2>2. Run' = Run /\ clock' = clock
      BY <1>2, <2>1, RowAssumption DEF InitializeRun, Run
    <2>. QED
      BY <2>2, StutterIsKernelStep
  <1>3. CASE Tick
    <2>1. Kernel!Tick
      BY <1>3 DEF Tick, Kernel!Tick
    <2>. QED
      BY <2>1 DEF Kernel!Next
  <1>4. ASSUME NEW c \in Callers, Proceed(c) PROVE [Kernel!Next]_(Kernel!vars)
    BY <1>4, ProceedIsKernelStep
  <1>. QED
    BY <1>1, <1>2, <1>3, <1>4 DEF Next, Start, StartUnchanged, ReadForInstall,
         Crash, vars

\* The durable authority implements the in-memory kernel: whatever the callers
\* do to the row together, one kernel operation at a time explains it.
THEOREM ImplementsKernel == Spec => KernelSpec
  <1>1. Init => Kernel!Init
    BY SameNewRun DEF Init, Kernel!Init
  <1>2. IInv /\ [Next]_vars => [Kernel!Next]_(Kernel!vars)
    BY StepIsKernelStep
  <1>. QED
    BY <1>1, <1>2, InvariantHolds, PTL DEF Spec, KernelSpec, Kernel!Spec
=============================================================================
