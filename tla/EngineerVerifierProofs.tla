-------------------------- MODULE EngineerVerifierProofs --------------------------
(***************************************************************************)
(* Theorems about the Engineer-to-Verifier controller, for any number of   *)
(* brokers and visitors, any plan and budget, and every disturbance: the   *)
(* executor is called once for an attempt, the write reaches a workspace   *)
(* once and the row explains it, no phase is missing from the log, a       *)
(* broker that lost the fence stays away and an admission is earned.       *)
(***************************************************************************)
EXTENDS EngineerVerifier, SequenceTheorems, TLAPS


-----------------------------------------------------------------------------
(* The inductive invariant: what is true of the row, of every call's copy  *)
(* and place, and of the leases, the log and the disk they are about.      *)

\* A row that was stored once: valid, with a write recorded only where one
\* was planned, and the frozen event the next one after those in the log.
WritesPlanned(r) ==
    \A i \in DOMAIN r.ledger :
        r.ledger[i] \in {"Written", "Reconciled"} => Plan[i] = "write"

\* How many phases the row knows to be in the log.
LogKnown(r) == IF r.projected = None THEN 0 ELSE r.projected.revision

\* The frozen event is the next one.
EventNext(r) ==
    IF r.pending = None THEN r.revision = LogKnown(r)
    ELSE r.revision = LogKnown(r) + 1 /\ r.pending.revision = r.revision

\* What every row that was stored is.
RowSound(r) == r \in Rows /\ Valid(r) /\ WritesPlanned(r) /\ EventNext(r)

\* `r' was stored before `s' or is `s'.
Before(r, s) ==
    /\ r.attempt <= s.attempt /\ r.revision <= s.revision /\ r.ws <= s.ws
    /\ r.ws = s.ws => r.epoch <= s.epoch

\* A frozen event is in the row until it is in the log.
Frozen(event) == (row # None /\ event = row.pending) \/ Logged(log, event)

\* Where a call reconciles the log with the row, and what it does then.
Reconciling == {"look", "append", "check", "clear"}
Thens == {"resume", "invoke", "closeRoot", "startVerifier", "done", "request", "beat"}

\* The places at which a drive works in the workspace of its copy.
Works == {"invoke", "calling", "record", "result", "effects", "execute", "settle",
          "startVerifier", "reseal", "verify", "observe", "admit", "closeRoot",
          "closeRow"}
\* The call works in the workspace of its copy, now or after reconciling.
Working(k) ==
    \/ k.at \in Works
    \/ k.at = "finish" /\ (k.end.tidy = "last" \/ k.end.to = "Verifying")
    \/ k.at \in Reconciling /\ k.then \in {"invoke", "closeRoot", "startVerifier"}

\* The next planned effect is the write.
WriteDue(r) == Len(r.ledger) < Len(Plan) /\ Plan[Len(r.ledger) + 1] = "write"

\* The broker has a lease of the workspace.
Leased(b, ws) == lease[b] # NoLease /\ lease[b].ws = ws

\* No write on the disk of a workspace that the lease still stands for.
Unwritten(b) ==
    lease[b] # NoLease /\ Current(row, lease[b]) => root[row.ws] # "after"

\* The copy of a call.
CopySound(k) ==
    /\ k.at \notin {"idle", "open", "install"} => k.copy # None
    /\ k.copy # None => /\ row # None /\ RowSound(k.copy) /\ Before(k.copy, row)
                        /\ k.copy.pending # None => Frozen(k.copy.pending)

\* The place of a call.
PlaceSound(k) ==
    /\ k.at \in Reconciling => k.then \in Thens
    /\ k.at \in {"append", "check", "clear"} => k.copy.pending # None
    /\ k.at = "clear" => Logged(log, k.copy.pending)
    /\ k.end # None => k.end.to # "Reviewing"
    /\ k.at = "finish" => k.end # None

\* The executor is called by who stored Started, and once.
InvokeSound(k) ==
    /\ k.at = "invoke" \/ (k.at \in Reconciling /\ k.then = "invoke") =>
         k.copy.executor = "NotStarted"
    /\ k.at = "calling" =>
         /\ invoked[k.copy.attempt] = 0
         /\ k.copy.attempt = row.attempt => row.executor # "NotStarted"
    /\ k.at = "record" => k.got \in Outcomes

\* The lease a drive works with.
LeaseSound(b, k) ==
    /\ k.at = "install" => lease[b] # NoLease /\ lease[b].opened
    /\ Working(k) => Leased(b, k.copy.ws)
    /\ k.at = "recover" =>
         \A d \in Brokers : Leased(d, k.copy.ws) => lease[d].epoch # k.copy.epoch
    /\ k.at = "closeRow" => root[k.copy.ws] = "absent"
    /\ k.at = "execute" => WriteDue(k.copy) /\ Unwritten(b)
    /\ k.at = "settle" =>
         /\ k.got \in {"Read", "Written", "Denied"} /\ Len(k.copy.ledger) < Len(Plan)
         /\ IF k.got = "Written"
            THEN WriteDue(k.copy) /\ writes[lease[b].ws] = 1
            ELSE Unwritten(b)

\* A call is sound in all its parts.
CallSound(c, k) ==
    /\ CopySound(k) /\ PlaceSound(k) /\ InvokeSound(k)
    /\ c \in Brokers => LeaseSound(c, k)

\* Every call is sound, and no two are at the executor for one attempt or at
\* the recovery of one epoch.
CallInv ==
    /\ call \in [Callers -> Calls]
    /\ \A c \in Callers : CallSound(c, call[c])
    /\ \A c, d \in Callers :
         At(c, "calling") /\ At(d, "calling") /\ c # d =>
           call[c].copy.attempt # call[d].copy.attempt
    /\ \A c, d \in Callers :
         At(c, "recover") /\ At(d, "recover") /\ c # d /\ call[c].copy.ws = call[d].copy.ws =>
           call[c].copy.epoch # call[d].copy.epoch

\* A copy that is current is the row, and its lease was opened at it.
CurrentInv ==
    /\ current \subseteq Callers
    /\ \A c \in current :
         /\ ~At(c, "idle") => call[c].copy = row
         /\ At(c, "install") => c \in unmoved

\* The row was stored, and names a workspace that was opened.
RowInv ==
    /\ row # None => RowSound(row) /\ row.ws \in 1..opened
    /\ opened \in 0..MaxOpens

\* An attempt was called for at most once, and not before it was started.
InvokedInv ==
    /\ invoked \in [1..MaxAttempts -> 0..1]
    /\ \A n \in 1..MaxAttempts : invoked[n] = 1 =>
         /\ row # None /\ n <= row.attempt
         /\ n = row.attempt => row.executor # "NotStarted"

\* The log has what the row acknowledged, and at most its frozen event more.
LogInv ==
    /\ log \in Seq(Events)
    /\ row = None => log = << >>
    /\ \A i \in DOMAIN log :
         /\ log[i].revision <= row.revision
         /\ log[i].revision > Acknowledgements => log[i] = row.pending
    /\ \A i, j \in DOMAIN log : log[i].revision = log[j].revision => log[i] = log[j]
    /\ \A n \in 1..Acknowledgements : \E i \in DOMAIN log : log[i].revision = n

\* The newest workspace a row named.
Known == IF row = None THEN 0 ELSE row.ws

\* A lease of the row's workspace has no later epoch than the row, one that
\* is newer than the row was just opened, and no two are of one epoch.
LeaseInv ==
    /\ lease \in [Brokers -> Leases \union {NoLease}]
    /\ unmoved \subseteq Brokers
    /\ \A b \in Brokers : lease[b] # NoLease =>
         /\ lease[b].ws \in 1..opened
         /\ lease[b].ws = Known => lease[b].epoch <= row.epoch
         /\ lease[b].ws > Known => lease[b].epoch = 1
    /\ \A b \in unmoved : lease[b] # NoLease /\ lease[b].opened /\ lease[b].ws > Known
    /\ \A b, d \in Brokers :
         b # d /\ lease[b] # NoLease /\ lease[d] # NoLease /\ lease[b].ws = lease[d].ws =>
           lease[b].epoch # lease[d].epoch

\* What a row says of its workspace.
Explained(r) ==
    /\ Snapshot(r) = "after" => writes[r.ws] = 1
    /\ root[r.ws] = "after" => Snapshot(r) = "after" \/ r.prepared
    /\ r.closed => root[r.ws] = "absent"

\* A workspace was written at most once, and the row explains its own.
DiskInv ==
    /\ root \in [Workspaces -> Roots] /\ writes \in [Workspaces -> 0..1]
    /\ \A w \in Workspaces :
         /\ root[w] = "after" => writes[w] = 1
         /\ writes[w] = 1 => root[w] \in {"after", "absent"} /\ w <= Known
    /\ row # None => Explained(row)

\* The rest of the world has its types.
WorldInv ==
    bank \in Bank /\ expired \in BOOLEAN /\ holder \in Brokers \union {Nobody}

\* The inductive invariant of the controller.
CtlInv ==
    /\ RowInv /\ CallInv /\ CurrentInv /\ InvokedInv
    /\ LogInv /\ LeaseInv /\ DiskInv /\ WorldInv

-----------------------------------------------------------------------------
(* Rows and what may follow them.                                          *)

\* What stands for nothing is neither a row nor an event nor an ending.
LEMMA NothingIsNone ==
    /\ None \notin Rows /\ None \notin Events /\ None \notin Endings
    /\ NoLease \notin Leases
  BY NothingIsNoValue

\* What a row counts.
LEMMA RowCounts ==
    ASSUME NEW r \in Rows
    PROVE  /\ r.attempt \in 1..MaxAttempts /\ r.attempt \in Nat
           /\ r.revision \in Nat /\ r.ws \in Nat /\ r.epoch \in Nat
           /\ r.ledger \in Seq(Resolutions)
           /\ r.pending \in Events \union {None} /\ r.projected \in Events \union {None}
  BY AttemptsAreCounted DEF Rows

\* The acknowledgement of a frozen event keeps the row but for the event.
LEMMA AcknowledgedKeeps ==
    ASSUME NEW r \in Rows, r.pending # None, NEW next, next = Acknowledged(r)
    PROVE  /\ next \in Rows
           /\ next.phase = r.phase /\ next.revision = r.revision /\ next.attempt = r.attempt
           /\ next.executor = r.executor /\ next.ledger = r.ledger
           /\ next.prepared = r.prepared /\ next.cancelled = r.cancelled
           /\ next.closed = r.closed /\ next.ws = r.ws /\ next.epoch = r.epoch
           /\ next.pending = None /\ next.projected = r.pending
  BY DEF Rows, Acknowledged

\* What a row may become: the revision follows the phase and the attempt
\* follows the retry; a closed workspace stays closed, a call stays made.
LEMMA AcceptedProgress ==
    ASSUME NEW r \in Rows, RowSound(r), NEW next \in Rows, Accepts(r, next)
    PROVE  /\ Valid(next)
           /\ r.revision <= next.revision /\ r.attempt <= next.attempt
           /\ next.attempt = r.attempt =>
                /\ next.ws = r.ws /\ next.epoch \in {r.epoch, r.epoch + 1}
                /\ r.closed => next.closed
                /\ next.executor = "NotStarted" => r.executor = "NotStarted"
           /\ r.phase \in Terminal => next.phase = r.phase
           /\ r.phase # "Reviewing" /\ next.phase = "Reviewing" => r.phase = "Verifying"
  <1>1. Valid(next) /\ Successor(r, next)
    BY NothingIsNone DEF Accepts
  <1>2. CASE r.pending # None
    <2>1. next = Acknowledged(r)
      BY <1>1, <1>2 DEF Successor
    <2> QED
      BY <1>1, <1>2, <2>1, AcknowledgedKeeps DEF Rows
  <1>3. CASE r.pending = None
    <2>1. PhaseSuccessor(r, next)
          /\ IF next.attempt # r.attempt THEN RetrySuccessor(r, next)
             ELSE ExecutorSuccessor(r, next) /\ WorkspaceSuccessor(r, next)
      BY <1>1, <1>3 DEF Successor
    <2>2. r.revision \in Nat /\ next.revision \in Nat /\ r.attempt \in Nat /\ next.attempt \in Nat
      BY AttemptsAreCounted DEF Rows
    <2>3. r.revision <= next.revision
      BY <2>1, <2>2 DEF PhaseSuccessor
    <2>4. r.attempt <= next.attempt
      BY <2>1, <2>2 DEF RetrySuccessor
    <2>5. next.attempt = r.attempt =>
                /\ next.ws = r.ws /\ next.epoch \in {r.epoch, r.epoch + 1}
                /\ r.closed => next.closed
                /\ next.executor = "NotStarted" => r.executor = "NotStarted"
      BY <2>1 DEF ExecutorSuccessor, WorkspaceSuccessor, Outcomes
    <2>6. r.phase \in Terminal => next.phase = r.phase
      BY <2>1 DEF PhaseSuccessor
    <2>7. ASSUME r.phase # "Reviewing", next.phase = "Reviewing" PROVE r.phase = "Verifying"
      <3>1. transition_allowed(r.phase, next.pending.trigger, "Reviewing")
        BY <2>1, <2>7 DEF PhaseSuccessor, PendingFits
      <3> QED
        BY <3>1 DEF transition_allowed
    <2> QED
      BY <1>1, <2>3, <2>4, <2>5, <2>6, <2>7
  <1> QED
    BY <1>2, <1>3

\* The frozen event of a row that was accepted is the next one of the log.
LEMMA AcceptedEvents ==
    ASSUME NEW r \in Rows, RowSound(r), NEW next \in Rows, Accepts(r, next)
    PROVE  /\ EventNext(next)
           /\ \/ r.pending # None /\ next.pending = None /\ next.projected = r.pending
              \/ /\ r.pending = None /\ next.projected = r.projected
                 /\ next.pending # None => next.pending.revision = r.revision + 1
  <1>1. Successor(r, next) /\ EventNext(r)
    BY NothingIsNone DEF Accepts, RowSound
  <1>2. /\ r.pending \in Events \union {None} /\ r.projected \in Events \union {None}
        /\ next.pending \in Events \union {None} /\ next.projected \in Events \union {None}
        /\ r.revision \in Nat /\ next.revision \in Nat
    BY DEF Rows
  <1>3. CASE r.pending # None
    <2>1. next.pending = None /\ next.projected = r.pending /\ next.revision = r.revision
      BY <1>1, <1>3, AcknowledgedKeeps DEF Successor
    <2>2. r.revision = r.pending.revision
      BY <1>1, <1>3 DEF EventNext
    <2> QED
      BY <1>3, <2>1, <2>2 DEF EventNext, LogKnown
  <1>4. CASE r.pending = None
    <2>1. PhaseSuccessor(r, next)
      BY <1>1, <1>4 DEF Successor
    <2>2. next.projected = r.projected /\ r.revision = LogKnown(r) /\ LogKnown(next) = LogKnown(r)
      BY <1>1, <1>4, <2>1 DEF PhaseSuccessor, EventNext, LogKnown
    <2>3. CASE r.phase # next.phase
      BY <1>4, <2>1, <2>2, <2>3 DEF PhaseSuccessor, PendingFits, EventNext
    <2>4. CASE r.phase = next.phase
      BY <1>4, <2>1, <2>2, <2>4 DEF PhaseSuccessor, EventNext
    <2> QED
      BY <2>3, <2>4
  <1> QED
    BY <1>3, <1>4

\* A write is the last effect: while one is due none was recorded.
LEMMA DueIsBefore ==
    ASSUME NEW r \in Rows, RowSound(r), Len(r.ledger) < Len(Plan)
    PROVE  Snapshot(r) = "before"
  <1>1. r.ledger \in Seq(Resolutions) /\ Plan \in Seq({"read", "write"})
    BY PlanIsOrdered DEF PlanFits, Rows
  <1>2. ASSUME NEW i \in DOMAIN r.ledger, r.ledger[i] \in {"Written", "Reconciled"}
        PROVE  FALSE
    <2>1. Plan[i] = "write" /\ i \in 1..Len(r.ledger)
      BY <1>1, <1>2 DEF RowSound, WritesPlanned
    <2>2. i \in DOMAIN Plan /\ i # Len(Plan)
      BY <1>1, <2>1
    <2> QED
      BY <2>1, <2>2, PlanIsOrdered DEF PlanFits
  <1> QED
    BY <1>2 DEF Snapshot

-----------------------------------------------------------------------------
(* A step that leaves the row alone.                                       *)

\* The lease of a broker stands for the same fence.
SameHold(b) ==
    IF lease[b] = NoLease THEN lease'[b] = NoLease
    ELSE /\ lease'[b] # NoLease
         /\ lease'[b].ws = lease[b].ws /\ lease'[b].epoch = lease[b].epoch
         /\ lease'[b].opened = lease[b].opened

\* What a root may become when nobody writes: it goes, or it is torn.
Shrinks(w) ==
    \/ root'[w] = root[w] \/ root'[w] = "absent"
    \/ root[w] = "before" /\ root'[w] = "other"

\* Who has nothing to do is sound.
LEMMA IdleIsSound ==
    ASSUME NEW c
    PROVE  /\ Idle \in Calls /\ Idle.at = "idle" /\ CallSound(c, Idle)
  BY DEF Idle, Calls, Labels, CallSound, CopySound, PlaceSound, InvokeSound, LeaseSound,
         Reconciling, Working, Works

\* A call stays sound while the row, the log and the counts stand and roots
\* are only removed or torn.
LEMMA SoundStays ==
    ASSUME CtlInv, NEW c \in Callers, NEW k \in Calls, CallSound(c, k), call'[c] = k,
           row' = row, log' = log, invoked' = invoked, writes' = writes,
           \A w \in Workspaces : Shrinks(w),
           \A b \in Brokers : SameHold(b) \/ lease'[b] = NoLease,
           c \in Brokers => SameHold(c)
    PROVE  CallSound(c, call[c])'
  <1>1. CopySound(call[c])' /\ PlaceSound(call[c])' /\ InvokeSound(call[c])'
    BY DEF CallSound, CopySound, PlaceSound, InvokeSound, Frozen, Logged
  <1>2. ASSUME c \in Brokers PROVE LeaseSound(c, call[c])'
    <2>1. LeaseSound(c, k) /\ SameHold(c)
      BY <1>2 DEF CallSound
    <2>2. k.at = "install" => lease'[c] # NoLease /\ lease'[c].opened
      BY <2>1 DEF LeaseSound, SameHold
    <2>3. Working(k) => lease'[c] # NoLease /\ lease'[c].ws = k.copy.ws
      BY <2>1 DEF LeaseSound, SameHold, Leased
    <2>4. k.at = "recover" =>
            \A d \in Brokers : lease'[d] # NoLease /\ lease'[d].ws = k.copy.ws =>
              lease'[d].epoch # k.copy.epoch
      BY <2>1 DEF LeaseSound, SameHold, Leased
    <2>5. k.at = "closeRow" => root'[k.copy.ws] = "absent"
      <3>1. k.at = "closeRow" => lease[c] # NoLease /\ lease[c].ws = k.copy.ws
        BY <2>1 DEF LeaseSound, Working, Works, Leased
      <3>2. lease[c] # NoLease => lease[c].ws \in Workspaces
        BY <1>2, BoundsAreCounts DEF CtlInv, LeaseInv, RowInv, Workspaces
      <3> QED
        BY <2>1, <3>1, <3>2 DEF LeaseSound, Shrinks
    <2>6. Unwritten(c) =>
            (lease'[c] # NoLease /\ Current(row', lease'[c]) => root'[row'.ws] # "after")
      <3>1. row # None => row.ws \in Workspaces
        BY BoundsAreCounts DEF CtlInv, RowInv, Workspaces
      <3> QED
        BY <2>1, <3>1 DEF Unwritten, Current, SameHold, Shrinks
    <2>7. k.at = "settle" => lease'[c].ws = lease[c].ws
      BY <2>1 DEF SameHold, LeaseSound, Working, Works, Leased
    <2> QED
      BY <2>1, <2>2, <2>3, <2>4, <2>5, <2>6, <2>7
         DEF LeaseSound, Leased, Working, Unwritten, WriteDue
  <1> QED
    BY <1>1, <1>2 DEF CallSound

\* The disk and the leases stay explained when roots are removed.
LEMMA DiskStays ==
    ASSUME CtlInv, row' = row, opened' = opened, writes' = writes,
           root' \in [Workspaces -> Roots],
           \A w \in Workspaces : Shrinks(w)
    PROVE  DiskInv'
  <1>1. DiskInv /\ (row # None => row.ws \in Workspaces)
    BY BoundsAreCounts DEF CtlInv, RowInv, Workspaces
  <1>2. Known' = Known
    BY DEF Known
  <1>3. row' # None => Explained(row)'
    BY <1>1 DEF DiskInv, Explained, Shrinks
  <1> QED
    BY <1>1, <1>2, <1>3 DEF DiskInv, Shrinks

\* The leases stay what they are to the row when some are lost.
LEMMA LeasesStay ==
    ASSUME CtlInv, row' = row, opened' = opened, unmoved' \subseteq unmoved,
           lease' \in [Brokers -> Leases \union {NoLease}],
           \A b \in Brokers : SameHold(b) \/ (lease'[b] = NoLease /\ b \notin unmoved')
    PROVE  LeaseInv'
  <1>1. LeaseInv /\ Known' = Known
    BY DEF CtlInv, Known
  <1> QED
    BY <1>1 DEF LeaseInv, SameHold

\* A step of nobody or of some callers, each to a place that is sound.
Moves(c) ==
    \/ call'[c] = call[c] /\ (c \in current' => c \in current)
    \/ /\ CallSound(c, call'[c]) \/ CallSound(c, call[c])'
       /\ call'[c].at \notin {"calling", "recover", "install"}
       /\ c \in current' /\ call'[c].at # "idle" => call'[c].copy = row

\* A step that writes neither the row nor the log, nor a workspace.
LEMMA Shrinking ==
    ASSUME CtlInv, call' \in [Callers -> Calls], \A c \in Callers : Moves(c),
           row' = row, log' = log, invoked' = invoked, opened' = opened, writes' = writes,
           current' \subseteq Callers, unmoved' \subseteq unmoved,
           \A c \in current' : c \in unmoved => c \in unmoved',
           root' \in [Workspaces -> Roots],
           \A w \in Workspaces : Shrinks(w),
           lease' \in [Brokers -> Leases \union {NoLease}],
           \A b \in Brokers :
              \/ SameHold(b)
              \/ lease'[b] = NoLease /\ b \notin unmoved' /\ call'[b] = Idle,
           WorldInv'
    PROVE  CtlInv' /\ Earned
  <1>1. \A c \in Callers : CallSound(c, call[c])'
    <2> SUFFICES ASSUME NEW c \in Callers PROVE CallSound(c, call[c])'
      OBVIOUS
    <2> PICK k : k = call'[c]
      OBVIOUS
    <2>1. k \in Calls /\ (CallSound(c, k) \/ CallSound(c, call[c])')
      BY DEF Moves, CtlInv, CallInv
    <2>2. CASE c \in Brokers /\ ~SameHold(c)
      <3>1. k = Idle
        BY <2>2
      <3> QED
        BY <3>1, IdleIsSound
           DEF Idle, CallSound, CopySound, PlaceSound, InvokeSound, LeaseSound,
               Reconciling, Working, Works
    <2>3. CASE c \in Brokers => SameHold(c)
      BY <2>1, <2>3, SoundStays
    <2> QED
      BY <2>2, <2>3
  <1>2. \A c, d \in Callers :
          /\ At(c, "calling")' /\ At(d, "calling")' /\ c # d =>
               call'[c].copy.attempt # call'[d].copy.attempt
          /\ At(c, "recover")' /\ At(d, "recover")' /\ c # d
             /\ call'[c].copy.ws = call'[d].copy.ws =>
               call'[c].copy.epoch # call'[d].copy.epoch
    <2>1. \A c \in Callers : call'[c].at \in {"calling", "recover"} => call'[c] = call[c]
      BY DEF Moves
    <2> QED
      BY <2>1 DEF CtlInv, CallInv, At
  <1>3. CallInv'
    BY <1>1, <1>2 DEF CallInv
  <1>4. CurrentInv'
    BY DEF CtlInv, CurrentInv, Moves, At
  <1>5. RowInv' /\ InvokedInv' /\ LogInv'
    BY DEF CtlInv, RowInv, InvokedInv, LogInv, Acknowledgements
  <1>6. DiskInv' /\ LeaseInv'
    BY DiskStays, LeasesStay
  <1>7. Earned
    BY DEF Earned
  <1> QED
    BY <1>3, <1>4, <1>5, <1>6, <1>7 DEF CtlInv

-----------------------------------------------------------------------------
(* A step that writes the row with a copy that is current.                 *)

\* What a step after claiming must see to: the row it writes and the place
\* its call goes on at.
RowFollows(next) ==
    /\ next \in Rows
    /\ next.ws = row.ws /\ next.attempt = row.attempt
    /\ WritesPlanned(next) /\ Explained(next)
    /\ row.pending # None /\ next.pending = None => Logged(log, row.pending)

\* A run is admitted on what passed, and what ended keeps its ledger.
AdmissionFollows(next) ==
    /\ row.phase # "Reviewing" /\ next.phase = "Reviewing" =>
         bank = "Pass" /\ ~row.cancelled
    /\ row.phase \in Terminal => next.ledger = row.ledger

\* The writer may go on at `k' with the row it wrote.
PlaceFollows(c, next, k) ==
    /\ k.at \notin {"open", "install", "append", "check", "clear", "record",
                    "settle", "closeRow"}
    /\ k.at = "look" => k.then \in Thens
    /\ k.end # None => k.end.to # "Reviewing"
    /\ k.at = "finish" => k.end # None
    /\ k.at = "invoke" \/ (k.at = "look" /\ k.then = "invoke") =>
         next.executor = "NotStarted"
    /\ k.at = "calling" => row.executor = "NotStarted" /\ next.executor # "NotStarted"
    /\ k.at = "recover" => next.epoch = row.epoch + 1
    /\ c \in Brokers =>
         /\ Working(k) => Leased(c, next.ws)
         /\ k.at = "execute" => WriteDue(next) /\ root[next.ws] # "after"

\* The write and where it leads.
Follows(c, next, k) ==
    /\ RowFollows(next) /\ AdmissionFollows(next)
    /\ k.at # "done" => PlaceFollows(c, next, k)

\* A write of the row is one of somebody whose copy is current, or it is a
\* return.
LEMMA SwapCases ==
    ASSUME NEW c \in Callers, NEW next, NEW k, Swap(c, next, k)
    PROVE  \/ /\ Wins(c, next)
              /\ row' = next /\ current' = {c} /\ unmoved' = {}
              /\ call' = [call EXCEPT ![c] = IF k.at = "done" THEN Idle
                                             ELSE [k EXCEPT !.copy = next]]
           \/ /\ row' = row /\ unmoved' = unmoved /\ current' = current \ {c}
              /\ call' = [call EXCEPT ![c] = Idle]
  BY DEF Swap, Store, Return, Goto

\* The row that is stored is sound, and later than the one before it.
LEMMA StoredIsSound ==
    ASSUME CtlInv, row # None, NEW next \in Rows, Accepts(row, next), WritesPlanned(next),
           next.ws = row.ws, next.attempt = row.attempt
    PROVE  RowSound(next) /\ Before(row, next)
  <1>1. RowSound(row) /\ row \in Rows
    BY DEF CtlInv, RowInv, RowSound
  <1>2. Valid(next) /\ row.revision <= next.revision /\ next.epoch \in {row.epoch, row.epoch + 1}
    BY <1>1, AcceptedProgress
  <1>3. EventNext(next)
    BY <1>1, AcceptedEvents
  <1>4. row.epoch \in Nat /\ row.ws \in Nat /\ row.attempt \in Nat
    BY <1>1, AttemptsAreCounted DEF Rows
  <1> QED
    BY <1>2, <1>3, <1>4 DEF RowSound, Before

\* A frozen event stays frozen: what is taken from the row is in the log.
LEMMA FrozenStays ==
    ASSUME CtlInv, row # None, NEW next \in Rows, Accepts(row, next),
           row.pending # None /\ next.pending = None => Logged(log, row.pending),
           NEW event, event # None, Frozen(event)
    PROVE  event = next.pending \/ Logged(log, event)
  <1>1. row \in Rows /\ RowSound(row)
    BY DEF CtlInv, RowInv, RowSound
  <1> QED
    BY <1>1, AcceptedEvents DEF Frozen

\* Who did not write is where he was, with a copy that is not current.
LEMMA OthersStay ==
    ASSUME CtlInv, row # None, NEW next \in Rows, Accepts(row, next), RowFollows(next),
           row' = next, log' = log, invoked' = invoked, root' = root, writes' = writes,
           \A b \in Brokers : SameHold(b),
           NEW d \in Callers, call'[d] = call[d]
    PROVE  CallSound(d, call[d])'
  <1> PICK k : k = call[d]
    OBVIOUS
  <1>1. CallSound(d, k) /\ row \in Rows /\ RowSound(row) /\ k \in Calls
    BY DEF CtlInv, CallInv, RowInv, RowSound
  <1>2. RowSound(next) /\ Before(row, next)
    BY StoredIsSound DEF RowFollows
  <1>3. /\ row.attempt = next.attempt /\ row.ws = next.ws
        /\ next.epoch \in {row.epoch, row.epoch + 1}
        /\ row.closed => next.closed
        /\ next.executor = "NotStarted" => row.executor = "NotStarted"
    BY <1>1, AcceptedProgress DEF RowFollows
  <1>4. CopySound(call[d])'
    <2>1. CopySound(k) /\ k.copy \in Rows \union {None}
      BY <1>1 DEF CallSound, Calls
    <2>2. ASSUME k.copy # None PROVE Before(k.copy, next)
      <3>1. k.copy \in Rows /\ Before(k.copy, row)
        BY <2>1, <2>2 DEF CopySound
      <3> PICK r : r = k.copy
        OBVIOUS
      <3>2. /\ r.attempt \in Nat /\ r.revision \in Nat /\ r.ws \in Nat /\ r.epoch \in Nat
            /\ row.attempt \in Nat /\ row.revision \in Nat /\ row.ws \in Nat /\ row.epoch \in Nat
        BY <1>1, <3>1, RowCounts
      <3>3. Before(r, row) /\ next.revision \in Nat /\ row.revision <= next.revision
        BY <1>2, <3>1 DEF RowSound, Rows, Before
      <3> QED
        BY <1>3, <3>2, <3>3 DEF Before
    <2>3. k.copy # None /\ k.copy.pending # None =>
            k.copy.pending = next.pending \/ Logged(log, k.copy.pending)
      BY <2>1, FrozenStays DEF CopySound, RowFollows
    <2> QED
      BY <2>1, <2>2, <2>3, NothingIsNone DEF CopySound, Frozen, Logged
  <1>5. PlaceSound(call[d])' /\ InvokeSound(call[d])'
    BY <1>1, <1>3 DEF CallSound, PlaceSound, InvokeSound, Logged
  <1>6. ASSUME d \in Brokers PROVE LeaseSound(d, call[d])'
    <2>1. LeaseSound(d, k) /\ SameHold(d)
      BY <1>1, <1>6 DEF CallSound
    <2>2. Unwritten(d) =>
            (lease'[d] # NoLease /\ Current(row', lease'[d]) => root'[row'.ws] # "after")
      <3>1. SUFFICES ASSUME lease'[d] # NoLease, Current(row', lease'[d])
                     PROVE lease[d] # NoLease /\ Current(row, lease[d])
        BY <1>3 DEF Unwritten
      <3>2. lease[d] # NoLease /\ lease[d].ws = row.ws /\ lease[d].epoch = next.epoch
            /\ ~next.closed
        BY <1>3, <2>1, <3>1 DEF SameHold, Current
      <3>3. lease[d].epoch <= row.epoch
        BY <1>6, <3>2 DEF CtlInv, LeaseInv, Known
      <3>4. next.epoch = row.epoch
        BY <1>1, <1>3, <3>2, <3>3 DEF Rows
      <3> QED
        BY <1>3, <3>2, <3>4 DEF Current
    <2>3. k.at = "settle" => lease'[d].ws = lease[d].ws
      BY <2>1 DEF SameHold, LeaseSound, Working, Works, Leased
    <2> QED
      BY <2>1, <2>2, <2>3
         DEF LeaseSound, Leased, Working, Unwritten, WriteDue, SameHold
  <1> QED
    BY <1>4, <1>5, <1>6 DEF CallSound

\* The place at which the writer goes on is sound.
LEMMA WriterIsSound ==
    ASSUME CtlInv, row # None, NEW next \in Rows, Accepts(row, next), RowFollows(next),
           row' = next, log' = log, invoked' = invoked, root' = root, writes' = writes,
           \A b \in Brokers : SameHold(b),
           NEW c \in Callers, NEW k \in Calls, PlaceFollows(c, next, k),
           call'[c] = [k EXCEPT !.copy = next]
    PROVE  CallSound(c, call[c])'
  <1>1. RowSound(next) /\ row \in Rows /\ RowSound(row)
    BY StoredIsSound DEF RowFollows, CtlInv, RowInv, RowSound
  <1> PICK e : e = call'[c]
    OBVIOUS
  <1>2. e.at = k.at /\ e.then = k.then /\ e.copy = next /\ e.end = k.end
    BY DEF Calls
  <1>3. CopySound(call[c])'
    <2>1. Before(next, next)
      BY <1>1, AttemptsAreCounted DEF Before, RowSound, Rows
    <2> QED
      BY <1>1, <1>2, <2>1, NothingIsNone DEF CopySound, Frozen
  <1>4. PlaceSound(call[c])'
    BY <1>2 DEF PlaceSound, PlaceFollows, Reconciling
  <1>5. InvokeSound(call[c])'
    <2>1. k.at = "calling" => invoked[next.attempt] = 0
      <3>1. row.attempt \in 1..MaxAttempts /\ row.attempt = next.attempt
        BY <1>1 DEF RowFollows, RowSound, Rows
      <3> QED
        BY <3>1 DEF CtlInv, InvokedInv, PlaceFollows
    <2> QED
      BY <1>2, <2>1 DEF InvokeSound, PlaceFollows, Reconciling
  <1>6. ASSUME c \in Brokers PROVE LeaseSound(c, call[c])'
    <2>1. Working(k) => lease'[c] # NoLease /\ lease'[c].ws = next.ws
      BY <1>6 DEF PlaceFollows, Leased, SameHold
    <2>2. Working(call[c])' => Working(k)
      BY <1>2 DEF Working
    <2>3. ASSUME k.at = "recover", NEW d \in Brokers, lease'[d] # NoLease,
                 lease'[d].ws = next.ws
          PROVE  lease'[d].epoch # next.epoch
      <3>1. lease[d] # NoLease /\ lease[d].ws = row.ws /\ lease[d].epoch = lease'[d].epoch
        BY <2>3 DEF SameHold, RowFollows
      <3>2. lease[d].epoch <= row.epoch /\ lease[d].epoch \in Nat
        BY <3>1 DEF CtlInv, LeaseInv, Known, Leases
      <3> QED
        BY <1>1, <2>3, <3>1, <3>2 DEF PlaceFollows, RowSound, Rows
    <2> QED
      BY <1>2, <1>6, <2>1, <2>2, <2>3
         DEF LeaseSound, Leased, Unwritten, WriteDue, PlaceFollows
  <1> QED
    BY <1>3, <1>4, <1>5, <1>6 DEF CallSound

\* Two calls are never at the executor for one attempt, nor at the recovery
\* of one epoch.
LEMMA WriterIsAlone ==
    ASSUME CtlInv, row # None, NEW next \in Rows, Accepts(row, next), RowFollows(next),
           NEW c \in Callers, NEW k, PlaceFollows(c, next, k),
           NEW d \in Callers, d # c
    PROVE  /\ k.at = "calling" /\ At(d, "calling") =>
                call[d].copy.attempt # next.attempt
           /\ k.at = "recover" /\ At(d, "recover") /\ call[d].copy.ws = next.ws =>
                call[d].copy.epoch # next.epoch
  <1>1. CallSound(d, call[d]) /\ call[d] \in Calls /\ row \in Rows
    BY DEF CtlInv, CallInv, RowInv, RowSound
  <1>2. k.at = "calling" /\ At(d, "calling") => call[d].copy.attempt # next.attempt
    BY <1>1 DEF At, CallSound, InvokeSound, PlaceFollows, RowFollows
  <1>3. ASSUME k.at = "recover", At(d, "recover"), call[d].copy.ws = next.ws
        PROVE  call[d].copy.epoch # next.epoch
    <2>1. call[d].copy \in Rows /\ Before(call[d].copy, row)
      BY <1>1, <1>3 DEF At, CallSound, CopySound, RowSound
    <2> QED
      BY <1>1, <1>3, <2>1 DEF Before, RowFollows, PlaceFollows, Rows
  <1> QED
    BY <1>2, <1>3

\* The log explains the row that is stored.
LEMMA LogStays ==
    ASSUME CtlInv, row # None, NEW next \in Rows, Accepts(row, next), 
           row.pending # None /\ next.pending = None => Logged(log, row.pending),
           row' = next, log' = log
    PROVE  LogInv'
  <1>1. row \in Rows /\ RowSound(row) /\ LogInv
    BY DEF CtlInv, RowInv, RowSound
  <1>2. /\ EventNext(next)
        /\ \/ row.pending # None /\ next.pending = None /\ next.projected = row.pending
           \/ /\ row.pending = None /\ next.projected = row.projected
              /\ next.pending # None => next.pending.revision = row.revision + 1
    BY <1>1, AcceptedEvents
  <1>3. row.revision <= next.revision
    BY <1>1, AcceptedProgress
  <1>4. /\ row.revision \in Nat /\ next.revision \in Nat
        /\ row.pending \in Events \union {None} /\ row.projected \in Events \union {None}
        /\ \A i \in DOMAIN log : log[i] \in Events /\ log[i].revision \in Nat
    <2>1. \A i \in DOMAIN log : log[i] \in Events
      BY <1>1 DEF LogInv
    <2>2. \A e \in Events : e.revision \in Nat
      BY DEF Events
    <2> QED
      BY <1>1, <2>1, <2>2 DEF Rows
  <1>5. Acknowledgements = LogKnown(row) /\ Acknowledgements' = LogKnown(next)
        /\ LogKnown(row) \in Nat
    BY <1>4, NothingIsNone DEF Acknowledgements, LogKnown, Events
  <1>6. EventNext(row)
    BY <1>1 DEF RowSound
  <1>7. CASE row.pending # None /\ next.pending = None /\ next.projected = row.pending
    <2>1. LogKnown(next) = LogKnown(row) + 1
      BY <1>4, <1>6, <1>7 DEF EventNext, LogKnown
    <2>2. PICK j \in DOMAIN log : log[j] = row.pending
      BY <1>7 DEF Logged
    <2>3. log[j].revision = LogKnown(row) + 1
      BY <1>6, <1>7, <2>2 DEF EventNext
    <2>4. \A n \in 1..LogKnown(next) : \E i \in DOMAIN log : log[i].revision = n
      <3> SUFFICES ASSUME NEW n \in 1..LogKnown(next)
                   PROVE  \E i \in DOMAIN log : log[i].revision = n
        OBVIOUS
      <3>1. n \in 1..LogKnown(row) \/ n = LogKnown(row) + 1
        BY <1>5, <2>1
      <3> QED
        BY <1>1, <1>5, <2>2, <2>3, <3>1 DEF LogInv
    <2>5. \A i \in DOMAIN log : log[i].revision <= next.revision
            /\ (log[i].revision > LogKnown(next) => log[i] = next.pending)
      BY <1>1, <1>2, <1>3, <1>4, <1>5, <1>6, <1>7, <2>1 DEF LogInv, EventNext
    <2> QED
      BY <1>1, <1>5, <2>4, <2>5, NothingIsNone DEF LogInv
  <1>8. CASE row.pending = None /\ next.projected = row.projected
    <2>1. LogKnown(next) = LogKnown(row)
      BY <1>8 DEF LogKnown
    <2>2. \A i \in DOMAIN log : log[i].revision <= LogKnown(row)
      BY <1>1, <1>4, <1>5, <1>8, NothingIsNone DEF LogInv
    <2>3. \A i \in DOMAIN log : log[i].revision <= next.revision
            /\ ~(log[i].revision > LogKnown(next))
      BY <1>1, <1>3, <1>4, <1>5, <2>1, <2>2 DEF LogInv
    <2> QED
      BY <1>1, <1>5, <2>1, <2>3, NothingIsNone DEF LogInv
  <1> QED
    BY <1>2, <1>7, <1>8

\* The disk and the leases stay explained when the row is written for the
\* same workspace.
LEMMA WorldStays ==
    ASSUME CtlInv, row # None, NEW next \in Rows, Accepts(row, next), RowFollows(next),
           row' = next, root' = root, writes' = writes, opened' = opened, unmoved' = {},
           lease' \in [Brokers -> Leases \union {NoLease}], \A b \in Brokers : SameHold(b)
    PROVE  DiskInv' /\ LeaseInv'
  <1>1. row \in Rows /\ RowSound(row)
    BY DEF CtlInv, RowInv, RowSound
  <1>2. row.ws = next.ws /\ row.epoch \in Nat /\ next.epoch \in {row.epoch, row.epoch + 1}
    BY <1>1, AcceptedProgress, RowCounts DEF RowFollows
  <1>3. Known = row.ws /\ Known' = row.ws
    BY <1>2, NothingIsNone DEF Known
  <1>4. DiskInv'
    BY <1>3 DEF CtlInv, DiskInv, RowFollows, Explained
  <1>5. LeaseInv'
    <2>1. \A b \in Brokers : lease[b] # NoLease => lease[b].epoch \in Nat
      BY DEF CtlInv, LeaseInv, Leases
    <2>2. \A b \in Brokers : lease'[b] # NoLease /\ lease'[b].ws = row.ws =>
            lease'[b].epoch <= next.epoch
      BY <1>2, <1>3, <2>1 DEF CtlInv, LeaseInv, SameHold
    <2> QED
      BY <1>3, <2>2 DEF CtlInv, LeaseInv, SameHold
  <1> QED
    BY <1>4, <1>5

\* A run enters Reviewing from Verifying, with its effects complete.
LEMMA StoredIsEarned ==
    ASSUME CtlInv, row # None, NEW next \in Rows, Accepts(row, next), AdmissionFollows(next),
           row' = next
    PROVE  Earned
  <1>1. row \in Rows /\ RowSound(row)
    BY DEF CtlInv, RowInv, RowSound
  <1>2. /\ row.phase \in Terminal => next.phase = row.phase
        /\ row.phase # "Reviewing" /\ next.phase = "Reviewing" => row.phase = "Verifying"
    BY <1>1, AcceptedProgress
  <1>3. row.phase = "Verifying" => EffectsComplete(row) /\ ~row.prepared
    BY <1>1 DEF RowSound, Valid, PhaseValid
  <1> QED
    BY <1>2, <1>3, NothingIsNone DEF Earned, AdmissionFollows

\* A step that writes the row with a copy that is current, or returns.
LEMMA Swapping ==
    ASSUME CtlInv, NEW c \in Callers, NEW next, NEW k \in Calls,
           call[c].at \notin {"idle", "open", "install"},
           Swap(c, next, k),
           Wins(c, next) /\ call[c].copy = row /\ row \in Rows /\ RowSound(row) =>
             Follows(c, next, k),
           log' = log, invoked' = invoked, opened' = opened, root' = root, writes' = writes,
           lease' \in [Brokers -> Leases \union {NoLease}], \A b \in Brokers : SameHold(b),
           WorldInv'
    PROVE  CtlInv' /\ Earned
  <1>0. CallSound(c, call[c]) /\ call \in [Callers -> Calls] /\ unmoved \subseteq Brokers
        /\ current \subseteq Callers /\ root \in [Workspaces -> Roots]
    BY DEF CtlInv, CallInv, CurrentInv, LeaseInv, DiskInv
  <1>1. CASE /\ row' = row /\ unmoved' = unmoved /\ current' = current \ {c}
             /\ call' = [call EXCEPT ![c] = Idle]
    <2>1. call' \in [Callers -> Calls] /\ \A d \in Callers : Moves(d)
      BY <1>0, <1>1, IdleIsSound DEF Moves
    <2> QED
      BY <1>0, <1>1, <2>1, Shrinking DEF Shrinks
  <1>2. CASE /\ Wins(c, next)
             /\ row' = next /\ current' = {c} /\ unmoved' = {}
             /\ call' = [call EXCEPT ![c] = IF k.at = "done" THEN Idle
                                            ELSE [k EXCEPT !.copy = next]]
    <2>1. call[c].copy # None /\ row # None /\ call[c].copy = row
      BY <1>0, <1>2 DEF CallSound, CopySound, Wins, CtlInv, CurrentInv, At
    <2>2. row \in Rows /\ RowSound(row) /\ Accepts(row, next)
      BY <1>2, <2>1 DEF CtlInv, RowInv, RowSound, Wins
    <2>3. Follows(c, next, k) /\ next \in Rows
      BY <1>2, <2>1, <2>2 DEF Follows, RowFollows
    <2>4. RowSound(next) /\ next.ws = row.ws
      BY <2>1, <2>2, <2>3, StoredIsSound DEF Follows, RowFollows
    <2>5. call' \in [Callers -> Calls]
      <3>1. [k EXCEPT !.copy = next] \in Calls
        BY <2>3 DEF Calls
      <3> QED
        BY <1>0, <1>2, <3>1, IdleIsSound
    <2>6. \A d \in Callers : CallSound(d, call[d])'
      <3> SUFFICES ASSUME NEW d \in Callers PROVE CallSound(d, call[d])'
        OBVIOUS
      <3>1. CASE d # c
        <4>1. call'[d] = call[d]
          BY <1>0, <1>2, <3>1
        <4> QED
          BY <1>2, <2>1, <2>2, <2>3, <4>1, OthersStay DEF Follows
      <3>2. CASE d = c /\ k.at = "done"
        <4>1. call'[d] = Idle
          BY <1>0, <1>2, <3>2
        <4> QED
          BY <4>1
             DEF Idle, CallSound, CopySound, PlaceSound, InvokeSound, LeaseSound,
                 Reconciling, Working, Works
      <3>3. CASE d = c /\ k.at # "done"
        <4>1. call'[c] = [k EXCEPT !.copy = next]
          BY <1>0, <1>2, <3>3
        <4> QED
          BY <1>2, <2>1, <2>2, <2>3, <3>3, <4>1, WriterIsSound DEF Follows
      <3> QED
        BY <3>1, <3>2, <3>3
    <2>7. \A d \in Callers \ {c} : call'[d] = call[d]
      BY <1>0, <1>2
    <2>8. /\ k.at = "done" => call'[c].at = "idle"
          /\ k.at # "done" => call'[c].at = k.at /\ call'[c].copy = next
      <3>1. k.at # "done" => call'[c] = [k EXCEPT !.copy = next]
        BY <1>0, <1>2
      <3>2. k.at = "done" => call'[c] = Idle
        BY <1>0, <1>2
      <3> QED
        BY <3>1, <3>2 DEF Calls, Idle
    <2>9. ASSUME NEW d \in Callers, d # c
          PROVE  /\ call'[c].at = "calling" /\ call'[d].at = "calling" =>
                      call'[d].copy.attempt # call'[c].copy.attempt
                 /\ call'[c].at = "recover" /\ call'[d].at = "recover"
                    /\ call'[d].copy.ws = call'[c].copy.ws =>
                      call'[d].copy.epoch # call'[c].copy.epoch
      <3>1. CASE k.at = "done"
        BY <2>8, <3>1
      <3>2. CASE k.at # "done"
        <4>1. /\ k.at = "calling" /\ At(d, "calling") => call[d].copy.attempt # next.attempt
              /\ k.at = "recover" /\ At(d, "recover") /\ call[d].copy.ws = next.ws =>
                   call[d].copy.epoch # next.epoch
          BY <2>1, <2>2, <2>3, <2>9, <3>2, WriterIsAlone DEF Follows
        <4> QED
          BY <2>7, <2>8, <2>9, <3>2, <4>1 DEF At
      <3> QED
        BY <3>1, <3>2
    <2>10. CallInv'
      <3>1. \A d, e \in Callers :
              /\ At(d, "calling")' /\ At(e, "calling")' /\ d # e =>
                   call'[d].copy.attempt # call'[e].copy.attempt
              /\ At(d, "recover")' /\ At(e, "recover")' /\ d # e
                 /\ call'[d].copy.ws = call'[e].copy.ws =>
                   call'[d].copy.epoch # call'[e].copy.epoch
        BY <2>7, <2>9 DEF CtlInv, CallInv, At
      <3> QED
        BY <2>5, <2>6, <3>1 DEF CallInv
    <2>11. CurrentInv'
      <3>1. ~At(c, "install")' /\ (~At(c, "idle")' => call'[c].copy = row')
        BY <1>2, <2>3, <2>8 DEF At, Follows, PlaceFollows
      <3> QED
        BY <1>2, <3>1 DEF CurrentInv
    <2>12. RowInv'
      BY <1>2, <2>1, <2>4 DEF CtlInv, RowInv
    <2>13. InvokedInv'
      <3>1. next.attempt = row.attempt /\ next.executor = "NotStarted" => row.executor = "NotStarted"
        BY <2>2, <2>3, AcceptedProgress
      <3> QED
        BY <1>2, <2>1, <2>3, <3>1, NothingIsNone
           DEF CtlInv, InvokedInv, Follows, RowFollows
    <2>14. LogInv'
      BY <1>2, <2>1, <2>2, <2>3, LogStays DEF Follows, RowFollows
    <2>15. DiskInv' /\ LeaseInv'
      BY <1>2, <2>1, <2>2, <2>3, WorldStays DEF Follows
    <2>16. Earned
      BY <1>2, <2>1, <2>2, <2>3, StoredIsEarned DEF Follows
    <2> QED
      BY <2>10, <2>11, <2>12, <2>13, <2>14, <2>15, <2>16 DEF CtlInv
  <1> QED
    BY <1>1, <1>2, SwapCases

-----------------------------------------------------------------------------
(* Rows as the calls change them, and places as they go on.                *)

\* What most writes leave alone.
Plain(r, next) ==
    /\ next.ws = r.ws /\ next.attempt = r.attempt
    /\ next.ledger = r.ledger /\ next.prepared = r.prepared /\ next.closed = r.closed
    /\ next.pending = None => r.pending = None

\* The row follows a write that leaves those alone.
LEMMA PlainFollows ==
    ASSUME CtlInv, row # None, NEW next \in Rows, Plain(row, next)
    PROVE  RowFollows(next)
  <1>1. RowSound(row) /\ Explained(row)
    BY DEF CtlInv, RowInv, DiskInv
  <1> QED
    BY <1>1 DEF Plain, RowFollows, RowSound, WritesPlanned, Explained, Snapshot

\* A transition with its frozen event.
LEMMA MovedIs ==
    ASSUME NEW r \in Rows, NEW to \in Phases, NEW trigger \in Triggers,
           NEW n, n = Moved(r, to, trigger)
    PROVE  /\ n \in Rows /\ Plain(r, n) /\ n.phase = to
           /\ n.executor = r.executor /\ n.cancelled = r.cancelled
  <1>1. r.pending \in Events \union {None} /\ r.projected \in Events \union {None}
        /\ r.revision \in Nat /\ r.attempt \in 1..MaxAttempts /\ r.phase \in Phases
    BY DEF Rows
  <1> PICK e : e = [from |-> r.phase, to |-> to, trigger |-> trigger,
                    revision |-> r.revision + 1, attempt |-> r.attempt,
                    seq |-> IF r.projected = None THEN 0 ELSE r.projected.seq + 1]
    OBVIOUS
  <1>2. (IF r.projected = None THEN 0 ELSE r.projected.seq + 1) \in Nat
    BY <1>1 DEF Events
  <1>3. e \in Events
    BY <1>1, <1>2 DEF Events
  <1> PICK m : m = r.revision + 1
    OBVIOUS
  <1>4. m \in Nat /\ e # None
    BY <1>1, <1>3, NothingIsNone
  <1>5. n = [r EXCEPT !.phase = to, !.revision = m, !.stamped = TRUE, !.pending = e]
    BY DEF Moved
  <1>6. n \in Rows
    BY <1>3, <1>4, <1>5 DEF Rows
  <1>7. /\ n.phase = to /\ n.pending = e /\ n.ws = r.ws /\ n.attempt = r.attempt
        /\ n.ledger = r.ledger /\ n.prepared = r.prepared /\ n.closed = r.closed
        /\ n.executor = r.executor /\ n.cancelled = r.cancelled
    BY <1>5 DEF Rows
  <1> QED
    BY <1>4, <1>6, <1>7 DEF Plain

\* A call that goes on at another place.
LEMMA StepIs ==
    ASSUME NEW c \in Callers, call[c] \in Calls, NEW label \in Labels,
           NEW k, k = Step(c, label)
    PROVE  /\ k \in Calls /\ k.at = label /\ k.then = call[c].then
           /\ k.copy = call[c].copy /\ k.end = call[c].end /\ k.got = call[c].got
  BY DEF Step, Calls

\* A call on its way to the end of its drive.
LEMMA EndingIs ==
    ASSUME NEW c \in Callers, call[c] \in Calls, NEW to \in Phases, NEW trigger \in Triggers,
           NEW tidy \in {"first", "last", "none"},
           NEW k, k = Ending(c, to, trigger, tidy)
    PROVE  /\ k \in Calls /\ k.at = "finish" /\ k.copy = call[c].copy
           /\ k.end \in Endings /\ k.end # None
           /\ k.end.to = to /\ k.end.trigger = trigger /\ k.end.tidy = tidy
  <1> PICK e : e = [to |-> to, trigger |-> trigger, tidy |-> tidy]
    OBVIOUS
  <1>1. e \in Endings /\ e.to = to /\ e.trigger = trigger /\ e.tidy = tidy
    BY DEF Endings
  <1> PICK s : s = Step(c, "finish")
    OBVIOUS
  <1>2. s \in Calls /\ s.at = "finish" /\ s.copy = call[c].copy
    BY StepIs DEF Labels
  <1>3. k = [s EXCEPT !.end = e]
    BY DEF Ending
  <1>4. k \in Calls /\ k.at = "finish" /\ k.copy = call[c].copy /\ k.end = e
    BY <1>1, <1>2, <1>3 DEF Calls
  <1> QED
    BY <1>1, <1>4, NothingIsNone

\* A call that closes its workspace on its way to the end.
LEMMA ClosingIs ==
    ASSUME NEW c \in Callers, call[c] \in Calls, NEW to \in Phases, NEW trigger \in Triggers,
           NEW k, k = Closing(c, to, trigger)
    PROVE  /\ k \in Calls /\ k.at = "closeRoot" /\ k.copy = call[c].copy
           /\ k.end \in Endings /\ k.end # None /\ k.end.to = to
  <1> PICK e : e = Ending(c, to, trigger, "first")
    OBVIOUS
  <1>1. e \in Calls /\ e.copy = call[c].copy /\ e.end \in Endings /\ e.end # None
        /\ e.end.to = to
    BY EndingIs
  <1>2. k = [e EXCEPT !.at = "closeRoot"]
    BY DEF Closing
  <1> QED
    BY <1>1, <1>2 DEF Calls, Labels

\* The places at which a drive has its lease and needs no more than that.
Steady == {"result", "effects", "startVerifier", "reseal", "verify", "observe", "admit",
           "closeRoot"}

\* No drive ends in Reviewing by a transition of its own: it is admitted.
Ends(k) == k.end # None => k.end.to # "Reviewing"

\* A writer may go on at such a place with the lease of its workspace.
LEMMA SteadyFollows ==
    ASSUME NEW c, NEW next, NEW k, Ends(k), k.at \in Steady \/ (k.at = "finish" /\ k.end # None),
           c \in Brokers => Leased(c, next.ws)
    PROVE  PlaceFollows(c, next, k)
  BY DEF PlaceFollows, Steady, Ends

\* The same for a step that leaves the row alone.
LEMMA SteadySound ==
    ASSUME CtlInv, NEW c \in Callers, call[c].copy # None, NEW k \in Calls, Ends(k),
           k.at \in Steady \/ (k.at = "finish" /\ k.end # None),
           k.copy = call[c].copy,
           c \in Brokers => Leased(c, k.copy.ws)
    PROVE  CallSound(c, k)
  <1>1. CopySound(call[c])
    BY DEF CtlInv, CallInv, CallSound
  <1> QED
    BY <1>1 DEF CallSound, CopySound, PlaceSound, InvokeSound, LeaseSound, Steady, Ends,
                Reconciling

\* What is known of a caller.
LEMMA CallerIs ==
    ASSUME CtlInv, NEW c \in Callers
    PROVE  /\ call[c] \in Calls /\ CallSound(c, call[c]) /\ Ends(call[c])
           /\ call[c].copy \in Rows \union {None}
           /\ call[c].copy # None => row # None /\ RowSound(call[c].copy)
           /\ c \in Brokers /\ call[c].at \in Works => Leased(c, call[c].copy.ws)
  BY DEF CtlInv, CallInv, CallSound, CopySound, PlaceSound, LeaseSound, Ends, Calls, Working

\* A step within one call that writes nothing.
LEMMA Quieting ==
    ASSUME CtlInv, NEW c \in Callers, NEW k \in Calls,
           call' = [call EXCEPT ![c] = k], CallSound(c, k),
           k.at \notin {"calling", "recover", "install"},
           current' \subseteq current \union {c},
           c \in current' /\ k.at # "idle" => k.copy = row,
           UNCHANGED <<row, log, disk, unmoved>>, invoked' = invoked, WorldInv'
    PROVE  CtlInv' /\ Earned
  <1>1. call \in [Callers -> Calls] /\ current \subseteq Callers
        /\ lease \in [Brokers -> Leases \union {NoLease}] /\ root \in [Workspaces -> Roots]
    BY DEF CtlInv, CallInv, CurrentInv, LeaseInv, DiskInv
  <1>2. call' \in [Callers -> Calls]
    BY <1>1
  <1>3. \A d \in Callers : Moves(d)
    BY <1>1 DEF Moves
  <1>4. row' = row /\ log' = log /\ opened' = opened /\ root' = root /\ lease' = lease
        /\ writes' = writes /\ unmoved' = unmoved
    BY DEF disk
  <1>5. \A b \in Brokers : SameHold(b)
    BY <1>4 DEF SameHold
  <1> QED
    BY <1>1, <1>2, <1>3, <1>4, <1>5, Shrinking DEF Shrinks

\* The call returns, whatever else of the registry and the disk it removes.
LEMMA Returning ==
    ASSUME CtlInv, NEW c \in Callers, Return(c),
           UNCHANGED <<row, log, disk, unmoved>>, invoked' = invoked, WorldInv'
    PROVE  CtlInv' /\ Earned
  <1>1. call' = [call EXCEPT ![c] = Idle] /\ current' = current \ {c}
    BY DEF Return, Goto
  <1> QED
    BY <1>1, IdleIsSound, Quieting

\* A step from one place to another.
LEMMA Going ==
    ASSUME CtlInv, NEW c \in Callers, NEW k \in Calls, Goto(c, k), CallSound(c, k),
           k.at \notin {"calling", "recover", "install"},
           call[c].at # "idle", k.copy = call[c].copy,
           UNCHANGED <<row, log, disk, unmoved, current>>, invoked' = invoked, WorldInv'
    PROVE  CtlInv' /\ Earned
  <1>1. c \in current' => k.copy = row
    BY DEF CtlInv, CurrentInv, At
  <1> QED
    BY <1>1, Quieting DEF Goto

-----------------------------------------------------------------------------
(* The actions: reconciling the log with the row.                          *)

\* The log is read: the event is missing, or its tail, or none is frozen.
LEMMA LookSound ==
    ASSUME CtlInv, NEW c \in Callers, Look(c)
    PROVE  CtlInv' /\ Earned
  <1>1. /\ call[c].at = "look" /\ call[c].at # "idle"
        /\ UNCHANGED <<row, log, disk, unmoved>> /\ invoked' = invoked /\ WorldInv'
    BY DEF Look, At, world, CtlInv, WorldInv
  <1>2. /\ call[c] \in Calls /\ CallSound(c, call[c]) /\ call[c].copy # None
        /\ call[c].then \in Thens
    BY <1>1, CallerIs DEF CallSound, CopySound, PlaceSound, Reconciling
  <1>3. CASE Return(c)
    BY <1>1, <1>3, Returning
  <1>4. CASE Goto(c, Idle) /\ UNCHANGED current
    BY <1>1, <1>4, IdleIsSound, Quieting DEF CtlInv, CurrentInv, Goto
  <1>5. CASE call[c].then # "done" /\ Goto(c, Step(c, call[c].then)) /\ UNCHANGED current
    <2> PICK k : k = Step(c, call[c].then)
      OBVIOUS
    <2>1. k \in Calls /\ k.at = call[c].then /\ k.copy = call[c].copy /\ k.end = call[c].end
      BY <1>2, StepIs DEF Thens, Labels
    <2>2. CallSound(c, k)
      BY <1>1, <1>2, <1>5, <2>1
         DEF CallSound, CopySound, PlaceSound, InvokeSound, LeaseSound, Thens,
             Reconciling, Working, Works
    <2> QED
      BY <1>1, <1>2, <1>5, <2>1, <2>2, Going DEF Thens
  <1>6. CASE /\ call[c].copy.pending # None /\ Goto(c, Step(c, "append"))
             /\ UNCHANGED current
    <2> PICK k : k = Step(c, "append")
      OBVIOUS
    <2>1. k \in Calls /\ k.at = "append" /\ k.copy = call[c].copy /\ k.end = call[c].end
          /\ k.then = call[c].then
      BY <1>2, StepIs DEF Labels
    <2>2. CallSound(c, k)
      BY <1>1, <1>2, <1>6, <2>1
         DEF CallSound, CopySound, PlaceSound, InvokeSound, LeaseSound,
             Reconciling, Working, Works
    <2> QED
      BY <1>1, <1>6, <2>1, <2>2, Going
  <1>7. CASE /\ call[c].copy.pending # None /\ Logged(log, call[c].copy.pending)
             /\ Goto(c, Step(c, "clear")) /\ UNCHANGED current
    <2> PICK k : k = Step(c, "clear")
      OBVIOUS
    <2>1. k \in Calls /\ k.at = "clear" /\ k.copy = call[c].copy /\ k.end = call[c].end
          /\ k.then = call[c].then
      BY <1>2, StepIs DEF Labels
    <2>2. CallSound(c, k)
      BY <1>1, <1>2, <1>7, <2>1
         DEF CallSound, CopySound, PlaceSound, InvokeSound, LeaseSound,
             Reconciling, Working, Works
    <2> QED
      BY <1>1, <1>7, <2>1, <2>2, Going
  <1> QED
    BY <1>1, <1>3, <1>4, <1>5, <1>6, <1>7 DEF Look

\* Appending a frozen event: it is the row's, or it is in the log already.
LEMMA AppendSound ==
    ASSUME CtlInv, NEW c \in Callers, AppendFrozen(c)
    PROVE  CtlInv' /\ Earned
  <1>1. /\ call[c].at = "append" /\ log' = Append(log, call[c].copy.pending)
        /\ call' = [call EXCEPT ![c] = Step(c, "check")]
        /\ row' = row /\ root' = root /\ opened' = opened /\ lease' = lease
        /\ writes' = writes /\ bank' = bank /\ expired' = expired /\ invoked' = invoked
        /\ holder' = holder /\ unmoved' = unmoved /\ current' = current
    BY DEF AppendFrozen, At, Goto, disk, world
  <1>2. /\ call[c] \in Calls /\ CallSound(c, call[c]) /\ call[c].copy # None
        /\ call[c].copy.pending # None /\ row # None /\ call[c].copy \in Rows
        /\ Frozen(call[c].copy.pending) /\ RowSound(call[c].copy) /\ Before(call[c].copy, row)
    BY <1>1, CallerIs DEF CallSound, CopySound, PlaceSound
  <1> PICK p : p = call[c].copy.pending
    OBVIOUS
  <1> PICK k : k = Step(c, "check")
    OBVIOUS
  <1>3. k \in Calls /\ k.at = "check" /\ k.copy = call[c].copy /\ k.end = call[c].end
        /\ k.then = call[c].then
    BY <1>2, StepIs DEF Labels
  <1>4. call \in [Callers -> Calls] /\ log \in Seq(Events) /\ row \in Rows /\ RowSound(row)
    BY <1>2 DEF CtlInv, CallInv, LogInv, RowInv, RowSound
  <1>5. p \in Events /\ p # None
    BY <1>2, RowCounts
  <1>6. /\ log' \in Seq(Events) /\ DOMAIN log \subseteq DOMAIN log'
        /\ \A i \in DOMAIN log : log'[i] = log[i]
        /\ \A i \in DOMAIN log' : i \in DOMAIN log \/ log'[i] = p
    BY <1>1, <1>4, <1>5
  <1>7. \A event : Logged(log, event) => Logged(log', event)
    BY <1>6 DEF Logged
  <1>8. \A d \in Callers : CallSound(d, call[d])'
    <2> SUFFICES ASSUME NEW d \in Callers PROVE CallSound(d, call[d])'
      OBVIOUS
    <2> PICK e : e = call'[d]
      OBVIOUS
    <2>1. CallSound(d, e)
      <3>1. CASE d = c
        BY <1>1, <1>2, <1>3, <1>4, <3>1
           DEF CallSound, CopySound, PlaceSound, InvokeSound, LeaseSound,
               Reconciling, Working, Works
      <3>2. CASE d # c
        BY <1>1, <1>4, <3>2, CallerIs
      <3> QED
        BY <3>1, <3>2
    <2>2. CopySound(call[d])' /\ PlaceSound(call[d])' /\ InvokeSound(call[d])'
      BY <1>1, <1>7, <2>1 DEF CallSound, CopySound, PlaceSound, InvokeSound, Frozen
    <2>3. d \in Brokers => LeaseSound(d, call[d])'
      BY <1>1, <2>1
         DEF CallSound, LeaseSound, Leased, Working, Unwritten, WriteDue
    <2> QED
      BY <2>2, <2>3 DEF CallSound
  <1>9. CallInv'
    <2>1. call' \in [Callers -> Calls]
      BY <1>1, <1>3, <1>4
    <2>2. \A d \in Callers : call'[d].at \in {"calling", "recover"} => call'[d] = call[d]
      BY <1>1, <1>3, <1>4
    <2> QED
      BY <1>8, <2>1, <2>2 DEF CtlInv, CallInv, At
  <1>10. CurrentInv'
    BY <1>1, <1>3, <1>4 DEF CtlInv, CurrentInv, At
  <1>11. LogInv'
    <2>1. Acknowledgements' = Acknowledgements
      BY <1>1 DEF Acknowledgements
    <2>2. p.revision <= row.revision /\ p.revision \in Nat
      <3>1. p.revision = call[c].copy.revision
        BY <1>2 DEF RowSound, EventNext
      <3> QED
        BY <1>2, <1>5, <3>1 DEF Before, Events
    <2>3. CASE p = row.pending
      <3>1. p.revision = Acknowledgements + 1
        BY <1>2, <1>4, <1>5, <2>3 DEF RowSound, EventNext, LogKnown, Acknowledgements
      <3>2. Acknowledgements \in Nat
        <4>1. row.projected \in Events \union {None}
          BY <1>4, RowCounts
        <4> QED
          BY <4>1 DEF Acknowledgements, Events
      <3>3. \A i \in DOMAIN log : log[i].revision = p.revision => log[i] = p
        BY <2>3, <3>1, <3>2 DEF CtlInv, LogInv
      <3> QED
        BY <1>1, <1>2, <1>6, <2>1, <2>2, <2>3, <3>3 DEF CtlInv, LogInv
    <2>4. CASE Logged(log, p)
      <3>1. PICK j \in DOMAIN log : log[j] = p
        BY <2>4 DEF Logged
      <3> QED
        BY <1>1, <1>2, <1>6, <2>1, <2>2, <3>1 DEF CtlInv, LogInv
    <2> QED
      BY <1>2, <2>3, <2>4 DEF Frozen
  <1>12. RowInv' /\ InvokedInv' /\ WorldInv'
    BY <1>1 DEF CtlInv, RowInv, InvokedInv, WorldInv
  <1>13. LeaseInv' /\ DiskInv'
    BY <1>1 DEF CtlInv, LeaseInv, DiskInv, Explained, Known
  <1>14. Earned
    BY <1>1 DEF Earned
  <1> QED
    BY <1>9, <1>10, <1>11, <1>12, <1>13, <1>14 DEF CtlInv

\* The log is read again, and the event must be its tail.
LEMMA CheckSound ==
    ASSUME CtlInv, NEW c \in Callers, CheckAppended(c)
    PROVE  CtlInv' /\ Earned
  <1>1. /\ call[c].at = "check" /\ call[c].at # "idle"
        /\ UNCHANGED <<row, log, disk, unmoved>> /\ invoked' = invoked /\ WorldInv'
    BY DEF CheckAppended, At, world, CtlInv, WorldInv
  <1>2. /\ call[c] \in Calls /\ CallSound(c, call[c]) /\ call[c].copy.pending # None
    BY <1>1, CallerIs DEF CallSound, PlaceSound
  <1>3. CASE Return(c)
    BY <1>1, <1>3, Returning
  <1>4. CASE Cursor(log) = call[c].copy.pending /\ Goto(c, Step(c, "clear")) /\ UNCHANGED current
    <2> PICK k : k = Step(c, "clear")
      OBVIOUS
    <2>1. k \in Calls /\ k.at = "clear" /\ k.copy = call[c].copy /\ k.end = call[c].end
          /\ k.then = call[c].then
      BY <1>2, StepIs DEF Labels
    <2>2. Logged(log, k.copy.pending)
      <3>1. log \in Seq(Events)
        BY DEF CtlInv, LogInv
      <3>2. log # << >> /\ log[Len(log)] = k.copy.pending
        BY <1>2, <1>4, <2>1 DEF Cursor
      <3> QED
        BY <3>1, <3>2 DEF Logged
    <2>3. CallSound(c, k)
      BY <1>1, <1>2, <2>1, <2>2
         DEF CallSound, CopySound, PlaceSound, InvokeSound, LeaseSound,
             Reconciling, Working, Works
    <2> QED
      BY <1>1, <1>4, <2>1, <2>3, Going
  <1> QED
    BY <1>1, <1>3, <1>4 DEF CheckAppended

\* What the acknowledgement writes, and where the call goes on.
LEMMA AcknowledgeSound ==
    ASSUME CtlInv, NEW c \in Callers, Acknowledge(c)
    PROVE  CtlInv' /\ Earned
  <1>1. /\ call[c].at = "clear"
        /\ Swap(c, Acknowledged(call[c].copy), Step(c, call[c].then))
        /\ log' = log /\ root' = root /\ opened' = opened /\ lease' = lease
        /\ writes' = writes /\ invoked' = invoked /\ WorldInv'
    BY DEF Acknowledge, At, disk, world, CtlInv, WorldInv
  <1>2. /\ call[c] \in Calls /\ CallSound(c, call[c]) /\ call[c].copy.pending # None
        /\ Logged(log, call[c].copy.pending) /\ call[c].then \in Thens
    BY <1>1, CallerIs DEF CallSound, PlaceSound, Reconciling
  <1> PICK n : n = Acknowledged(call[c].copy)
    OBVIOUS
  <1> PICK k : k = Step(c, call[c].then)
    OBVIOUS
  <1>3. k \in Calls /\ k.at = call[c].then /\ k.end = call[c].end
    BY <1>2, StepIs DEF Thens, Labels
  <1>4. ASSUME call[c].copy = row, row \in Rows, RowSound(row) PROVE Follows(c, n, k)
    <2>1. /\ n \in Rows
          /\ n.phase = row.phase /\ n.revision = row.revision /\ n.attempt = row.attempt
          /\ n.executor = row.executor /\ n.ledger = row.ledger
          /\ n.prepared = row.prepared /\ n.closed = row.closed /\ n.ws = row.ws
      BY <1>2, <1>4, AcknowledgedKeeps
    <2>2. WritesPlanned(n) /\ Explained(n)
      <3>1. WritesPlanned(row) /\ Explained(row)
        BY <1>4, NothingIsNone DEF RowSound, CtlInv, DiskInv
      <3> QED
        BY <2>1, <3>1 DEF WritesPlanned, Explained, Snapshot
    <2>3. RowFollows(n) /\ AdmissionFollows(n)
      BY <1>2, <1>4, <2>1, <2>2 DEF RowFollows, AdmissionFollows
    <2>4. k.at # "done" => PlaceFollows(c, n, k)
      BY <1>1, <1>2, <1>3, <1>4, <2>1
         DEF PlaceFollows, Thens, CallSound, PlaceSound, InvokeSound, LeaseSound,
             Reconciling, Working, Works, Leased
    <2> QED
      BY <2>3, <2>4 DEF Follows
  <1>5. lease' \in [Brokers -> Leases \union {NoLease}] /\ \A b \in Brokers : SameHold(b)
    BY <1>1 DEF CtlInv, LeaseInv, SameHold
  <1> QED
    BY <1>1, <1>3, <1>4, <1>5, Swapping

\* The two ways in which most actions end.
LEMMA Writing ==
    ASSUME CtlInv, NEW c \in Callers, NEW next, NEW k \in Calls,
           call[c].at \notin {"idle", "open", "install"},
           Swap(c, next, k),
           call[c].copy = row /\ row \in Rows /\ RowSound(row) => Follows(c, next, k),
           UNCHANGED <<log, disk>>, invoked' = invoked, WorldInv'
    PROVE  CtlInv' /\ Earned
  <1>1. log' = log /\ root' = root /\ opened' = opened /\ lease' = lease /\ writes' = writes
    BY DEF disk
  <1>2. lease' \in [Brokers -> Leases \union {NoLease}] /\ \A b \in Brokers : SameHold(b)
    BY <1>1 DEF CtlInv, LeaseInv, SameHold
  <1> QED
    BY <1>1, <1>2, Swapping

\* A call that is refused returns and leaves the row alone.
LEMMA Refusing ==
    ASSUME CtlInv, NEW c \in Callers, Return(c), UNCHANGED <<row, unmoved>>,
           UNCHANGED <<log, disk>>, invoked' = invoked, WorldInv'
    PROVE  CtlInv' /\ Earned
  BY Returning

-----------------------------------------------------------------------------
(* The actions: starting a drive, opening a workspace and claiming it.     *)

\* A call starts with a copy of the row, or with none when there is none.
LEMMA StartSound ==
    ASSUME CtlInv, NEW c \in Callers, NEW k \in Calls, call[c].at = "idle",
           Goto(c, k), current' = current \union {c},
           \/ k.at = "open" /\ k.copy = None /\ row = None /\ k.end = None
           \/ k.at = "look" /\ k.then \in {"resume", "request", "beat"} /\ k.end = None
              /\ k.copy = row /\ row # None,
           UNCHANGED <<row, log, disk, unmoved>>, invoked' = invoked, WorldInv'
    PROVE  CtlInv' /\ Earned
  <1>1. CallSound(c, k)
    <2>1. row # None => RowSound(row) /\ Before(row, row)
      BY RowCounts DEF CtlInv, RowInv, RowSound, Before
    <2> QED
      BY <2>1 DEF CallSound, CopySound, PlaceSound, InvokeSound, LeaseSound, Frozen,
                  Reconciling, Thens, Working, Works
  <1> QED
    BY <1>1, Quieting DEF Goto

\* A drive starts.
LEMMA StartDriveSound ==
    ASSUME CtlInv, NEW b \in Brokers, StartDrive(b)
    PROVE  CtlInv' /\ Earned
  <1>1. /\ call[b].at = "idle" /\ current' = current \union {b} /\ b \in Callers
        /\ Goto(b, IF row = None THEN [Idle EXCEPT !.at = "open"]
                   ELSE [Idle EXCEPT !.at = "look", !.then = "resume", !.copy = row])
        /\ UNCHANGED <<row, log, disk, unmoved>> /\ invoked' = invoked /\ WorldInv'
    BY DEF StartDrive, Free, At, Callers, world, CtlInv, WorldInv
  <1>2. row # None => row \in Rows
    BY DEF CtlInv, RowInv, RowSound
  <1>3. CASE row = None
    <2> PICK k : k = [Idle EXCEPT !.at = "open"]
      OBVIOUS
    <2>1. k \in Calls /\ k.at = "open" /\ k.copy = None /\ k.end = None
      BY DEF Idle, Calls, Labels
    <2> QED
      BY <1>1, <1>3, <2>1, StartSound
  <1>4. CASE row # None
    <2> PICK k : k = [Idle EXCEPT !.at = "look", !.then = "resume", !.copy = row]
      OBVIOUS
    <2>1. k \in Calls /\ k.at = "look" /\ k.then = "resume" /\ k.copy = row /\ k.end = None
      BY <1>2, <1>4 DEF Idle, Calls, Labels
    <2> QED
      BY <1>1, <1>4, <2>1, StartSound
  <1> QED
    BY <1>3, <1>4

\* A visitor starts.
LEMMA StartVisitSound ==
    ASSUME CtlInv, NEW v \in Visitors, StartVisit(v)
    PROVE  CtlInv' /\ Earned
  <1>1. PICK errand \in Errands :
          Goto(v, [Idle EXCEPT !.at = "look", !.then = errand, !.copy = row])
    BY DEF StartVisit
  <1>2. /\ call[v].at = "idle" /\ current' = current \union {v} /\ v \in Callers /\ row # None
        /\ UNCHANGED <<row, log, disk, unmoved>> /\ invoked' = invoked /\ WorldInv'
    BY DEF StartVisit, Free, At, Callers, world, CtlInv, WorldInv
  <1>3. row \in Rows
    BY <1>2 DEF CtlInv, RowInv, RowSound
  <1>4. errand \in {"request", "beat"}
    BY ErrandsAreKnown
  <1> PICK k : k = [Idle EXCEPT !.at = "look", !.then = errand, !.copy = row]
    OBVIOUS
  <1>5. k \in Calls /\ k.at = "look" /\ k.then = errand /\ k.copy = row /\ k.end = None
    BY <1>3, <1>4 DEF Idle, Calls, Labels
  <1> QED
    BY <1>1, <1>2, <1>4, <1>5, StartSound

\* A workspace that no row ever named.
LEMMA OpenLeaseSound ==
    ASSUME CtlInv, NEW b \in Brokers, OpenLease(b)
    PROVE  CtlInv' /\ Earned
  <1>1. /\ call[b].at = "open" /\ b \in Callers /\ row' = row /\ log' = log /\ writes' = writes
        /\ invoked' = invoked /\ WorldInv'
        /\ call[b] \in Calls /\ CallSound(b, call[b]) /\ Ends(call[b])
    BY CallerIs DEF OpenLease, At, Callers, world, CtlInv, WorldInv
  <1>2. CASE Return(b) /\ UNCHANGED <<opened, root, lease, unmoved>>
    BY <1>1, <1>2, Returning DEF disk
  <1>3. CASE /\ b \in current /\ opened < MaxOpens
             /\ opened' = opened + 1
             /\ root' = [root EXCEPT ![opened + 1] = "before"]
             /\ lease' = [lease EXCEPT ![b] = Opened(opened + 1)]
             /\ unmoved' = unmoved \union {b}
             /\ Goto(b, Step(b, "install"))
             /\ UNCHANGED current
    <2> PICK ws : ws = opened + 1
      OBVIOUS
    <2> PICK k : k = Step(b, "install")
      OBVIOUS
    <2>1. k \in Calls /\ k.at = "install" /\ k.copy = call[b].copy /\ k.end = call[b].end
          /\ k.then = call[b].then
      BY <1>1, StepIs DEF Labels
    <2>2. opened \in 0..MaxOpens /\ opened \in Nat /\ ws \in Workspaces /\ ws \in Nat /\ ws > opened
          /\ ws \in 1..ws
      BY <1>3, BoundsAreCounts DEF CtlInv, RowInv, Workspaces
    <2>3. call \in [Callers -> Calls] /\ root \in [Workspaces -> Roots]
          /\ lease \in [Brokers -> Leases \union {NoLease}]
      BY DEF CtlInv, CallInv, DiskInv, LeaseInv
    <2>4. row # None => row \in Rows /\ row.ws \in Nat /\ row.ws <= opened
      BY <2>2, RowCounts DEF CtlInv, RowInv, RowSound
    <2>5. Known \in 0..opened /\ Known' = Known
      BY <1>1, <2>2, <2>4 DEF Known, CtlInv, RowInv
    <2> PICK fresh : fresh = Opened(ws)
      OBVIOUS
    <2>6. fresh \in Leases /\ fresh # NoLease /\ fresh.ws = ws /\ fresh.epoch = 1 /\ fresh.opened
      <3>1. fresh \in Leases /\ fresh.ws = ws /\ fresh.epoch = 1 /\ fresh.opened
        BY <2>2 DEF Opened, Leases, LeaseStates
      <3>2. NoLease \notin Leases
        BY NothingIsNoValue
      <3> QED
        BY <3>1, <3>2
    <2>7. /\ lease' = [lease EXCEPT ![b] = fresh] /\ lease'[b] = fresh
          /\ \A d \in Brokers \ {b} : lease'[d] = lease[d]
          /\ call' = [call EXCEPT ![b] = k] /\ call'[b] = k
          /\ \A d \in Callers \ {b} : call'[d] = call[d]
          /\ root'[ws] = "before" /\ \A w \in Workspaces \ {ws} : root'[w] = root[w]
      BY <1>1, <1>3, <2>2, <2>3 DEF Goto
    <2>8. \A d \in Brokers : lease[d] # NoLease => lease[d].ws \in 1..opened
      BY DEF CtlInv, LeaseInv
    <2>9. \A d \in Callers : call[d].copy # None =>
            row # None /\ call[d].copy.ws \in Nat /\ call[d].copy.ws <= opened
      <3> SUFFICES ASSUME NEW d \in Callers, call[d].copy # None
                   PROVE  row # None /\ call[d].copy.ws \in Nat /\ call[d].copy.ws <= opened
        OBVIOUS
      <3>1. row # None /\ call[d].copy \in Rows /\ call[d].copy.ws <= row.ws
        BY CallerIs DEF CallSound, CopySound, Before, RowSound
      <3> QED
        BY <2>2, <2>4, <3>1, RowCounts
    <2>10. \A d \in Callers : CallSound(d, call[d])'
      <3> SUFFICES ASSUME NEW d \in Callers PROVE CallSound(d, call[d])'
        OBVIOUS
      <3> PICK e : e = call'[d]
        OBVIOUS
      <3>1. CASE d = b
        <4>1. e = k
          BY <2>7, <3>1
        <4> QED
          BY <1>1, <2>1, <2>6, <2>7, <3>1, <4>1
             DEF CallSound, CopySound, PlaceSound, InvokeSound, LeaseSound, Frozen, Logged,
                 Reconciling, Working, Works
      <3>2. CASE d # b
        <4>1. e = call[d] /\ CallSound(d, e) /\ e \in Calls
          BY <2>7, <3>2, CallerIs
        <4>2. CopySound(call[d])' /\ PlaceSound(call[d])' /\ InvokeSound(call[d])'
          BY <1>1, <4>1 DEF CallSound, CopySound, PlaceSound, InvokeSound, Frozen, Logged
        <4>3. ASSUME d \in Brokers PROVE LeaseSound(d, call[d])'
          <5>1. LeaseSound(d, e) /\ lease'[d] = lease[d]
            BY <2>7, <3>2, <4>1, <4>3 DEF CallSound
          <5>2. e.at = "recover" => e.copy # None /\ e.copy.ws <= opened /\ e.copy.ws \in Nat
            BY <2>9, <4>1 DEF CallSound, CopySound
          <5>3. e.at = "recover" => \A f \in Brokers : lease'[f] # NoLease
                  /\ lease'[f].ws = e.copy.ws => lease'[f].epoch # e.copy.epoch
            BY <2>2, <2>6, <2>7, <5>1, <5>2 DEF LeaseSound, Leased
          <5>4. e.at = "closeRow" => root'[e.copy.ws] = "absent"
            <6>1. e.at = "closeRow" =>
                    /\ root[e.copy.ws] = "absent" /\ lease[d] # NoLease
                    /\ lease[d].ws = e.copy.ws
              BY <5>1 DEF LeaseSound, Leased, Working, Works
            <6>2. e.at = "closeRow" => e.copy.ws \in Workspaces \ {ws}
              BY <2>2, <2>8, <4>3, <6>1, BoundsAreCounts DEF Workspaces
            <6> QED
              BY <2>7, <6>1, <6>2
          <5>5. row # None => root'[row.ws] # "after" \/ root'[row.ws] = root[row.ws]
            <6>1. row # None => row.ws \in Workspaces
              BY BoundsAreCounts DEF CtlInv, RowInv, Workspaces
            <6> QED
              BY <2>7, <6>1
          <5> QED
            BY <1>1, <5>1, <5>3, <5>4, <5>5
               DEF LeaseSound, Leased, Working, Unwritten, WriteDue, Current
        <4> QED
          BY <4>2, <4>3 DEF CallSound
      <3> QED
        BY <3>1, <3>2
    <2>11. CallInv'
      <3>1. call' \in [Callers -> Calls]
        BY <2>1, <2>3, <2>7
      <3>2. \A d \in Callers : call'[d].at \in {"calling", "recover"} => call'[d] = call[d]
        BY <2>1, <2>7
      <3> QED
        BY <2>10, <3>1, <3>2 DEF CtlInv, CallInv, At
    <2>12. CurrentInv'
      BY <1>1, <1>3, <2>1, <2>7 DEF CtlInv, CurrentInv, At
    <2>13. RowInv'
      BY <1>1, <1>3, <2>2, <2>4, BoundsAreCounts DEF CtlInv, RowInv
    <2>14. InvokedInv' /\ LogInv'
      BY <1>1 DEF CtlInv, InvokedInv, LogInv, Acknowledgements
    <2>15. LeaseInv'
      <3>1. lease' \in [Brokers -> Leases \union {NoLease}]
        BY <2>3, <2>6, <2>7
      <3>2. \A d \in Brokers : lease'[d] # NoLease =>
              /\ lease'[d].ws \in 1..opened'
              /\ lease'[d].ws = Known => lease'[d].epoch <= row.epoch
              /\ lease'[d].ws > Known => lease'[d].epoch = 1
        <4> SUFFICES ASSUME NEW d \in Brokers, lease'[d] # NoLease
              PROVE  /\ lease'[d].ws \in 1..opened'
                     /\ lease'[d].ws = Known => lease'[d].epoch <= row.epoch
                     /\ lease'[d].ws > Known => lease'[d].epoch = 1
          OBVIOUS
        <4>1. CASE d = b
          BY <1>3, <2>2, <2>5, <2>6, <2>7, <4>1
        <4>2. CASE d # b
          BY <1>3, <2>2, <2>7, <2>8, <4>2 DEF CtlInv, LeaseInv
        <4> QED
          BY <4>1, <4>2
      <3>3. \A d \in unmoved' : lease'[d] # NoLease /\ lease'[d].opened /\ lease'[d].ws > Known
        BY <1>3, <2>2, <2>5, <2>6, <2>7 DEF CtlInv, LeaseInv
      <3>4. \A d, e \in Brokers :
              d # e /\ lease'[d] # NoLease /\ lease'[e] # NoLease
              /\ lease'[d].ws = lease'[e].ws => lease'[d].epoch # lease'[e].epoch
        BY <2>2, <2>6, <2>7, <2>8 DEF CtlInv, LeaseInv
      <3>5. unmoved' \subseteq Brokers
        BY <1>3 DEF CtlInv, LeaseInv
      <3> QED
        BY <1>1, <2>5, <3>1, <3>2, <3>3, <3>4, <3>5 DEF LeaseInv
    <2>16. DiskInv'
      <3>1. root' \in [Workspaces -> Roots]
        BY <1>3, <2>3 DEF Roots, Contents
      <3>2. writes[ws] # 1
        BY <2>2, <2>5 DEF CtlInv, DiskInv
      <3>3. row # None => row.ws \in Workspaces \ {ws}
        BY <2>2, <2>4, BoundsAreCounts DEF CtlInv, RowInv, Workspaces
      <3>4. row' # None => Explained(row)'
        BY <1>1, <2>7, <3>3 DEF CtlInv, DiskInv, Explained
      <3> QED
        BY <1>1, <2>5, <2>7, <3>1, <3>2, <3>4 DEF CtlInv, DiskInv
    <2>17. Earned
      BY <1>1 DEF Earned
    <2> QED
      BY <1>1, <2>11, <2>12, <2>13, <2>14, <2>15, <2>16, <2>17 DEF CtlInv
  <1> QED
    BY <1>2, <1>3 DEF OpenLease

\* Closing a lease removes its root, if anything.
LEMMA CloseOwnedRemoves ==
    ASSUME CtlInv, NEW b \in Brokers, CloseOwned(b)
    PROVE  /\ root' \in [Workspaces -> Roots]
           /\ \A w \in Workspaces : root'[w] = root[w] \/ root'[w] = "absent"
           /\ lease' \in [Brokers -> Leases \union {NoLease}]
           /\ \A d \in Brokers : SameHold(d)
           /\ CanClose(row, lease[b], b \in unmoved) =>
                lease[b] # NoLease /\ root'[lease[b].ws] = "absent"
  <1>1. root \in [Workspaces -> Roots] /\ lease \in [Brokers -> Leases \union {NoLease}]
    BY DEF CtlInv, DiskInv, LeaseInv
  <1>2. CASE CanClose(row, lease[b], b \in unmoved)
    <2> PICK gone : gone = Closed(lease[b])
      OBVIOUS
    <2>1. lease[b] # NoLease /\ lease[b] \in Leases
      BY <1>1, <1>2 DEF CanClose, Active
    <2>2. lease[b].ws \in Workspaces
      BY <2>1, BoundsAreCounts DEF CtlInv, LeaseInv, RowInv, Workspaces
    <2>3. gone \in Leases /\ gone.ws = lease[b].ws /\ gone.epoch = lease[b].epoch
          /\ gone.opened = lease[b].opened
      BY <2>1 DEF Closed, Leases, LeaseStates
    <2>4. gone # NoLease
      BY <2>3, NothingIsNoValue
    <2>5. root' = [root EXCEPT ![lease[b].ws] = "absent"] /\ lease' = [lease EXCEPT ![b] = gone]
      BY <1>2 DEF CloseOwned
    <2>6. lease' \in [Brokers -> Leases \union {NoLease}] /\ \A d \in Brokers : SameHold(d)
      BY <1>1, <2>1, <2>3, <2>4, <2>5 DEF SameHold
    <2>7. root' \in [Workspaces -> Roots]
      BY <1>1, <2>5 DEF Roots
    <2> QED
      BY <1>1, <2>1, <2>2, <2>5, <2>6, <2>7
  <1>3. CASE ~CanClose(row, lease[b], b \in unmoved)
    BY <1>1, <1>3 DEF CloseOwned, SameHold
  <1> QED
    BY <1>2, <1>3

\* A return that gives a lease up.
LEMMA Releasing ==
    ASSUME CtlInv, NEW b \in Brokers, Return(b), CloseOwned(b),
           UNCHANGED <<row, log, opened, writes, unmoved>>, invoked' = invoked, WorldInv'
    PROVE  CtlInv' /\ Earned
  <1>1. /\ call' = [call EXCEPT ![b] = Idle] /\ current' = current \ {b} /\ b \in Callers
        /\ call \in [Callers -> Calls] /\ current \subseteq Callers
    BY DEF Return, Goto, CtlInv, CallInv, CurrentInv, Callers
  <1>2. call' \in [Callers -> Calls] /\ \A c \in Callers : Moves(c)
    BY <1>1, IdleIsSound DEF Moves
  <1> QED
    BY <1>1, <1>2, CloseOwnedRemoves, Shrinking DEF Shrinks

\* A lease that no row will name is given up.
LEMMA GiveUpSound ==
    ASSUME CtlInv, NEW b \in Brokers, GiveUp(b)
    PROVE  CtlInv' /\ Earned
  BY Releasing DEF GiveUp, world, CtlInv, WorldInv

\* Rows before their first phase, and rows whose attempt is reset.
Unclaimed == [phase : {"Planned"}, revision : Nat, attempt : 1..MaxAttempts,
         executor : ExecutorStates, ledger : Seq(Resolutions),
         prepared : BOOLEAN, result : BOOLEAN, cancelled : BOOLEAN,
         pending : Events \union {None}, projected : Events \union {None},
         stamped : BOOLEAN, verifier : VerifierStates,
         ws : Nat, epoch : Nat, cleanup : BOOLEAN, closed : BOOLEAN]

\* An unclaimed row that got its first phase is a row.
LEMMA ClaimedRow ==
    ASSUME NEW p \in Unclaimed, NEW phase \in Phases, NEW revision \in Nat, NEW e \in Events
    PROVE  [p EXCEPT !.phase = phase, !.revision = revision, !.stamped = TRUE, !.pending = e]
             \in Rows
  BY DEF Unclaimed, Rows

\* A row is one with another attempt's call.
LEMMA ResetCall ==
    ASSUME NEW r \in Rows, NEW a \in 1..MaxAttempts, NEW x \in ExecutorStates,
           NEW l \in Seq(Resolutions)
    PROVE  [r EXCEPT !.attempt = a, !.executor = x, !.ledger = l] \in Rows
  BY DEF Rows

\* A row is one without its result.
LEMMA ResetResult ==
    ASSUME NEW r \in Rows, NEW v \in VerifierStates
    PROVE  [r EXCEPT !.prepared = FALSE, !.result = FALSE, !.verifier = v] \in Rows
  BY DEF Rows

\* A row is one with another workspace.
LEMMA ResetWorkspace ==
    ASSUME NEW r \in Rows, NEW ws \in Nat
    PROVE  [r EXCEPT !.ws = ws, !.epoch = 1, !.cleanup = FALSE, !.closed = FALSE] \in Rows
  BY DEF Rows

\* The state that a first claim stores.
LEMMA FirstClaim ==
    ASSUME NEW ws \in Nat, NEW n, n = Moved(Planned(ws, None), "Engineering", "ClaimAccepted")
    PROVE  /\ n \in Rows /\ n.phase = "Engineering" /\ n.revision = 1 /\ n.attempt = 1
           /\ n.executor = "NotStarted" /\ n.ledger = << >> /\ ~n.prepared /\ ~n.closed
           /\ n.ws = ws /\ n.epoch = 1 /\ n.projected = None
           /\ n.pending \in Events /\ n.pending # None /\ n.pending.revision = 1
  <1>0. PICK e : e = [from |-> "Planned", to |-> "Engineering", trigger |-> "ClaimAccepted",
                    revision |-> 1, attempt |-> 1, seq |-> 0]
    OBVIOUS
  <1>1. e \in Events /\ e.revision = 1
    BY <1>0, AttemptsAreCounted DEF Events, Phases, Terminal, Triggers
  <1> PICK p : p = Planned(ws, None)
    OBVIOUS
  <1> PICK empty : empty = << >>
    OBVIOUS
  <1>2. p \in Unclaimed
    <2>1. empty \in Seq(Resolutions) /\ 1 \in 1..MaxAttempts
          /\ "NotStarted" \in ExecutorStates /\ "None" \in VerifierStates
      BY AttemptsAreCounted DEF ExecutorStates, VerifierStates
    <2> QED
      BY <2>1 DEF Planned, Unclaimed
  <1>3. n \in Rows /\ n.phase = "Engineering" /\ n.revision = 1 /\ n.attempt = 1
        /\ n.executor = "NotStarted" /\ n.ledger = << >> /\ ~n.prepared /\ ~n.closed
        /\ n.ws = ws /\ n.epoch = 1 /\ n.projected = None /\ n.pending = e
    <2>1. /\ p.phase = "Planned" /\ p.revision = 0 /\ p.attempt = 1 /\ p.projected = None
          /\ p.executor = "NotStarted" /\ p.ledger = << >> /\ ~p.prepared /\ ~p.closed
          /\ p.ws = ws /\ p.epoch = 1
      BY DEF Planned
    <2>2. n = [p EXCEPT !.phase = "Engineering", !.revision = 1, !.stamped = TRUE,
                        !.pending = e]
      BY <1>0, <2>1 DEF Moved
    <2>3. n \in Rows
      <3>1. "Engineering" \in Phases
        BY DEF Phases
      <3>2. [p EXCEPT !.phase = "Engineering", !.revision = 1, !.stamped = TRUE,
                      !.pending = e] \in Rows
        BY <1>1, <1>2, <3>1, 1 \in Nat, ClaimedRow, Zenon
      <3> QED
        BY <2>2, <3>2
    <2>4. /\ n.phase = "Engineering" /\ n.revision = 1 /\ n.pending = e
          /\ n.attempt = p.attempt /\ n.executor = p.executor /\ n.ledger = p.ledger
          /\ n.prepared = p.prepared /\ n.closed = p.closed /\ n.ws = p.ws
          /\ n.epoch = p.epoch /\ n.projected = p.projected
      BY <1>2, <2>2 DEF Unclaimed
    <2> QED
      BY <2>1, <2>3, <2>4
  <1>4. e # None
    BY <1>1, NothingIsNone
  <1> QED
    BY <1>1, <1>2, <1>3, <1>4

\* The state that claims a retry, when the budget allows it.
LEMMA RetryClaim ==
    ASSUME NEW r \in Rows, NEW ws \in Nat,
           NEW n, n = Moved(Retried(r, ws), "Engineering", "RetryClaimAccepted"),
           n.attempt <= MaxAttempts
    PROVE  /\ n \in Rows /\ n.phase = "Engineering"
           /\ n.attempt = r.attempt + 1
           /\ n.executor = "NotStarted" /\ n.ledger = << >> /\ ~n.prepared /\ ~n.closed
           /\ n.ws = ws /\ n.epoch = 1 /\ n.projected = r.projected
           /\ n.pending \in Events /\ n.pending # None
  <1> PICK next : next = r.attempt + 1
    OBVIOUS
  <1> PICK empty : empty = << >>
    OBVIOUS
  <1> PICK s : s = Retried(r, ws)
    OBVIOUS
  <1>1. s = [r EXCEPT !.attempt = next, !.executor = "NotStarted", !.ledger = empty,
                      !.prepared = FALSE, !.result = FALSE, !.verifier = "None",
                      !.ws = ws, !.epoch = 1, !.cleanup = FALSE, !.closed = FALSE]
    BY DEF Retried
  <1>2. /\ s.attempt = next /\ s.executor = "NotStarted" /\ s.ledger = empty
        /\ ~s.prepared /\ ~s.closed /\ s.ws = ws /\ s.epoch = 1
        /\ s.projected = r.projected
    BY <1>1 DEF Rows
  <1>3. n.attempt = s.attempt
    BY <1>1 DEF Moved, Rows
  <1>4. next \in 1..MaxAttempts
    BY <1>2, <1>3, RowCounts, AttemptsAreCounted
  <1>5. s \in Rows
    <2>1. empty \in Seq(Resolutions) /\ "NotStarted" \in ExecutorStates
          /\ "None" \in VerifierStates
      BY DEF ExecutorStates, VerifierStates
    <2>2. [r EXCEPT !.attempt = next, !.executor = "NotStarted", !.ledger = empty] \in Rows
      BY <1>4, <2>1, ResetCall
    <2>3. [[r EXCEPT !.attempt = next, !.executor = "NotStarted", !.ledger = empty]
             EXCEPT !.prepared = FALSE, !.result = FALSE, !.verifier = "None"] \in Rows
      BY <2>1, <2>2, ResetResult
    <2>4. [[[r EXCEPT !.attempt = next, !.executor = "NotStarted", !.ledger = empty]
             EXCEPT !.prepared = FALSE, !.result = FALSE, !.verifier = "None"]
             EXCEPT !.ws = ws, !.epoch = 1, !.cleanup = FALSE, !.closed = FALSE] \in Rows
      BY <2>3, ResetWorkspace
    <2> QED
      BY <1>1, <2>4
  <1> PICK m : m = Moved(s, "Engineering", "RetryClaimAccepted")
    OBVIOUS
  <1>6. m \in Rows /\ Plain(s, m) /\ m.phase = "Engineering" /\ m.executor = s.executor
    <2>1. "Engineering" \in Phases /\ "RetryClaimAccepted" \in Triggers
      BY DEF Phases, Triggers
    <2> QED
      BY <1>5, <2>1, MovedIs
  <1>7. m.projected = s.projected /\ m.epoch = s.epoch /\ m.pending # None
    <2>1. m.projected = s.projected /\ m.epoch = s.epoch
      BY <1>5 DEF Moved, Rows
    <2>2. [from |-> s.phase, to |-> "Engineering", trigger |-> "RetryClaimAccepted",
           revision |-> s.revision + 1, attempt |-> s.attempt,
           seq |-> IF s.projected = None THEN 0 ELSE s.projected.seq + 1] \in Events
      BY <1>5, SMTT(60) DEF Rows, Events, Phases, Triggers
    <2>3. m.pending = [from |-> s.phase, to |-> "Engineering", trigger |-> "RetryClaimAccepted",
             revision |-> s.revision + 1, attempt |-> s.attempt,
             seq |-> IF s.projected = None THEN 0 ELSE s.projected.seq + 1]
      BY <1>5 DEF Moved, Rows
    <2> QED
      BY <2>1, <2>2, <2>3, NothingIsNone
  <1>8. m.pending \in Events
    BY <1>6, <1>7, RowCounts
  <1>9. n = m
    OBVIOUS
  <1> QED
    BY <1>2, <1>6, <1>7, <1>8, <1>9 DEF Plain

\* The row that a claim stores: a workspace that is new to the row, in an
\* attempt that is new to the run.
LEMMA ClaimIs ==
    ASSUME CtlInv, NEW b \in Brokers, call[b].at = "install", b \in current,
           Claimed(b).projected = Cursor(log), Accepts(row, Claimed(b)),
           NEW n, n = Claimed(b)
    PROVE  /\ RowSound(n) /\ n.phase = "Engineering"
           /\ n.executor = "NotStarted" /\ n.ledger = << >> /\ ~n.prepared /\ ~n.closed
           /\ lease[b] # NoLease /\ n.ws = lease[b].ws /\ n.ws > Known /\ n.epoch = 1
           /\ n.ws \in 1..opened
           /\ n.pending \in Events /\ n.pending # None
           /\ row = None => n.projected = None
           /\ row # None => n.attempt = row.attempt + 1 /\ row.revision <= n.revision
                            /\ row.pending = None
  <1>1. /\ call[b] \in Calls /\ CallSound(b, call[b]) /\ call[b].copy = row
        /\ b \in unmoved /\ b \in Callers
    BY CallerIs DEF CtlInv, CurrentInv, At, Callers
  <1>2. /\ lease[b] # NoLease /\ lease[b].ws > Known /\ lease[b].ws \in 1..opened
        /\ lease[b].ws \in Nat
    BY <1>1 DEF CtlInv, LeaseInv, Leases
  <1> PICK ws : ws = lease[b].ws
    OBVIOUS
  <1>3. CASE row = None
    <2>1. log = << >>
      BY <1>3 DEF CtlInv, LogInv
    <2>2. n = Moved(Planned(ws, None), "Engineering", "ClaimAccepted")
      BY <1>1, <1>3, <2>1 DEF Claimed, Cursor
    <2>3. /\ n \in Rows /\ n.phase = "Engineering" /\ n.revision = 1 /\ n.attempt = 1
          /\ n.executor = "NotStarted" /\ n.ledger = << >> /\ ~n.prepared /\ ~n.closed
          /\ n.ws = ws /\ n.epoch = 1 /\ n.projected = None
          /\ n.pending \in Events /\ n.pending # None /\ n.pending.revision = 1
      BY <1>2, <2>2, FirstClaim
    <2>4. Valid(n)
      BY DEF Accepts
    <2>5. RowSound(n)
      BY <2>3, <2>4 DEF RowSound, WritesPlanned, EventNext, LogKnown
    <2> QED
      BY <1>2, <1>3, <2>3, <2>5
  <1>4. CASE row # None
    <2>1. row \in Rows /\ RowSound(row)
      BY <1>4 DEF CtlInv, RowInv, RowSound
    <2>2. n = Moved(Retried(row, ws), "Engineering", "RetryClaimAccepted")
      BY <1>1, <1>4 DEF Claimed
    <2>3. Valid(n) /\ n.attempt <= MaxAttempts
      BY DEF Accepts, Valid
    <2>4. /\ n \in Rows /\ n.phase = "Engineering" /\ n.attempt = row.attempt + 1
          /\ n.executor = "NotStarted" /\ n.ledger = << >> /\ ~n.prepared /\ ~n.closed
          /\ n.ws = ws /\ n.epoch = 1 /\ n.projected = row.projected
          /\ n.pending \in Events /\ n.pending # None
      BY <1>2, <2>1, <2>2, <2>3, RetryClaim
    <2>5. EventNext(n) /\ row.revision <= n.revision /\ row.pending = None
      BY <2>1, <2>4, AcceptedEvents, AcceptedProgress
    <2>6. RowSound(n)
      BY <2>3, <2>4, <2>5 DEF RowSound, WritesPlanned
    <2> QED
      BY <1>2, <1>4, <2>4, <2>5, <2>6
  <1> QED
    BY <1>3, <1>4

\* A claim that is stored.
LEMMA ClaimSound ==
    ASSUME CtlInv, NEW b \in Brokers, call[b].at = "install",
           Claimed(b).projected = Cursor(log), Wins(b, Claimed(b)),
           Store(b, Claimed(b), [Step(b, "look") EXCEPT !.then = "invoke"]),
           UNCHANGED <<log, disk>>, invoked' = invoked, WorldInv'
    PROVE  CtlInv' /\ Earned
  <1>0. PICK n : n = Claimed(b)
    OBVIOUS
  <1>1. b \in current /\ Accepts(row, n)
    BY <1>0 DEF Wins
  <1>2. /\ RowSound(n) /\ n.phase = "Engineering"
        /\ n.executor = "NotStarted" /\ n.ledger = << >> /\ ~n.prepared /\ ~n.closed
        /\ lease[b] # NoLease /\ n.ws = lease[b].ws /\ n.ws > Known /\ n.epoch = 1
        /\ n.ws \in 1..opened
        /\ n.pending \in Events /\ n.pending # None
        /\ row = None => n.projected = None
        /\ row # None => n.attempt = row.attempt + 1 /\ row.revision <= n.revision
                         /\ row.pending = None
    BY <1>0, <1>1, ClaimIs
  <1>3. n \in Rows /\ n # None
    BY <1>2, NothingIsNone DEF RowSound
  <1>4. /\ call[b] \in Calls /\ CallSound(b, call[b]) /\ Ends(call[b]) /\ b \in Callers
        /\ call \in [Callers -> Calls]
    BY CallerIs DEF CtlInv, CallInv, Callers
  <1>5. row' = n /\ current' = {b} /\ unmoved' = {} /\ log' = log /\ root' = root
        /\ opened' = opened /\ lease' = lease /\ writes' = writes
    BY <1>0 DEF Store, disk
  <1> PICK s : s = Step(b, "look")
    OBVIOUS
  <1>6. s \in Calls /\ s.at = "look" /\ s.end = call[b].end /\ s.got = call[b].got
    BY <1>4, StepIs DEF Labels
  <1>7. PICK e : e = [s EXCEPT !.then = "invoke", !.copy = n]
    OBVIOUS
  <1>8. e \in Calls /\ e.at = "look" /\ e.then = "invoke" /\ e.copy = n /\ e.end = call[b].end
    BY <1>3, <1>6, <1>7 DEF Calls, Labels
  <1>9. call' = [call EXCEPT ![b] = e] /\ call'[b] = e
        /\ \A d \in Callers \ {b} : call'[d] = call[d]
    <2>1. [s EXCEPT !.then = "invoke"].at = "look"
      BY <1>6 DEF Calls
    <2> QED
      BY <1>0, <1>4, <1>7, <2>1 DEF Store, Goto
  <1>10. row # None => row \in Rows /\ Known = row.ws
    BY DEF CtlInv, RowInv, RowSound, Known
  <1>11. Known' = n.ws /\ Known \in Nat /\ n.ws \in Nat /\ n.ws \in Workspaces
    BY <1>2, <1>3, <1>5, <1>10, RowCounts, BoundsAreCounts
       DEF Known, CtlInv, RowInv, Workspaces
  <1>12. root[n.ws] # "after"
    <2>1. writes[n.ws] # 1
      BY <1>2, <1>11 DEF CtlInv, DiskInv
    <2> QED
      BY <1>11, <2>1 DEF CtlInv, DiskInv
  <1>13. \A d \in Callers : CallSound(d, call[d])'
    <2> SUFFICES ASSUME NEW d \in Callers PROVE CallSound(d, call[d])'
      OBVIOUS
    <2> PICK k : k = call'[d]
      OBVIOUS
    <2>1. CASE d = b
      <3>1. k = e
        BY <1>9, <2>1
      <3>2. Before(n, n)
        BY <1>3, RowCounts DEF Before
      <3> QED
        BY <1>2, <1>3, <1>4, <1>5, <1>8, <2>1, <3>1, <3>2
           DEF CallSound, CopySound, PlaceSound, InvokeSound, LeaseSound, Frozen, Leased,
               Reconciling, Thens, Working, Works, Ends
    <2>2. CASE d # b
      <3>1. k = call[d] /\ CallSound(d, k) /\ k \in Calls
        BY <1>9, <2>2, CallerIs
      <3>2. k.copy # None =>
              /\ row # None /\ k.copy \in Rows /\ RowSound(k.copy) /\ Before(k.copy, row)
              /\ k.copy.attempt < n.attempt /\ k.copy.ws < n.ws
        <4> SUFFICES ASSUME k.copy # None
                     PROVE /\ row # None /\ k.copy \in Rows /\ RowSound(k.copy)
                           /\ Before(k.copy, row)
                           /\ k.copy.attempt < n.attempt /\ k.copy.ws < n.ws
          OBVIOUS
        <4>1. row # None /\ RowSound(k.copy) /\ Before(k.copy, row) /\ k.copy \in Rows
          BY <3>1 DEF CallSound, CopySound, RowSound
        <4>2. k.copy.attempt \in Nat /\ k.copy.ws \in Nat /\ row.attempt \in Nat
          BY <1>10, <4>1, RowCounts
        <4> QED
          BY <1>2, <1>10, <1>11, <4>1, <4>2 DEF Before
      <3>3. CopySound(call[d])'
        <4>1. k.copy # None => Before(k.copy, n)
          <5> SUFFICES ASSUME k.copy # None PROVE Before(k.copy, n)
            OBVIOUS
          <5>1. k.copy.revision <= row.revision /\ row.revision <= n.revision
                /\ k.copy.revision \in Nat /\ row.revision \in Nat /\ n.revision \in Nat
            BY <1>2, <1>3, <1>10, <3>2, RowCounts DEF Before
          <5>2. k.copy.attempt \in Nat /\ n.attempt \in Nat /\ k.copy.ws \in Nat
            BY <1>3, <3>2, RowCounts
          <5> QED
            BY <1>11, <3>2, <5>1, <5>2 DEF Before
        <4>2. k.copy # None /\ k.copy.pending # None => Logged(log, k.copy.pending)
          BY <1>2, <3>1, <3>2 DEF CallSound, CopySound, Frozen
        <4> QED
          BY <1>3, <1>5, <3>1, <3>2, <4>1, <4>2 DEF CallSound, CopySound, Frozen, Logged
      <3>4. PlaceSound(call[d])' /\ InvokeSound(call[d])'
        <4>1. k.at = "calling" => k.copy.attempt # n.attempt
          <5>1. k.at = "calling" => k.copy # None
            BY <3>1 DEF CallSound, CopySound
          <5>2. k.copy # None => k.copy.attempt \in Nat /\ n.attempt \in Nat
            BY <1>3, <3>2, RowCounts
          <5> QED
            BY <3>2, <5>1, <5>2
        <4> QED
          BY <1>5, <3>1, <4>1 DEF CallSound, PlaceSound, InvokeSound, Logged
      <3>5. d \in Brokers => LeaseSound(d, call[d])'
        BY <1>5, <1>12, <3>1
           DEF CallSound, LeaseSound, Leased, Working, Unwritten, WriteDue, Current
      <3> QED
        BY <3>3, <3>4, <3>5 DEF CallSound
    <2> QED
      BY <2>1, <2>2
  <1>14. CallInv'
    <2>1. call' \in [Callers -> Calls]
      BY <1>4, <1>8, <1>9
    <2>2. \A d \in Callers : call'[d].at \in {"calling", "recover"} => call'[d] = call[d]
      BY <1>8, <1>9
    <2> QED
      BY <1>13, <2>1, <2>2 DEF CtlInv, CallInv, At
  <1>15. CurrentInv'
    BY <1>4, <1>5, <1>8, <1>9 DEF CurrentInv, At
  <1>16. RowInv'
    BY <1>2, <1>5 DEF CtlInv, RowInv
  <1>17. InvokedInv'
    BY <1>2, <1>3, <1>5, <1>10, RowCounts DEF CtlInv, InvokedInv
  <1>18. LogInv'
    <2>1. CASE row = None
      <3>1. log = << >> /\ n.projected = None
        BY <1>2, <2>1 DEF CtlInv, LogInv
      <3>2. Acknowledgements' = 0
        BY <1>3, <1>5, <3>1 DEF Acknowledgements
      <3> QED
        BY <1>3, <1>5, <3>1, <3>2 DEF CtlInv, LogInv
    <2>2. CASE row # None
      BY <1>1, <1>2, <1>3, <1>5, <2>2, LogStays
    <2> QED
      BY <2>1, <2>2
  <1>19. LeaseInv'
    <2>1. \A d \in Brokers : lease[d] # NoLease => lease[d].ws \in Nat
      BY DEF CtlInv, LeaseInv, Leases
    <2> QED
      BY <1>2, <1>5, <1>11, <2>1 DEF CtlInv, LeaseInv
  <1>20. DiskInv'
    <2>1. Snapshot(n) = "before"
      BY <1>2 DEF Snapshot
    <2>2. Explained(row)'
      BY <1>2, <1>5, <1>12, <2>1 DEF Explained
    <2> QED
      BY <1>2, <1>5, <1>11, <2>2 DEF CtlInv, DiskInv, Workspaces
  <1>21. Earned
    <2>1. row # None => row.phase \notin Terminal
      <3>1. row # None => row \in Rows /\ RowSound(row)
        BY DEF CtlInv, RowInv, RowSound
      <3>2. row # None /\ row.phase \in Terminal => n.phase = row.phase
        BY <1>1, <1>3, <3>1, AcceptedProgress
      <3> QED
        BY <1>2, <3>2 DEF Terminal
    <2> QED
      BY <1>2, <1>5, <2>1 DEF Earned
  <1> QED
    BY <1>14, <1>15, <1>16, <1>17, <1>18, <1>19, <1>20, <1>21 DEF CtlInv

\* A claim is stored, or its lease is given up.
LEMMA InstallSound ==
    ASSUME CtlInv, NEW b \in Brokers, Install(b)
    PROVE  CtlInv' /\ Earned
  <1>1. /\ call[b].at = "install" /\ log' = log /\ opened' = opened /\ writes' = writes
        /\ bank' = bank /\ expired' = expired /\ invoked' = invoked
    BY DEF Install, At, world
  <1>2. CASE /\ Claimed(b).projected = Cursor(log) /\ Wins(b, Claimed(b))
             /\ Store(b, Claimed(b), [Step(b, "look") EXCEPT !.then = "invoke"])
             /\ holder' = b /\ UNCHANGED <<root, lease>>
    <2>1. WorldInv'
      BY <1>1, <1>2 DEF CtlInv, WorldInv
    <2>2. UNCHANGED <<log, disk>>
      BY <1>1, <1>2 DEF disk
    <2> QED
      BY <1>1, <1>2, <2>1, <2>2, ClaimSound
  <1>3. CASE CloseOwned(b) /\ Return(b) /\ UNCHANGED <<row, unmoved, holder>>
    <2>1. WorldInv'
      BY <1>1, <1>3 DEF CtlInv, WorldInv
    <2> QED
      BY <1>1, <1>3, <2>1, Releasing
  <1> QED
    BY <1>2, <1>3 DEF Install

-----------------------------------------------------------------------------
(* The actions: resuming a stored run.                                     *)

\* A row whose workspace is gone is closed.
LEMMA ClosedFollows ==
    ASSUME CtlInv, row \in Rows, RowSound(row), root[row.ws] = "absent",
           NEW n, n = [row EXCEPT !.closed = TRUE, !.cleanup = FALSE]
    PROVE  RowFollows(n) /\ AdmissionFollows(n) /\ n.ws = row.ws /\ n.executor = row.executor
           /\ n.epoch = row.epoch
  <1>1. /\ n \in Rows /\ n.ws = row.ws /\ n.attempt = row.attempt /\ n.ledger = row.ledger
        /\ n.pending = row.pending /\ n.phase = row.phase /\ n.executor = row.executor
        /\ n.epoch = row.epoch /\ n.prepared = row.prepared
    BY DEF Rows
  <1>2. Explained(row)
    BY NothingIsNone DEF CtlInv, DiskInv
  <1>3. WritesPlanned(n) /\ Explained(n)
    BY <1>1, <1>2 DEF RowSound, WritesPlanned, Explained, Snapshot
  <1> QED
    BY <1>1, <1>3 DEF RowFollows, AdmissionFollows

\* What is over is returned as it is.
LEMMA ReturnStoredSound ==
    ASSUME CtlInv, NEW b \in Brokers, ReturnStored(b)
    PROVE  CtlInv' /\ Earned
  BY Returning DEF ReturnStored, world, CtlInv, WorldInv, Callers

\* A run that ended is closed when its workspace is gone already.
LEMMA CloseAbsentRootSound ==
    ASSUME CtlInv, NEW b \in Brokers, CloseAbsentRoot(b)
    PROVE  CtlInv' /\ Earned
  <1>1. /\ call[b].at = "resume" /\ b \in Callers /\ root[call[b].copy.ws] = "absent"
        /\ Swap(b, [call[b].copy EXCEPT !.closed = TRUE, !.cleanup = FALSE], Idle)
        /\ UNCHANGED <<log, disk>> /\ invoked' = invoked /\ WorldInv'
    BY DEF CloseAbsentRoot, Resuming, Seen, At, Callers, world, CtlInv, WorldInv
  <1> PICK n : n = [call[b].copy EXCEPT !.closed = TRUE, !.cleanup = FALSE]
    OBVIOUS
  <1>2. Idle \in Calls /\ Idle.at = "idle" /\ Idle.then = "done" /\ Idle.end = None
    BY IdleIsSound DEF Idle
  <1>3. ASSUME call[b].copy = row, row \in Rows, RowSound(row) PROVE Follows(b, n, Idle)
    <2>1. RowFollows(n) /\ AdmissionFollows(n)
      BY <1>1, <1>3, ClosedFollows
    <2>2. PlaceFollows(b, n, Idle)
      BY <1>2 DEF PlaceFollows, Working, Works, Reconciling
    <2> QED
      BY <2>1, <2>2 DEF Follows
  <1> QED
    BY <1>1, <1>2, <1>3, Writing

\* A drive that ends where it has no workspace.
LEMMA EndingSound ==
    ASSUME CtlInv, NEW b \in Callers, call[b].copy # None, NEW k \in Calls,
           k.at = "finish", k.copy = call[b].copy, k.end # None,
           k.end.to \notin {"Reviewing", "Verifying"}, k.end.tidy = "none"
    PROVE  CallSound(b, k)
  <1>1. CopySound(call[b])
    BY CallerIs DEF CallSound
  <1> QED
    BY <1>1 DEF CallSound, CopySound, PlaceSound, InvokeSound, LeaseSound,
                Reconciling, Working, Works

\* A cancellation that came before the retry ends the run.
LEMMA CancelRetrySound ==
    ASSUME CtlInv, NEW b \in Brokers, CancelRetry(b)
    PROVE  CtlInv' /\ Earned
  <1> PICK k : k = Ending(b, "Cancelled", "CancellationAccepted", "none")
    OBVIOUS
  <1>1. /\ call[b].at = "resume" /\ b \in Callers /\ Goto(b, k)
        /\ UNCHANGED <<row, log, disk, unmoved, current>> /\ invoked' = invoked /\ WorldInv'
        /\ call[b] \in Calls /\ call[b].copy # None
    BY CallerIs DEF CancelRetry, Resuming, At, Callers, world, CtlInv, WorldInv, CallSound, CopySound
  <1>2. "Cancelled" \in Phases /\ "CancellationAccepted" \in Triggers
    BY DEF Phases, Terminal, Triggers
  <1>3. /\ k \in Calls /\ k.at = "finish" /\ k.copy = call[b].copy /\ k.end # None
        /\ k.end.to = "Cancelled" /\ k.end.tidy = "none"
    BY <1>1, <1>2, EndingIs
  <1>4. CallSound(b, k)
    BY <1>1, <1>3, EndingSound
  <1> QED
    BY <1>1, <1>3, <1>4, Going

\* A retry opens a workspace, unless the attempts are used up.
LEMMA ClaimRetrySound ==
    ASSUME CtlInv, NEW b \in Brokers, ClaimRetry(b)
    PROVE  CtlInv' /\ Earned
  <1>1. /\ call[b].at = "resume" /\ b \in Callers
        /\ Goto(b, IF Seen(b).attempt < MaxAttempts THEN Step(b, "open")
                   ELSE Ending(b, "Failed", "RetryExhausted", "none"))
        /\ UNCHANGED <<row, log, disk, unmoved, current>> /\ invoked' = invoked /\ WorldInv'
        /\ call[b] \in Calls /\ call[b].copy # None /\ CallSound(b, call[b])
    BY CallerIs DEF ClaimRetry, Resuming, At, Callers, world, CtlInv, WorldInv, CallSound, CopySound
  <1>2. CASE Goto(b, Step(b, "open"))
    <2> PICK k : k = Step(b, "open")
      OBVIOUS
    <2>1. k \in Calls /\ k.at = "open" /\ k.copy = call[b].copy /\ k.end = call[b].end
      BY <1>1, StepIs DEF Labels
    <2>2. CallSound(b, k)
      BY <1>1, <2>1 DEF CallSound, CopySound, PlaceSound, InvokeSound, LeaseSound,
                        Reconciling, Working, Works
    <2> QED
      BY <1>1, <1>2, <2>1, <2>2, Going
  <1>3. CASE Goto(b, Ending(b, "Failed", "RetryExhausted", "none"))
    <2> PICK k : k = Ending(b, "Failed", "RetryExhausted", "none")
      OBVIOUS
    <2>1. "Failed" \in Phases /\ "RetryExhausted" \in Triggers
      BY DEF Phases, Terminal, Triggers
    <2>2. /\ k \in Calls /\ k.at = "finish" /\ k.copy = call[b].copy /\ k.end # None
          /\ k.end.to = "Failed" /\ k.end.tidy = "none"
      BY <1>1, <2>1, EndingIs
    <2>3. CallSound(b, k)
      BY <1>1, <2>2, EndingSound
    <2> QED
      BY <1>1, <1>3, <2>2, <2>3, Going
  <1> QED
    BY <1>1, <1>2, <1>3

\* The next epoch is nobody's yet.
LEMMA ClaimRecoverySound ==
    ASSUME CtlInv, NEW b \in Brokers, ClaimRecovery(b)
    PROVE  CtlInv' /\ Earned
  <1> PICK n : n = Touched([call[b].copy EXCEPT !.epoch = @ + 1])
    OBVIOUS
  <1> PICK k : k = Step(b, "recover")
    OBVIOUS
  <1>1. /\ call[b].at = "resume" /\ b \in Callers /\ UNCHANGED <<log, disk>>
        /\ bank' = bank /\ expired' = expired /\ invoked' = invoked
        /\ call[b] \in Calls /\ call[b].copy # None /\ CallSound(b, call[b]) /\ Ends(call[b])
    BY CallerIs DEF ClaimRecovery, Resuming, At, Callers, world, CallSound, CopySound
  <1>2. CASE Return(b) /\ UNCHANGED <<row, unmoved, holder>>
    <2>1. WorldInv'
      BY <1>1, <1>2 DEF CtlInv, WorldInv
    <2> QED
      BY <1>1, <1>2, <2>1, Refusing
  <1>3. CASE Wins(b, n) /\ Store(b, n, k) /\ holder' = b
    <2>1. Swap(b, n, k) /\ WorldInv'
      BY <1>1, <1>3 DEF Swap, CtlInv, WorldInv
    <2>2. k \in Calls /\ k.at = "recover" /\ k.end = call[b].end
      BY <1>1, StepIs DEF Labels
    <2>3. ASSUME call[b].copy = row, row \in Rows, RowSound(row) PROVE Follows(b, n, k)
      <3>1. /\ n \in Rows /\ Plain(row, n) /\ n.phase = row.phase /\ n.ledger = row.ledger
            /\ n.epoch = row.epoch + 1
        <4> PICK later : later = row.epoch + 1
          OBVIOUS
        <4>1. later \in Nat
          BY <2>3, RowCounts
        <4>2. n = Touched([row EXCEPT !.epoch = later])
          BY <2>3
        <4> QED
          BY <2>3, <4>1, <4>2 DEF Rows, Touched, Plain
      <3>2. RowFollows(n) /\ AdmissionFollows(n)
        BY <2>3, <3>1, PlainFollows, NothingIsNone DEF AdmissionFollows
      <3>3. PlaceFollows(b, n, k)
        BY <1>1, <2>2, <3>1 DEF PlaceFollows, Working, Works, Reconciling, Ends
      <3> QED
        BY <3>2, <3>3 DEF Follows
    <2> QED
      BY <1>1, <2>1, <2>2, <2>3, Writing
  <1> QED
    BY <1>2, <1>3 DEF ClaimRecovery, Seen

\* Where a drive goes on after the executor: the outcome decides.
LEMMA AfterExecutorIs ==
    ASSUME NEW b \in Callers, call[b] \in Calls, Ends(call[b]), NEW r,
           NEW k, k = AfterExecutor(b, r)
    PROVE  /\ k \in Calls /\ k.copy = call[b].copy /\ Ends(k) /\ k.at \in Steady
  <1>1. /\ "RetryPending" \in Phases /\ "Failed" \in Phases /\ "Cancelled" \in Phases
        /\ "RetryRequired" \in Triggers /\ "FailureRecorded" \in Triggers
        /\ "CancellationAccepted" \in Triggers
        /\ "effects" \in Labels /\ "result" \in Labels
    BY DEF Phases, Terminal, Triggers, Labels
  <1>2. \/ k = Closing(b, "RetryPending", "RetryRequired")
        \/ k = Closing(b, "Failed", "FailureRecorded")
        \/ k = Closing(b, "Cancelled", "CancellationAccepted")
        \/ k = Step(b, "effects") \/ k = Step(b, "result")
    BY DEF AfterExecutor
  <1>3. CASE k = Closing(b, "RetryPending", "RetryRequired")
    BY <1>1, <1>3, ClosingIs DEF Ends, Steady
  <1>4. CASE k = Closing(b, "Failed", "FailureRecorded")
    BY <1>1, <1>4, ClosingIs DEF Ends, Steady
  <1>5. CASE k = Closing(b, "Cancelled", "CancellationAccepted")
    BY <1>1, <1>5, ClosingIs DEF Ends, Steady
  <1>6. CASE k = Step(b, "effects") \/ k = Step(b, "result")
    BY <1>1, <1>6, StepIs DEF Ends, Steady
  <1> QED
    BY <1>2, <1>3, <1>4, <1>5, <1>6

\* Where a drive goes on that took over a workspace: it calls the executor
\* only where nobody started it.
LEMMA AfterRecoveryIs ==
    ASSUME NEW b \in Callers, call[b] \in Calls, Ends(call[b]), NEW r,
           NEW k, k = AfterRecovery(b, r)
    PROVE  /\ k \in Calls /\ k.copy = call[b].copy /\ Ends(k)
           /\ k.at \in Steady \/ (k.at = "invoke" /\ r.executor = "NotStarted")
  <1>1. /\ "Failed" \in Phases /\ "Cancelled" \in Phases
        /\ "ExecutorOutcomeUnknown" \in Triggers /\ "CancellationAccepted" \in Triggers
        /\ "closeRoot" \in Labels /\ "admit" \in Labels /\ "reseal" \in Labels
        /\ "invoke" \in Labels
    BY DEF Phases, Terminal, Triggers, Labels
  <1>2. \/ k = Step(b, "closeRoot") \/ k = AfterVerifying(b, r)
        \/ k = Closing(b, "Failed", "ExecutorOutcomeUnknown")
        \/ k = Closing(b, "Cancelled", "CancellationAccepted")
        \/ r.executor = "NotStarted" /\ k = Step(b, "invoke")
        \/ k = AfterExecutor(b, r)
    BY DEF AfterRecovery
  <1>3. CASE k = Step(b, "closeRoot")
    BY <1>1, <1>3, StepIs DEF Ends, Steady
  <1>4. CASE k = Closing(b, "Failed", "ExecutorOutcomeUnknown")
    BY <1>1, <1>4, ClosingIs DEF Ends, Steady
  <1>5. CASE k = Closing(b, "Cancelled", "CancellationAccepted")
    BY <1>1, <1>5, ClosingIs DEF Ends, Steady
  <1>6. CASE r.executor = "NotStarted" /\ k = Step(b, "invoke")
    BY <1>1, <1>6, StepIs DEF Ends
  <1>7. CASE k = AfterExecutor(b, r)
    BY <1>7, AfterExecutorIs
  <1>8. CASE k = AfterVerifying(b, r)
    <2>1. k = Step(b, "admit") \/ k = Step(b, "reseal")
          \/ k = Closing(b, "Cancelled", "CancellationAccepted")
      BY <1>8 DEF AfterVerifying
    <2> QED
      BY <1>1, <1>5, <2>1, StepIs DEF Ends, Steady
  <1> QED
    BY <1>2, <1>3, <1>4, <1>5, <1>6, <1>7, <1>8

\* The lease of a workspace that was taken over is the only one of its epoch.
LEMMA RecoverLeaseSound ==
    ASSUME CtlInv, NEW b \in Brokers, RecoverLease(b)
    PROVE  CtlInv' /\ Earned
  <1> PICK r : r = call[b].copy
    OBVIOUS
  <1> PICK content : content = root[r.ws]
    OBVIOUS
  <1>1. /\ call[b].at = "recover" /\ b \in Callers /\ row' = row /\ log' = log
        /\ root' = root /\ opened' = opened /\ writes' = writes /\ unmoved' = unmoved
        /\ invoked' = invoked /\ WorldInv'
        /\ call[b] \in Calls /\ CallSound(b, call[b]) /\ Ends(call[b]) /\ r # None
    BY CallerIs DEF RecoverLease, At, Callers, world, CtlInv, WorldInv, CallSound, CopySound
  <1>2. CASE Return(b) /\ UNCHANGED lease
    BY <1>1, <1>2, Returning DEF disk
  <1>3. CASE /\ Current(row, [ws |-> r.ws, epoch |-> r.epoch])
             /\ CanRecover(r, lease[b], content)
             /\ lease' = [lease EXCEPT ![b] = Recovered(r, content)]
             /\ Goto(b, AfterRecovery(b, r))
             /\ UNCHANGED current
    <2> PICK fresh : fresh = Recovered(r, content)
      OBVIOUS
    <2> PICK k : k = AfterRecovery(b, r)
      OBVIOUS
    <2>1. /\ k \in Calls /\ k.copy = r /\ Ends(k)
          /\ k.at \in Steady \/ (k.at = "invoke" /\ r.executor = "NotStarted")
      BY <1>1, AfterRecoveryIs
    <2>2. row # None /\ row.ws = r.ws /\ row.epoch = r.epoch /\ lease[b] = NoLease
          /\ content \in {"before", "after"}
      BY <1>3 DEF Current, CanRecover, Snapshot
    <2>3. r \in Rows /\ row \in Rows /\ row.ws \in 1..opened /\ Known = row.ws
      BY <1>1, <2>2 DEF CallSound, CopySound, RowSound, CtlInv, RowInv, Known
    <2>4. fresh \in Leases /\ fresh.ws = row.ws /\ fresh.epoch = row.epoch
      BY <2>2, <2>3, RowCounts DEF Recovered, Leases, LeaseStates
    <2>5. fresh # NoLease /\ b \notin unmoved
      BY <2>2, <2>4, NothingIsNone DEF CtlInv, LeaseInv
    <2>6. call \in [Callers -> Calls] /\ lease \in [Brokers -> Leases \union {NoLease}]
          /\ current \subseteq Callers
      BY DEF CtlInv, CallInv, LeaseInv, CurrentInv
    <2>7. /\ lease' = [lease EXCEPT ![b] = fresh] /\ lease'[b] = fresh
          /\ \A d \in Brokers \ {b} : lease'[d] = lease[d]
          /\ call' = [call EXCEPT ![b] = k] /\ call'[b] = k
          /\ \A d \in Callers \ {b} : call'[d] = call[d]
      BY <1>1, <1>3, <2>6 DEF Goto
    <2>8. \A d \in Brokers : Leased(d, row.ws) => lease[d].epoch # row.epoch
      BY <1>1, <2>2 DEF CallSound, LeaseSound
    <2>9. \A d \in Callers : CallSound(d, call[d])'
      <3> SUFFICES ASSUME NEW d \in Callers PROVE CallSound(d, call[d])'
        OBVIOUS
      <3> PICK e : e = call'[d]
        OBVIOUS
      <3>1. CASE d = b
        <4>1. e = k
          BY <2>7, <3>1
        <4>2. /\ k.at \notin Reconciling
              /\ k.at \notin {"recover", "install", "closeRow", "execute", "settle",
                              "calling", "record", "finish"}
          BY <2>1 DEF Reconciling, Steady
        <4>3. CopySound(k)'
          BY <1>1, <2>1 DEF CallSound, CopySound, Frozen, Logged
        <4>4. PlaceSound(k)'
          BY <2>1, <4>2 DEF PlaceSound, Reconciling, Ends
        <4>5. InvokeSound(k)'
          BY <2>1, <4>2 DEF InvokeSound, Steady
        <4>6. LeaseSound(b, k)'
          BY <2>1, <2>2, <2>4, <2>5, <2>7, <4>2 DEF LeaseSound, Leased
        <4> QED
          BY <2>7, <3>1, <4>3, <4>4, <4>5, <4>6 DEF CallSound
      <3>2. CASE d # b
        <4>1. e = call[d] /\ CallSound(d, e) /\ e \in Calls
          BY <2>7, <3>2, CallerIs
        <4>2. CopySound(call[d])' /\ PlaceSound(call[d])' /\ InvokeSound(call[d])'
          BY <1>1, <4>1 DEF CallSound, CopySound, PlaceSound, InvokeSound, Frozen, Logged
        <4>3. ASSUME d \in Brokers PROVE LeaseSound(d, call[d])'
          <5>1. LeaseSound(d, e) /\ lease'[d] = lease[d]
            BY <2>7, <3>2, <4>1, <4>3 DEF CallSound
          <5>2. e.at = "recover" /\ e.copy.ws = row.ws => e.copy.epoch # row.epoch
            BY <1>1, <2>2, <3>2, <4>1 DEF CtlInv, CallInv, At
          <5>3. e.at = "recover" => \A f \in Brokers : lease'[f] # NoLease
                  /\ lease'[f].ws = e.copy.ws => lease'[f].epoch # e.copy.epoch
            BY <2>4, <2>7, <5>1, <5>2 DEF LeaseSound, Leased
          <5> QED
            BY <1>1, <5>1, <5>3
               DEF LeaseSound, Leased, Working, Unwritten, WriteDue, Current
        <4> QED
          BY <4>2, <4>3 DEF CallSound
      <3> QED
        BY <3>1, <3>2
    <2>10. CallInv'
      <3>1. call' \in [Callers -> Calls]
        BY <2>1, <2>6, <2>7
      <3>2. \A d \in Callers : call'[d].at \in {"calling", "recover"} => call'[d] = call[d]
        BY <2>1, <2>7 DEF Steady
      <3> QED
        BY <2>9, <3>1, <3>2 DEF CtlInv, CallInv, At
    <2>11. CurrentInv'
      BY <1>1, <1>3, <2>1, <2>7 DEF CtlInv, CurrentInv, At, Steady
    <2>12. RowInv' /\ InvokedInv' /\ LogInv'
      BY <1>1 DEF CtlInv, RowInv, InvokedInv, LogInv, Acknowledgements
    <2>13. LeaseInv'
      <3>1. lease' \in [Brokers -> Leases \union {NoLease}]
        BY <2>4, <2>6, <2>7
      <3>2. \A d \in Brokers : lease'[d] # NoLease =>
              /\ lease'[d].ws \in 1..opened
              /\ lease'[d].ws = Known => lease'[d].epoch <= row.epoch
              /\ lease'[d].ws > Known => lease'[d].epoch = 1
        <4>1. row.ws \in Nat /\ row.epoch \in Nat
          BY <2>3, RowCounts
        <4> QED
          BY <2>3, <2>4, <2>7, <4>1 DEF CtlInv, LeaseInv
      <3>3. \A d \in unmoved : lease'[d] # NoLease /\ lease'[d].opened /\ lease'[d].ws > Known
        BY <2>5, <2>7 DEF CtlInv, LeaseInv
      <3>4. \A d, e \in Brokers :
              d # e /\ lease'[d] # NoLease /\ lease'[e] # NoLease
              /\ lease'[d].ws = lease'[e].ws => lease'[d].epoch # lease'[e].epoch
        BY <2>4, <2>7, <2>8 DEF CtlInv, LeaseInv, Leased
      <3>5. Known' = Known
        BY <1>1 DEF Known
      <3> QED
        BY <1>1, <3>1, <3>2, <3>3, <3>4, <3>5 DEF CtlInv, LeaseInv
    <2>14. DiskInv'
      BY <1>1 DEF CtlInv, DiskInv, Explained, Known
    <2>15. Earned
      BY <1>1 DEF Earned
    <2> QED
      BY <1>1, <2>10, <2>11, <2>12, <2>13, <2>14, <2>15 DEF CtlInv
  <1> QED
    BY <1>1, <1>2, <1>3 DEF RecoverLease, Seen

-----------------------------------------------------------------------------
(* The actions: the executor.                                              *)

\* Started is stored by who found nobody had: the call is its own to make.
LEMMA StoreStartedSound ==
    ASSUME CtlInv, NEW b \in Brokers, StoreStarted(b)
    PROVE  CtlInv' /\ Earned
  <1> PICK n : n = Touched([call[b].copy EXCEPT !.executor = "Started"])
    OBVIOUS
  <1> PICK k : k = Step(b, "calling")
    OBVIOUS
  <1>1. /\ call[b].at = "invoke" /\ b \in Callers /\ Swap(b, n, k)
        /\ UNCHANGED <<log, disk>> /\ invoked' = invoked /\ WorldInv'
        /\ call[b] \in Calls /\ CallSound(b, call[b]) /\ Ends(call[b])
    BY CallerIs DEF StoreStarted, Seen, At, Callers, world, CtlInv, WorldInv
  <1>2. k \in Calls /\ k.at = "calling" /\ k.end = call[b].end
    BY <1>1, StepIs DEF Labels
  <1>3. call[b].copy.executor = "NotStarted" /\ Leased(b, call[b].copy.ws)
    BY <1>1, CallerIs DEF CallSound, InvokeSound, Works
  <1>4. ASSUME call[b].copy = row, row \in Rows, RowSound(row) PROVE Follows(b, n, k)
    <2>1. "Started" \in ExecutorStates
      BY DEF ExecutorStates
    <2>2. /\ n \in Rows /\ Plain(row, n) /\ n.phase = row.phase /\ n.ledger = row.ledger
          /\ n.executor = "Started"
      BY <1>4, <2>1 DEF Rows, Touched, Plain
    <2>3. RowFollows(n) /\ AdmissionFollows(n)
      BY <1>4, <2>2, PlainFollows, NothingIsNone DEF AdmissionFollows
    <2>4. PlaceFollows(b, n, k)
      BY <1>1, <1>2, <1>3, <1>4, <2>2 DEF PlaceFollows, Plain, Ends, Reconciling
    <2> QED
      BY <2>3, <2>4 DEF Follows
  <1> QED
    BY <1>1, <1>2, <1>4, Writing

\* The executor is called: nobody called it for this attempt before.
LEMMA CallExecutorSound ==
    ASSUME CtlInv, NEW b \in Brokers, CallExecutor(b)
    PROVE  CtlInv' /\ Earned
  <1> PICK r : r = call[b].copy
    OBVIOUS
  <1>1. /\ call[b].at = "calling" /\ b \in Callers
        /\ row' = row /\ log' = log /\ root' = root /\ opened' = opened /\ lease' = lease
        /\ writes' = writes /\ unmoved' = unmoved /\ WorldInv'
        /\ invoked' = [invoked EXCEPT ![r.attempt] = @ + 1]
        /\ call[b] \in Calls /\ CallSound(b, call[b]) /\ Ends(call[b]) /\ r # None
    BY CallerIs DEF CallExecutor, Seen, At, Callers, disk, CtlInv, WorldInv, CallSound, CopySound
  <1>2. PICK outcome \in Outcomes \union {"None"} :
          \/ Return(b)
          \/ /\ outcome # "None" /\ UNCHANGED current
             /\ Goto(b, [Step(b, "record") EXCEPT !.got = outcome])
    BY DEF CallExecutor
  <1>3. /\ r \in Rows /\ r.attempt \in 1..MaxAttempts /\ row # None /\ row \in Rows
        /\ r.attempt <= row.attempt /\ invoked[r.attempt] = 0
        /\ r.attempt = row.attempt => row.executor # "NotStarted"
        /\ Leased(b, r.ws)
    <2>1. r \in Rows /\ row # None /\ row \in Rows /\ r.attempt <= row.attempt
      BY <1>1 DEF CallSound, CopySound, Before, RowSound, CtlInv, RowInv
    <2>2. r.attempt \in 1..MaxAttempts
      BY <2>1, RowCounts
    <2> QED
      BY <1>1, <2>1, <2>2, CallerIs DEF CallSound, InvokeSound, Works
  <1>4. call \in [Callers -> Calls] /\ current \subseteq Callers
        /\ invoked \in [1..MaxAttempts -> 0..1]
    BY DEF CtlInv, CallInv, CurrentInv, InvokedInv
  <1>5. /\ invoked' \in [1..MaxAttempts -> 0..1] /\ invoked'[r.attempt] = 1
        /\ \A n \in 1..MaxAttempts \ {r.attempt} : invoked'[n] = invoked[n]
    BY <1>1, <1>3, <1>4
  <1>6. PICK k \in Calls :
          /\ call' = [call EXCEPT ![b] = k] /\ k.at \in {"idle", "record"}
          /\ CallSound(b, k) /\ (k.at # "idle" => k.copy = r)
          /\ current' \subseteq Callers
          /\ \A c \in current' : c \in current
    <2>1. CASE Return(b)
      BY <1>4, <2>1, IdleIsSound DEF Return, Goto
    <2>2. CASE /\ outcome # "None" /\ UNCHANGED current
               /\ Goto(b, [Step(b, "record") EXCEPT !.got = outcome])
      <3> PICK s : s = Step(b, "record")
        OBVIOUS
      <3>1. s \in Calls /\ s.at = "record" /\ s.copy = r /\ s.end = call[b].end
        BY <1>1, StepIs DEF Labels
      <3>2. PICK k : k = [s EXCEPT !.got = outcome]
        OBVIOUS
      <3>3. k \in Calls /\ k.at = "record" /\ k.copy = r /\ k.end = call[b].end /\ k.got = outcome
        BY <3>1, <3>2 DEF Calls
      <3>4. CallSound(b, k)
        BY <1>1, <1>2, <1>3, <2>2, <3>3
           DEF CallSound, CopySound, PlaceSound, InvokeSound, LeaseSound, Ends, Reconciling
      <3>5. call' = [call EXCEPT ![b] = k] /\ current' = current
        BY <2>2, <3>2 DEF Goto
      <3> QED
        BY <1>4, <3>3, <3>4, <3>5
    <2> QED
      BY <1>2, <2>1, <2>2
  <1>7. call'[b] = k /\ \A d \in Callers \ {b} : call'[d] = call[d]
    BY <1>1, <1>4, <1>6
  <1>8. \A d \in Callers : CallSound(d, call[d])'
    <2> SUFFICES ASSUME NEW d \in Callers PROVE CallSound(d, call[d])'
      OBVIOUS
    <2> PICK e : e = call'[d]
      OBVIOUS
    <2>1. CallSound(d, e) /\ e \in Calls
      BY <1>6, <1>7, CallerIs
    <2>2. CopySound(call[d])' /\ PlaceSound(call[d])' /\ (d \in Brokers => LeaseSound(d, call[d])')
      BY <1>1, <2>1 DEF CallSound, CopySound, PlaceSound, LeaseSound, Frozen, Logged,
                        Leased, Working, Unwritten, WriteDue
    <2>3. e.at = "calling" => invoked'[e.copy.attempt] = 0
      <3>1. e.at = "calling" => d # b /\ e = call[d]
        BY <1>6, <1>7
      <3>2. e.at = "calling" => e.copy.attempt # r.attempt /\ invoked[e.copy.attempt] = 0
        BY <1>1, <2>1, <3>1 DEF CtlInv, CallInv, At, CallSound, InvokeSound
      <3>3. e.at = "calling" => e.copy.attempt \in 1..MaxAttempts
        <4>1. e.at = "calling" => e.copy \in Rows
          BY <2>1 DEF CallSound, CopySound, RowSound
        <4> QED
          BY <4>1, RowCounts
      <3> QED
        BY <1>5, <3>2, <3>3
    <2>4. InvokeSound(call[d])'
      BY <1>1, <2>1, <2>3 DEF CallSound, InvokeSound
    <2> QED
      BY <2>2, <2>4 DEF CallSound
  <1>9. CallInv'
    <2>1. call' \in [Callers -> Calls]
      BY <1>4, <1>6
    <2>2. \A d \in Callers : call'[d].at \in {"calling", "recover"} => call'[d] = call[d]
      BY <1>6, <1>7
    <2> QED
      BY <1>8, <2>1, <2>2 DEF CtlInv, CallInv, At
  <1>10. CurrentInv'
    BY <1>1, <1>6, <1>7 DEF CtlInv, CurrentInv, At
  <1>11. InvokedInv'
    BY <1>1, <1>3, <1>5 DEF CtlInv, InvokedInv
  <1>12. RowInv' /\ LogInv' /\ LeaseInv' /\ DiskInv' /\ Earned
    BY <1>1 DEF CtlInv, RowInv, LogInv, LeaseInv, DiskInv, Explained, Known,
                Acknowledgements, Earned
  <1> QED
    BY <1>1, <1>9, <1>10, <1>11, <1>12 DEF CtlInv

\* The outcome of the call.
LEMMA RecordOutcomeSound ==
    ASSUME CtlInv, NEW b \in Brokers, RecordOutcome(b)
    PROVE  CtlInv' /\ Earned
  <1> PICK n : n = Touched([call[b].copy EXCEPT !.executor = call[b].got])
    OBVIOUS
  <1> PICK k : k = AfterExecutor(b, n)
    OBVIOUS
  <1>1. /\ call[b].at = "record" /\ b \in Callers /\ Swap(b, n, k)
        /\ UNCHANGED <<log, disk>> /\ invoked' = invoked /\ WorldInv'
        /\ call[b] \in Calls /\ CallSound(b, call[b]) /\ Ends(call[b])
    BY CallerIs DEF RecordOutcome, Seen, At, Callers, world, CtlInv, WorldInv
  <1>2. k \in Calls /\ k.at \in Steady /\ Ends(k)
    BY <1>1, AfterExecutorIs
  <1>3. call[b].got \in Outcomes /\ Leased(b, call[b].copy.ws)
    BY <1>1, CallerIs DEF CallSound, InvokeSound, Works
  <1>4. ASSUME call[b].copy = row, row \in Rows, RowSound(row) PROVE Follows(b, n, k)
    <2>1. call[b].got \in ExecutorStates
      BY <1>3 DEF ExecutorStates
    <2>2. n \in Rows /\ Plain(row, n) /\ n.phase = row.phase /\ n.ledger = row.ledger
      BY <1>4, <2>1 DEF Rows, Touched, Plain
    <2>3. RowFollows(n) /\ AdmissionFollows(n)
      BY <1>4, <2>2, PlainFollows, NothingIsNone DEF AdmissionFollows
    <2>4. PlaceFollows(b, n, k)
      BY <1>2, <1>3, <1>4, <2>2, SteadyFollows DEF Plain
    <2> QED
      BY <2>3, <2>4 DEF Follows
  <1>5. call[b].at \notin {"idle", "open", "install"}
    BY <1>1
  <1> QED
    BY <1>1, <1>2, <1>4, <1>5, Writing

\* The engineer's result.
LEMMA RecordResultSound ==
    ASSUME CtlInv, NEW b \in Brokers, RecordResult(b)
    PROVE  CtlInv' /\ Earned
  <1> PICK n : n = Touched([call[b].copy EXCEPT !.result = TRUE])
    OBVIOUS
  <1> PICK k : k = Step(b, "effects")
    OBVIOUS
  <1>1. /\ call[b].at = "result" /\ b \in Callers /\ Swap(b, n, k)
        /\ UNCHANGED <<log, disk>> /\ invoked' = invoked /\ WorldInv'
        /\ call[b] \in Calls /\ Ends(call[b])
    BY CallerIs DEF RecordResult, Seen, At, Callers, world, CtlInv, WorldInv
  <1>2. k \in Calls /\ k.at = "effects" /\ k.at \in Steady /\ Ends(k)
    BY <1>1, StepIs DEF Labels, Steady, Ends
  <1>3. Leased(b, call[b].copy.ws)
    BY <1>1, CallerIs DEF Works
  <1>4. ASSUME call[b].copy = row, row \in Rows, RowSound(row) PROVE Follows(b, n, k)
    <2>1. n \in Rows /\ Plain(row, n) /\ n.phase = row.phase /\ n.ledger = row.ledger
      BY <1>4 DEF Rows, Touched, Plain
    <2>2. RowFollows(n) /\ AdmissionFollows(n)
      BY <1>4, <2>1, PlainFollows, NothingIsNone DEF AdmissionFollows
    <2>3. PlaceFollows(b, n, k)
      BY <1>2, <1>3, <1>4, <2>1, SteadyFollows DEF Plain
    <2> QED
      BY <2>2, <2>3 DEF Follows
  <1>5. call[b].at \notin {"idle", "open", "install"}
    BY <1>1
  <1> QED
    BY <1>1, <1>2, <1>4, <1>5, Writing

-----------------------------------------------------------------------------
(* The actions: the planned effects.                                       *)

\* A drive that ends while it has its workspace.
LEMMA LastEndingIs ==
    ASSUME NEW b \in Callers, call[b] \in Calls, NEW to \in {"Cancelled", "Failed"},
           NEW trigger \in {"CancellationAccepted", "FailureRecorded"},
           NEW k, k = Ending(b, to, trigger, "last")
    PROVE  k \in Calls /\ k.at = "finish" /\ k.end # None /\ Ends(k) /\ k.copy = call[b].copy
  <1>1. to \in Phases /\ trigger \in Triggers
    BY DEF Phases, Terminal, Triggers
  <1> QED
    BY <1>1, EndingIs DEF Ends

\* A cancellation found between two effects ends the drive.
LEMMA CancelEffectsSound ==
    ASSUME CtlInv, NEW b \in Brokers, CancelEffects(b)
    PROVE  CtlInv' /\ Earned
  <1> PICK k : k = Ending(b, "Cancelled", "CancellationAccepted", "last")
    OBVIOUS
  <1>1. /\ call[b].at = "effects" /\ b \in Callers /\ Goto(b, k)
        /\ UNCHANGED <<row, log, disk, unmoved, current>> /\ invoked' = invoked /\ WorldInv'
        /\ call[b] \in Calls /\ call[b].copy # None /\ Leased(b, call[b].copy.ws)
    BY CallerIs DEF CancelEffects, Due, At, Callers, world, CtlInv, WorldInv, CallSound,
                    CopySound, Works
  <1>2. k \in Calls /\ k.at = "finish" /\ k.end # None /\ Ends(k) /\ k.copy = call[b].copy
    BY <1>1, LastEndingIs
  <1>3. CallSound(b, k)
    BY <1>1, <1>2, SteadySound
  <1> QED
    BY <1>1, <1>2, <1>3, Going

\* A write is prepared when the disk does not have it.
LEMMA PrepareWriteSound ==
    ASSUME CtlInv, NEW b \in Brokers, PrepareWrite(b)
    PROVE  CtlInv' /\ Earned
  <1> PICK n : n = Touched([call[b].copy EXCEPT !.prepared = TRUE])
    OBVIOUS
  <1> PICK k : k = Step(b, "execute")
    OBVIOUS
  <1>1. /\ call[b].at = "effects" /\ b \in Callers /\ Swap(b, n, k)
        /\ UNCHANGED <<log, disk>> /\ invoked' = invoked /\ WorldInv'
        /\ call[b] \in Calls /\ Ends(call[b]) /\ Leased(b, call[b].copy.ws)
        /\ WriteDue(call[b].copy) /\ ~call[b].copy.prepared
    BY CallerIs DEF PrepareWrite, Due, NextEffect, Seen, At, Callers, world, CtlInv, WorldInv,
                    Works, WriteDue
  <1>2. k \in Calls /\ k.at = "execute" /\ k.end = call[b].end
    BY <1>1, StepIs DEF Labels
  <1>3. ASSUME call[b].copy = row, row \in Rows, RowSound(row) PROVE Follows(b, n, k)
    <2>1. /\ n \in Rows /\ n.prepared = TRUE /\ n.phase = row.phase
          /\ n.ws = row.ws /\ n.attempt = row.attempt /\ n.ledger = row.ledger
          /\ n.closed = row.closed /\ n.pending = row.pending /\ n.executor = row.executor
      BY <1>3 DEF Rows, Touched
    <2>2. Explained(row) /\ Snapshot(row) = "before"
      BY <1>1, <1>3, DueIsBefore, NothingIsNone DEF CtlInv, DiskInv, WriteDue
    <2>3. RowFollows(n) /\ AdmissionFollows(n)
      BY <1>3, <2>1, <2>2
         DEF RowFollows, AdmissionFollows, RowSound, WritesPlanned, Explained, Snapshot
    <2>4. WriteDue(n) /\ root[n.ws] # "after"
      BY <1>1, <1>3, <2>1, <2>2 DEF WriteDue, Explained
    <2>5. PlaceFollows(b, n, k)
      BY <1>1, <1>2, <1>3, <2>1, <2>4 DEF PlaceFollows, Ends, Leased
    <2> QED
      BY <2>3, <2>5 DEF Follows
  <1>4. call[b].at \notin {"idle", "open", "install"}
    BY <1>1
  <1> QED
    BY <1>1, <1>2, <1>3, <1>4, Writing

\* Who may look at a prepared write holds the row's own fence.
LEMMA InspectionIs ==
    ASSUME CtlInv, NEW b \in Brokers, Inspection(b) # "Refused"
    PROVE  /\ lease[b] # NoLease /\ Current(row, lease[b]) /\ row # None
           /\ row.ws = lease[b].ws /\ ~row.closed
           /\ row.phase = "Engineering" /\ row.prepared
           /\ Inspection(b) = Inspected(root[row.ws])
  BY DEF Inspection, Active, RequirePrepared, RequireCurrent, Ownership, Current

\* A call at the effects that finds its write prepared.
LEMMA InspectRefusedSound ==
    ASSUME CtlInv, NEW b \in Brokers, InspectRefused(b)
    PROVE  CtlInv' /\ Earned
  BY Returning DEF InspectRefused, world, CtlInv, WorldInv, Callers

\* A prepared write that is not on the disk is made, or forgotten when the
\* run was cancelled.
LEMMA InspectBeforeSound ==
    ASSUME CtlInv, NEW b \in Brokers, InspectBefore(b)
    PROVE  CtlInv' /\ Earned
  <1>1. /\ call[b].at = "effects" /\ call[b].at \notin {"idle", "open", "install"} /\ b \in Callers
        /\ UNCHANGED <<log, disk>> /\ invoked' = invoked /\ WorldInv'
        /\ call[b] \in Calls /\ Ends(call[b]) /\ Leased(b, call[b].copy.ws)
        /\ call[b].copy # None /\ RowSound(call[b].copy) /\ CallSound(b, call[b])
        /\ call[b].copy.prepared /\ Inspection(b) = "ExpectedBefore"
    BY CallerIs DEF InspectBefore, Due, Seen, At, Callers, world, CtlInv, WorldInv, Works,
                    CallSound, CopySound
  <1>2. row # None /\ root[row.ws] = "before"
    BY <1>1, InspectionIs DEF Inspected
  <1>3. CASE Swap(b, Unprepared(Seen(b)), Ending(b, "Cancelled", "CancellationAccepted", "last"))
    <2> PICK n : n = Unprepared(Seen(b))
      OBVIOUS
    <2> PICK k : k = Ending(b, "Cancelled", "CancellationAccepted", "last")
      OBVIOUS
    <2>1. k \in Calls /\ k.at = "finish" /\ k.end # None /\ Ends(k)
      BY <1>1, LastEndingIs
    <2>2. ASSUME call[b].copy = row, row \in Rows, RowSound(row) PROVE Follows(b, n, k)
      <3>1. /\ n \in Rows /\ n.prepared = FALSE /\ n.phase = row.phase
            /\ n.ws = row.ws /\ n.attempt = row.attempt /\ n.ledger = row.ledger
            /\ n.closed = row.closed /\ n.pending = row.pending
        <4>1. n = Touched([row EXCEPT !.prepared = FALSE])
          BY <2>2 DEF Unprepared, Seen
        <4> QED
          BY <2>2, <4>1 DEF Rows, Touched
      <3>2. Explained(row)
        BY <1>2 DEF CtlInv, DiskInv
      <3>3. RowFollows(n) /\ AdmissionFollows(n)
        BY <1>2, <2>2, <3>1, <3>2
           DEF RowFollows, AdmissionFollows, RowSound, WritesPlanned, Explained, Snapshot
      <3>4. PlaceFollows(b, n, k)
        BY <1>1, <2>1, <2>2, <3>1, SteadyFollows
      <3> QED
        BY <3>3, <3>4 DEF Follows
    <2> QED
      BY <1>1, <1>3, <2>1, <2>2, Writing
  <1>4. CASE Goto(b, Step(b, "execute")) /\ UNCHANGED <<row, unmoved, current>>
    <2> PICK k : k = Step(b, "execute")
      OBVIOUS
    <2>1. k \in Calls /\ k.at = "execute" /\ k.end = call[b].end /\ k.copy = call[b].copy
      BY <1>1, StepIs DEF Labels
    <2>2. WriteDue(k.copy)
      BY <1>1, <2>1 DEF RowSound, Valid, PreparedValid, WriteDue
    <2>3. CallSound(b, k)
      BY <1>1, <1>2, <2>1, <2>2
         DEF CallSound, CopySound, PlaceSound, InvokeSound, LeaseSound, Ends, Unwritten,
             Reconciling, Working, Works
    <2> QED
      BY <1>1, <1>4, <2>1, <2>3, Going
  <1> QED
    BY <1>3, <1>4 DEF InspectBefore

\* The ledger grows by the effect that was resolved.
LEMMA ResolvedIs ==
    ASSUME NEW r \in Rows, NEW resolution \in Resolutions, NEW n, n = Resolved(r, resolution)
    PROVE  /\ n \in Rows /\ ~n.prepared /\ n.phase = r.phase /\ n.ws = r.ws
           /\ n.attempt = r.attempt /\ n.closed = r.closed /\ n.pending = r.pending
           /\ DOMAIN r.ledger = 1..Len(r.ledger) /\ DOMAIN n.ledger = 1..(Len(r.ledger) + 1)
           /\ \A i \in DOMAIN r.ledger : n.ledger[i] = r.ledger[i]
           /\ n.ledger[Len(r.ledger) + 1] = resolution
  <1>1. r.ledger \in Seq(Resolutions)
    BY RowCounts
  <1>2. PICK longer : longer = Append(r.ledger, resolution)
    OBVIOUS
  <1>3. /\ longer \in Seq(Resolutions) /\ DOMAIN longer = 1..(Len(r.ledger) + 1)
        /\ DOMAIN r.ledger = 1..Len(r.ledger)
        /\ \A i \in DOMAIN r.ledger : longer[i] = r.ledger[i]
        /\ longer[Len(r.ledger) + 1] = resolution
    BY <1>1, <1>2
  <1>4. n = Touched([r EXCEPT !.ledger = longer, !.prepared = FALSE])
    BY <1>2 DEF Resolved
  <1>5. /\ n \in Rows /\ ~n.prepared /\ n.phase = r.phase /\ n.ws = r.ws
        /\ n.attempt = r.attempt /\ n.closed = r.closed /\ n.pending = r.pending
        /\ n.ledger = longer
    BY <1>3, <1>4 DEF Touched, Rows
  <1> QED
    BY <1>3, <1>5

\* The row that records an effect follows, when a recorded write was due and
\* is on the disk and nothing else is.
LEMMA ResolvedFollows ==
    ASSUME CtlInv, row \in Rows, RowSound(row), row.phase = "Engineering", ~row.closed,
           Len(row.ledger) < Len(Plan), NEW resolution \in Resolutions,
           NEW n, n = Resolved(row, resolution),
           IF resolution \in {"Written", "Reconciled"}
           THEN WriteDue(row) /\ writes[row.ws] = 1
           ELSE root[row.ws] # "after"
    PROVE  n \in Rows /\ n.ws = row.ws /\ RowFollows(n) /\ AdmissionFollows(n)
  <1>1. /\ n \in Rows /\ ~n.prepared /\ n.phase = row.phase /\ n.ws = row.ws
        /\ n.attempt = row.attempt /\ n.closed = row.closed /\ n.pending = row.pending
        /\ DOMAIN row.ledger = 1..Len(row.ledger) /\ DOMAIN n.ledger = 1..(Len(row.ledger) + 1)
        /\ \A i \in DOMAIN row.ledger : n.ledger[i] = row.ledger[i]
        /\ n.ledger[Len(row.ledger) + 1] = resolution
    BY ResolvedIs
  <1>2. Len(row.ledger) \in Nat
    BY RowCounts
  <1>3. WritesPlanned(row) /\ Snapshot(row) = "before"
    BY DueIsBefore DEF RowSound
  <1>4. \A i \in DOMAIN n.ledger : i \in DOMAIN row.ledger \/ i = Len(row.ledger) + 1
    BY <1>1, <1>2
  <1>5. WritesPlanned(n)
    BY <1>1, <1>3, <1>4 DEF WritesPlanned, WriteDue
  <1>6. \A i \in DOMAIN row.ledger : row.ledger[i] \notin {"Written", "Reconciled"}
    BY <1>3 DEF Snapshot
  <1>7. Snapshot(n) = IF resolution \in {"Written", "Reconciled"} THEN "after" ELSE "before"
    BY <1>1, <1>2, <1>4, <1>6 DEF Snapshot
  <1>8. Explained(n)
    BY <1>1, <1>7 DEF Explained
  <1> QED
    BY <1>1, <1>5, <1>8 DEF RowFollows, AdmissionFollows, Terminal

\* A prepared write that is on the disk is recorded.
LEMMA InspectAfterSound ==
    ASSUME CtlInv, NEW b \in Brokers, InspectAfter(b)
    PROVE  CtlInv' /\ Earned
  <1> PICK n : n = Resolved(call[b].copy, "Reconciled")
    OBVIOUS
  <1> PICK k : k = IF Seen(b).cancelled
                   THEN Ending(b, "Cancelled", "CancellationAccepted", "last")
                   ELSE Step(b, "effects")
    OBVIOUS
  <1>1. /\ call[b].at = "effects" /\ call[b].at \notin {"idle", "open", "install"} /\ b \in Callers
        /\ Swap(b, n, k) /\ log' = log /\ root' = root /\ opened' = opened /\ writes' = writes
        /\ lease' = [lease EXCEPT ![b].snap = "after"]
        /\ invoked' = invoked /\ WorldInv'
        /\ call[b] \in Calls /\ Ends(call[b]) /\ Leased(b, call[b].copy.ws)
        /\ call[b].copy.prepared /\ Inspection(b) = "IntendedAfter"
    BY CallerIs DEF InspectAfter, Due, Seen, At, Callers, world, CtlInv, WorldInv, Works
  <1>2. /\ row # None /\ row.phase = "Engineering" /\ ~row.closed /\ root[row.ws] = "after"
        /\ lease[b] # NoLease
    BY <1>1, InspectionIs DEF Inspected
  <1>3. k \in Calls /\ Ends(k) /\ (k.at \in Steady \/ (k.at = "finish" /\ k.end # None))
    <2>1. CASE k = Ending(b, "Cancelled", "CancellationAccepted", "last")
      BY <1>1, <2>1, LastEndingIs
    <2>2. CASE k = Step(b, "effects")
      BY <1>1, <2>2, StepIs DEF Labels, Steady, Ends
    <2> QED
      BY <2>1, <2>2
  <1>4. ASSUME call[b].copy = row, row \in Rows, RowSound(row) PROVE Follows(b, n, k)
    <2>1. WriteDue(row)
      BY <1>1, <1>4 DEF RowSound, Valid, PreparedValid, WriteDue
    <2>2. writes[row.ws] = 1
      <3>1. row.ws \in Workspaces
        BY <1>2, BoundsAreCounts DEF CtlInv, RowInv, Workspaces
      <3> QED
        BY <1>2, <3>1 DEF CtlInv, DiskInv
    <2>3. "Reconciled" \in Resolutions
      BY DEF Resolutions
    <2>4. n \in Rows /\ n.ws = row.ws /\ RowFollows(n) /\ AdmissionFollows(n)
      BY <1>2, <1>4, <2>1, <2>2, <2>3, ResolvedFollows DEF WriteDue
    <2>5. PlaceFollows(b, n, k)
      BY <1>1, <1>3, <1>4, <2>4, SteadyFollows
    <2> QED
      BY <2>4, <2>5 DEF Follows
  <1>5. lease' \in [Brokers -> Leases \union {NoLease}] /\ \A d \in Brokers : SameHold(d)
    <2> PICK held : held = [lease[b] EXCEPT !.snap = "after"]
      OBVIOUS
    <2>1. lease \in [Brokers -> Leases \union {NoLease}] /\ lease[b] \in Leases
      BY <1>2 DEF CtlInv, LeaseInv
    <2>2. held \in Leases /\ held.ws = lease[b].ws /\ held.epoch = lease[b].epoch
          /\ held.opened = lease[b].opened
      BY <2>1 DEF Leases
    <2>3. held # NoLease /\ lease' = [lease EXCEPT ![b] = held]
      BY <1>1, <2>2, NothingIsNone
    <2> QED
      BY <1>2, <2>1, <2>2, <2>3 DEF SameHold
  <1> QED
    BY <1>1, <1>3, <1>4, <1>5, Swapping

\* A prepared write of which nothing certain can be said ends the run.
LEMMA InspectUnknownSound ==
    ASSUME CtlInv, NEW b \in Brokers, InspectUnknown(b)
    PROVE  CtlInv' /\ Earned
  <1> PICK n : n = Touched([call[b].copy EXCEPT !.cleanup = TRUE])
    OBVIOUS
  <1> PICK k : k = Ending(b, "Failed", "FailureRecorded", "last")
    OBVIOUS
  <1>1. /\ call[b].at = "effects" /\ call[b].at \notin {"idle", "open", "install"} /\ b \in Callers
        /\ Swap(b, n, k) /\ UNCHANGED <<log, disk>> /\ invoked' = invoked /\ WorldInv'
        /\ call[b] \in Calls /\ Leased(b, call[b].copy.ws)
    BY CallerIs DEF InspectUnknown, Due, Seen, At, Callers, world, CtlInv, WorldInv, Works
  <1>2. k \in Calls /\ k.at = "finish" /\ k.end # None /\ Ends(k)
    BY <1>1, LastEndingIs
  <1>3. ASSUME call[b].copy = row, row \in Rows, RowSound(row) PROVE Follows(b, n, k)
    <2>1. n \in Rows /\ Plain(row, n) /\ n.phase = row.phase /\ n.ledger = row.ledger
      BY <1>3 DEF Rows, Touched, Plain
    <2>2. RowFollows(n) /\ AdmissionFollows(n)
      BY <1>3, <2>1, PlainFollows, NothingIsNone DEF AdmissionFollows
    <2>3. PlaceFollows(b, n, k)
      BY <1>1, <1>2, <1>3, <2>1, SteadyFollows DEF Plain
    <2> QED
      BY <2>2, <2>3 DEF Follows
  <1> QED
    BY <1>1, <1>2, <1>3, Writing

\* Who is at the call of the broker is at work, with a write that is due and
\* not on the disk, or with a read.
LEMMA ExecutingIs ==
    ASSUME CtlInv, NEW b \in Brokers, Executing(b)
    PROVE  /\ call[b].at \in {"execute", "effects"} /\ call[b].at \in Works
           /\ Leased(b, call[b].copy.ws) /\ call[b].copy # None /\ RowSound(call[b].copy)
           /\ call[b].at = "execute" => WriteDue(call[b].copy) /\ Unwritten(b)
           /\ call[b].at = "effects" => NextEffect(b) = "read"
  <1>1. call[b].at \in {"execute", "effects"} /\ call[b].at \in Works /\ b \in Callers
        /\ (call[b].at = "effects" => NextEffect(b) = "read")
    BY DEF Executing, Due, At, Works, Callers
  <1>2. CallSound(b, call[b]) /\ Leased(b, call[b].copy.ws)
    BY <1>1, CallerIs
  <1>3. call[b].copy # None /\ RowSound(call[b].copy)
    BY <1>1, <1>2 DEF CallSound, CopySound
  <1>4. call[b].at = "execute" => WriteDue(call[b].copy) /\ Unwritten(b)
    BY <1>2 DEF CallSound, LeaseSound
  <1> QED
    BY <1>1, <1>2, <1>3, <1>4

\* Whose request is answered holds the row's own fence.
LEMMA RequestIs ==
    ASSUME CtlInv, NEW b \in Brokers, Executing(b), Active(lease[b]),
           Requested(row, lease[b], b \in unmoved, Seen(b))
    PROVE  /\ lease[b] # NoLease /\ lease[b] \in Leases /\ Current(row, lease[b]) /\ row # None
           /\ row \in Rows /\ RowSound(row)
           /\ row.ws = lease[b].ws /\ row.ws \in Workspaces /\ ~row.closed
           /\ row.phase = "Engineering"
           /\ Len(row.ledger) = Len(Seen(b).ledger) /\ Len(row.ledger) < Len(Plan)
           /\ row.prepared = (NextEffect(b) = "write")
           /\ root[row.ws] # "after"
           /\ CanClose(row, lease[b], b \in unmoved)
  <1>1. /\ lease[b] # NoLease /\ Current(row, lease[b]) /\ row # None
        /\ row.ws = lease[b].ws /\ ~row.closed /\ row.phase = "Engineering"
        /\ Len(row.ledger) = Len(Seen(b).ledger) /\ Len(row.ledger) < Len(Plan)
        /\ row.prepared = (NextEffect(b) = "write")
        /\ CanClose(row, lease[b], b \in unmoved)
    BY DEF Active, Requested, Live, RequireCurrent, Ownership, Current, NextEffect, CanClose,
           Owned
  <1>2. /\ row \in Rows /\ RowSound(row) /\ row.ws \in Workspaces /\ lease[b] \in Leases
        /\ Explained(row)
    BY <1>1, BoundsAreCounts DEF CtlInv, RowInv, RowSound, Workspaces, LeaseInv, DiskInv
  <1>3. root[row.ws] # "after"
    <2>1. CASE call[b].at = "execute"
      BY <1>1, <2>1, ExecutingIs DEF Unwritten
    <2>2. CASE call[b].at = "effects"
      BY <1>1, <1>2, <2>2, ExecutingIs, DueIsBefore DEF Explained
    <2> QED
      BY <2>1, <2>2, ExecutingIs
  <1> QED
    BY <1>1, <1>2, <1>3

\* The write reaches the workspace of the row, which never had it, by who
\* alone holds the fence.
LEMMA WrittenSound ==
    ASSUME CtlInv, NEW b \in Brokers, Executing(b), Active(lease[b]),
           Requested(row, lease[b], b \in unmoved, Seen(b)),
           NextEffect(b) = "write", root[lease[b].ws] = lease[b].snap,
           NEW ws, ws = lease[b].ws,
           root' = [root EXCEPT ![ws] = "after"],
           lease' = [lease EXCEPT ![b].snap = "after"],
           writes' = [writes EXCEPT ![ws] = @ + 1],
           Goto(b, [Step(b, "settle") EXCEPT !.got = "Written"]),
           UNCHANGED <<row, log, opened, unmoved, current>>, invoked' = invoked, WorldInv'
    PROVE  CtlInv' /\ Earned
  <1>1. /\ lease[b] # NoLease /\ lease[b] \in Leases /\ Current(row, lease[b]) /\ row # None
        /\ row \in Rows /\ RowSound(row)
        /\ row.ws = ws /\ ws \in Workspaces /\ ~row.closed
        /\ row.phase = "Engineering"
        /\ Len(row.ledger) = Len(Seen(b).ledger) /\ Len(row.ledger) < Len(Plan)
        /\ row.prepared /\ root[ws] # "after"
    BY RequestIs
  <1>2. root[ws] = "before"
    BY <1>1 DEF Leases
  <1>3. /\ call \in [Callers -> Calls] /\ root \in [Workspaces -> Roots]
        /\ writes \in [Workspaces -> 0..1] /\ b \in Callers
        /\ lease \in [Brokers -> Leases \union {NoLease}] /\ current \subseteq Callers
    BY DEF CtlInv, CallInv, DiskInv, LeaseInv, CurrentInv, Callers
  <1>4. writes[ws] = 0
    BY <1>1, <1>2, <1>3 DEF CtlInv, DiskInv
  <1>5. /\ root' \in [Workspaces -> Roots] /\ root'[ws] = "after"
        /\ writes' \in [Workspaces -> 0..1] /\ writes'[ws] = 1
        /\ \A w \in Workspaces \ {ws} : root'[w] = root[w] /\ writes'[w] = writes[w]
    BY <1>1, <1>3, <1>4 DEF Roots, Contents
  <1> PICK held : held = [lease[b] EXCEPT !.snap = "after"]
    OBVIOUS
  <1>6. held \in Leases /\ held.ws = ws /\ held.epoch = lease[b].epoch
        /\ held.opened = lease[b].opened
    BY <1>1 DEF Leases
  <1>7. /\ held # NoLease /\ lease'[b] = held
        /\ \A d \in Brokers \ {b} : lease'[d] = lease[d]
        /\ lease' \in [Brokers -> Leases \union {NoLease}]
    BY <1>3, <1>6, NothingIsNone
  <1>8. \A d \in Brokers : SameHold(d)
    BY <1>1, <1>6, <1>7 DEF SameHold
  <1>9. /\ call[b] \in Calls /\ CallSound(b, call[b]) /\ Ends(call[b])
        /\ Leased(b, call[b].copy.ws) /\ call[b].copy # None
        /\ call[b].at \in {"execute", "effects"}
    BY <1>3, CallerIs, ExecutingIs
  <1> PICK s : s = Step(b, "settle")
    OBVIOUS
  <1>10. s \in Calls /\ s.at = "settle" /\ s.copy = call[b].copy /\ s.end = call[b].end
    BY <1>3, <1>9, StepIs DEF Labels
  <1>11. PICK k : k = [s EXCEPT !.got = "Written"]
    OBVIOUS
  <1>12. k \in Calls /\ k.at = "settle" /\ k.copy = call[b].copy /\ k.end = call[b].end
         /\ k.got = "Written"
    BY <1>10, <1>11 DEF Calls, Resolutions
  <1>13. call' = [call EXCEPT ![b] = k] /\ call'[b] = k
         /\ \A d \in Callers \ {b} : call'[d] = call[d]
    BY <1>3, <1>11 DEF Goto
  <1>14. \A d \in Brokers \ {b} : ~(lease[d] # NoLease /\ Current(row, lease[d]))
    BY <1>1 DEF CtlInv, LeaseInv, Current
  <1>15. row' = row /\ log' = log /\ opened' = opened /\ unmoved' = unmoved
         /\ current' = current /\ Known = ws /\ Known' = ws
    BY <1>1 DEF Known
  <1>16. \A d \in Callers : CallSound(d, call[d])'
    <2> SUFFICES ASSUME NEW d \in Callers PROVE CallSound(d, call[d])'
      OBVIOUS
    <2> PICK e : e = call'[d]
      OBVIOUS
    <2>1. CASE d = b
      <3>1. e = k
        BY <1>13, <2>1
      <3>2. CopySound(call[d])' /\ PlaceSound(call[d])' /\ InvokeSound(call[d])'
        BY <1>9, <1>12, <1>15, <3>1
           DEF CallSound, CopySound, PlaceSound, InvokeSound, Frozen, Logged, Ends, Reconciling
      <3>3. WriteDue(k.copy)
        BY <1>1, <1>12 DEF WriteDue, Seen, NextEffect
      <3>4. lease'[b] # NoLease /\ lease'[b].ws = k.copy.ws /\ writes'[lease'[b].ws] = 1
        BY <1>5, <1>6, <1>7, <1>9, <1>12 DEF Leased
      <3>5. LeaseSound(d, call[d])'
        <4>1. WriteDue(call[d].copy)' /\ Len(k.copy.ledger) < Len(Plan)
          BY <3>1, <3>3 DEF WriteDue
        <4> QED
          BY <1>12, <2>1, <3>1, <3>4, <4>1 DEF LeaseSound, Leased
      <3> QED
        BY <3>2, <3>5 DEF CallSound
    <2>2. CASE d # b
      <3>1. e = call[d] /\ CallSound(d, e) /\ e \in Calls
        BY <1>13, <2>2, CallerIs
      <3>2. CopySound(call[d])' /\ PlaceSound(call[d])' /\ InvokeSound(call[d])'
        BY <1>15, <3>1
           DEF CallSound, CopySound, PlaceSound, InvokeSound, Frozen, Logged
      <3>3. ASSUME d \in Brokers PROVE LeaseSound(d, call[d])'
        <4>1. LeaseSound(d, e) /\ lease'[d] = lease[d]
          BY <1>7, <2>2, <3>1, <3>3 DEF CallSound
        <4>2. e.at = "recover" => \A f \in Brokers : lease'[f] # NoLease
                /\ lease'[f].ws = e.copy.ws => lease'[f].epoch # e.copy.epoch
          BY <1>8, <4>1 DEF LeaseSound, Leased, SameHold
        <4>3. e.at = "closeRow" => root'[e.copy.ws] = "absent"
          <5>1. e.at = "closeRow" => lease[d] # NoLease /\ lease[d].ws = e.copy.ws
            BY <4>1 DEF LeaseSound, Working, Works, Leased
          <5>2. lease[d] # NoLease => lease[d].ws \in Workspaces
            BY <3>3, BoundsAreCounts DEF CtlInv, LeaseInv, RowInv, Workspaces
          <5> QED
            BY <1>2, <1>5, <4>1, <5>1, <5>2 DEF LeaseSound
        <4>4. ~(lease'[d] # NoLease /\ Current(row', lease'[d]))
          BY <1>14, <1>15, <2>2, <3>3, <4>1
        <4>5. e.at = "settle" /\ e.got = "Written" => writes'[lease'[d].ws] = 1
          <5>1. e.at = "settle" => lease[d] # NoLease
            BY <4>1 DEF LeaseSound, Working, Works, Leased
          <5>2. lease[d] # NoLease => lease[d].ws \in Workspaces
            BY <3>3, BoundsAreCounts DEF CtlInv, LeaseInv, RowInv, Workspaces
          <5> QED
            BY <1>5, <4>1, <5>1, <5>2 DEF LeaseSound
        <4>6. Unwritten(d)'
          BY <4>4 DEF Unwritten
        <4> QED
          BY <4>1, <4>2, <4>3, <4>5, <4>6
             DEF LeaseSound, Leased, Working, WriteDue
      <3> QED
        BY <3>2, <3>3 DEF CallSound
    <2> QED
      BY <2>1, <2>2
  <1>17. CallInv'
    <2>1. call' \in [Callers -> Calls]
      BY <1>3, <1>12, <1>13
    <2>2. \A d \in Callers : call'[d].at \in {"calling", "recover"} => call'[d] = call[d]
      BY <1>12, <1>13
    <2> QED
      BY <1>16, <2>1, <2>2 DEF CtlInv, CallInv, At
  <1>18. CurrentInv'
    BY <1>9, <1>12, <1>13, <1>15 DEF CtlInv, CurrentInv, At
  <1>19. RowInv' /\ InvokedInv' /\ LogInv'
    BY <1>15 DEF CtlInv, RowInv, InvokedInv, LogInv, Acknowledgements
  <1>20. LeaseInv'
    BY <1>7, <1>8, <1>15, LeasesStay
  <1>21. DiskInv'
    <2>1. \A w \in Workspaces :
            /\ root'[w] = "after" => writes'[w] = 1
            /\ writes'[w] = 1 => root'[w] \in {"after", "absent"} /\ w <= Known
      <3> SUFFICES ASSUME NEW w \in Workspaces
            PROVE  /\ root'[w] = "after" => writes'[w] = 1
                   /\ writes'[w] = 1 => root'[w] \in {"after", "absent"} /\ w <= Known
        OBVIOUS
      <3>1. CASE w = ws
        BY <1>1, <1>5, <1>15, <3>1 DEF Workspaces
      <3>2. CASE w # ws
        BY <1>5, <3>2 DEF CtlInv, DiskInv
      <3> QED
        BY <3>1, <3>2
    <2>2. Explained(row)'
      BY <1>1, <1>5, <1>15 DEF Explained
    <2> QED
      BY <1>5, <1>15, <2>1, <2>2 DEF DiskInv
  <1>22. Earned
    BY <1>15 DEF Earned
  <1> QED
    BY <1>17, <1>18, <1>19, <1>20, <1>21, <1>22 DEF CtlInv

\* The effect is performed, denied, or not asked for.
LEMMA ExecuteEffectSound ==
    ASSUME CtlInv, NEW b \in Brokers, ExecuteEffect(b)
    PROVE  CtlInv' /\ Earned
  <1>1. /\ Executing(b) /\ b \in Callers /\ row' = row /\ log' = log /\ opened' = opened
        /\ unmoved' = unmoved /\ invoked' = invoked /\ WorldInv'
        /\ call[b] \in Calls /\ CallSound(b, call[b]) /\ Ends(call[b])
    BY CallerIs DEF ExecuteEffect, Callers, world, CtlInv, WorldInv
  <1>2. CASE Return(b) /\ UNCHANGED <<root, lease, writes>>
    BY <1>1, <1>2, Returning DEF disk
  <1>3. CASE Active(lease[b]) /\ Requested(row, lease[b], b \in unmoved, Seen(b))
    <2> PICK ws : ws = lease[b].ws
      OBVIOUS
    <2> PICK receipt : receipt = Receipt(NextEffect(b), lease[b], root[ws], expired)
      OBVIOUS
    <2>1. /\ root' = [root EXCEPT ![ws] = ContentAfter(receipt, @)]
          /\ lease' = [lease EXCEPT ![b].snap = IF receipt = "Written" THEN "after" ELSE @]
          /\ writes' = [writes EXCEPT ![ws] = IF receipt = "Written" THEN @ + 1 ELSE @]
          /\ Goto(b, [Step(b, "settle") EXCEPT !.got = receipt])
          /\ UNCHANGED current
      BY <1>3 DEF ExecuteEffect
    <2>2. receipt \in {"Read", "Written", "Denied"}
      BY DEF Receipt
    <2>3. /\ lease[b] # NoLease /\ lease[b] \in Leases /\ Current(row, lease[b]) /\ row # None
          /\ row.ws = ws /\ ws \in Workspaces /\ root[row.ws] # "after"
          /\ Len(row.ledger) = Len(Seen(b).ledger) /\ Len(row.ledger) < Len(Plan)
      BY <1>1, <1>3, RequestIs
    <2>4. CASE receipt = "Written"
      <3>1. NextEffect(b) = "write" /\ root[ws] = lease[b].snap
        BY <2>4 DEF Receipt, Admitted
      <3>2. /\ root' = [root EXCEPT ![ws] = "after"]
            /\ lease' = [lease EXCEPT ![b].snap = "after"]
            /\ writes' = [writes EXCEPT ![ws] = @ + 1]
            /\ Goto(b, [Step(b, "settle") EXCEPT !.got = "Written"])
        BY <2>1, <2>4 DEF ContentAfter
      <3> QED
        BY <1>1, <1>3, <2>1, <3>1, <3>2, WrittenSound
    <2>5. CASE receipt # "Written"
      <3>0. /\ lease \in [Brokers -> Leases \union {NoLease}]
            /\ root \in [Workspaces -> Roots] /\ writes \in [Workspaces -> 0..1]
        BY DEF CtlInv, LeaseInv, DiskInv
      <3>1. root' = [root EXCEPT ![ws] = root[ws]] /\ writes' = [writes EXCEPT ![ws] = writes[ws]]
        BY <2>1, <2>5 DEF ContentAfter
      <3>2. root' = root /\ writes' = writes
        BY <3>0, <3>1
      <3>3. lease' = lease
        <4>1. PICK held : held = [lease[b] EXCEPT !.snap = lease[b].snap]
          OBVIOUS
        <4>2. held = lease[b]
          BY <2>3, <4>1 DEF Leases
        <4>3. lease' = [lease EXCEPT ![b] = held]
          BY <2>1, <2>5, <4>1
        <4> QED
          BY <3>0, <4>2, <4>3
      <3> PICK s : s = Step(b, "settle")
        OBVIOUS
      <3>4. s \in Calls /\ s.at = "settle" /\ s.copy = call[b].copy /\ s.end = call[b].end
        BY <1>1, StepIs DEF Labels
      <3>5. PICK k : k = [s EXCEPT !.got = receipt]
        OBVIOUS
      <3>6. k \in Calls /\ k.at = "settle" /\ k.copy = call[b].copy /\ k.end = call[b].end
            /\ k.got = receipt
        BY <2>2, <3>4, <3>5 DEF Calls, Resolutions
      <3>7. Leased(b, k.copy.ws) /\ k.copy # None /\ call[b].at \in {"execute", "effects"}
        BY <1>1, <3>6, ExecutingIs
      <3>8. Unwritten(b) /\ Len(k.copy.ledger) < Len(Plan)
        BY <2>3, <3>6 DEF Unwritten, Seen
      <3>9. CallSound(b, k)
        BY <1>1, <2>2, <2>5, <3>6, <3>7, <3>8
           DEF CallSound, CopySound, PlaceSound, InvokeSound, LeaseSound, Ends, Reconciling
      <3>10. Goto(b, k) /\ UNCHANGED <<row, log, disk, unmoved, current>>
        BY <1>1, <2>1, <3>2, <3>3, <3>5 DEF disk
      <3> QED
        BY <1>1, <3>6, <3>7, <3>9, <3>10, Going
    <2> QED
      BY <2>4, <2>5
  <1> QED
    BY <1>2, <1>3 DEF ExecuteEffect

\* The file system refused, and the root is given up.
LEMMA FailBackendSound ==
    ASSUME CtlInv, NEW b \in Brokers, FailBackend(b)
    PROVE  CtlInv' /\ Earned
  <1>1. CloseOwned(b)
    BY RequestIs DEF FailBackend, CloseOwned
  <1> QED
    BY <1>1, Releasing DEF FailBackend, world, CtlInv, WorldInv

\* The receipt becomes a ledger entry.
LEMMA SettleEffectSound ==
    ASSUME CtlInv, NEW b \in Brokers, SettleEffect(b)
    PROVE  CtlInv' /\ Earned
  <1> PICK n : n = Resolved(Seen(b), call[b].got)
    OBVIOUS
  <1> PICK k : k = IF call[b].got = "Denied"
                   THEN Ending(b, "Failed", "FailureRecorded", "last")
                   ELSE Step(b, "effects")
    OBVIOUS
  <1>1. /\ call[b].at = "settle" /\ call[b].at \notin {"idle", "open", "install"} /\ b \in Callers
        /\ UNCHANGED <<log, disk>> /\ invoked' = invoked /\ WorldInv'
        /\ call[b] \in Calls /\ CallSound(b, call[b]) /\ Ends(call[b])
        /\ Leased(b, call[b].copy.ws)
    BY CallerIs DEF SettleEffect, At, Callers, world, CtlInv, WorldInv, Works
  <1>2. CASE Return(b) /\ UNCHANGED <<row, unmoved>>
    BY <1>1, <1>2, Refusing
  <1>3. CASE Live(row, lease[b], b \in unmoved) /\ Swap(b, n, k)
    <2>1. /\ Current(row, lease[b]) /\ row # None /\ row.ws = lease[b].ws /\ ~row.closed
          /\ row.phase = "Engineering"
      BY <1>3 DEF Live, RequireCurrent, Ownership, Current
    <2>2. /\ call[b].got \in {"Read", "Written", "Denied"}
          /\ Len(call[b].copy.ledger) < Len(Plan)
          /\ IF call[b].got = "Written"
             THEN WriteDue(call[b].copy) /\ writes[lease[b].ws] = 1
             ELSE Unwritten(b)
      BY <1>1 DEF CallSound, LeaseSound
    <2>3. k \in Calls /\ Ends(k) /\ (k.at \in Steady \/ (k.at = "finish" /\ k.end # None))
      <3>1. CASE k = Ending(b, "Failed", "FailureRecorded", "last")
        BY <1>1, <3>1, LastEndingIs
      <3>2. CASE k = Step(b, "effects")
        BY <1>1, <3>2, StepIs DEF Labels, Steady, Ends
      <3> QED
        BY <3>1, <3>2
    <2>4. ASSUME call[b].copy = row, row \in Rows, RowSound(row) PROVE Follows(b, n, k)
      <3>1. call[b].got \in Resolutions
        BY <2>2 DEF Resolutions
      <3>2. IF call[b].got \in {"Written", "Reconciled"}
            THEN WriteDue(row) /\ writes[row.ws] = 1
            ELSE root[row.ws] # "after"
        BY <1>1, <2>1, <2>2, <2>4 DEF Unwritten, Leased
      <3>3. n = Resolved(row, call[b].got) /\ Len(row.ledger) < Len(Plan)
        BY <2>2, <2>4 DEF Seen
      <3>4. n \in Rows /\ n.ws = row.ws /\ RowFollows(n) /\ AdmissionFollows(n)
        BY <2>1, <2>4, <3>1, <3>2, <3>3, ResolvedFollows
      <3>5. PlaceFollows(b, n, k)
        BY <1>1, <2>3, <2>4, <3>4, SteadyFollows
      <3> QED
        BY <3>4, <3>5 DEF Follows
    <2> QED
      BY <1>1, <1>3, <2>3, <2>4, Writing
  <1> QED
    BY <1>2, <1>3 DEF SettleEffect

-----------------------------------------------------------------------------
(* The actions: the verifier.                                              *)

\* What the verifier's state becomes leaves the rest of the row alone.
LEMMA VerifierFollows ==
    ASSUME CtlInv, row \in Rows, NEW v \in VerifierStates,
           NEW n, n = Touched([row EXCEPT !.verifier = v])
    PROVE  n \in Rows /\ n.ws = row.ws /\ RowFollows(n) /\ AdmissionFollows(n)
  <1>1. n \in Rows /\ Plain(row, n) /\ n.phase = row.phase /\ n.ledger = row.ledger
    BY DEF Rows, Touched, Plain
  <1> QED
    BY <1>1, PlainFollows, NothingIsNone DEF AdmissionFollows, Plain

\* The workspace is sealed and the engineer's part is over.
LEMMA SealSound ==
    ASSUME CtlInv, NEW b \in Brokers, Seal(b)
    PROVE  CtlInv' /\ Earned
  <1> PICK n : n = Touched([call[b].copy EXCEPT !.verifier = "NotStarted"])
    OBVIOUS
  <1> PICK k : k = Ending(b, "Verifying", "EngineerCompleted", "none")
    OBVIOUS
  <1>1. /\ call[b].at = "effects" /\ call[b].at \notin {"idle", "open", "install"} /\ b \in Callers
        /\ UNCHANGED <<log, disk>> /\ invoked' = invoked /\ WorldInv'
        /\ call[b] \in Calls /\ Leased(b, call[b].copy.ws)
    BY CallerIs DEF Seal, At, Callers, world, CtlInv, WorldInv, Works
  <1>2. CASE Return(b) /\ UNCHANGED <<row, unmoved>>
    BY <1>1, <1>2, Refusing
  <1>3. CASE Swap(b, n, k)
    <2>1. k \in Calls /\ k.at = "finish" /\ k.end # None /\ Ends(k)
      <3>1. "Verifying" \in Phases /\ "EngineerCompleted" \in Triggers
        BY DEF Phases, Triggers
      <3> QED
        BY <1>1, <3>1, EndingIs DEF Ends
    <2>2. ASSUME call[b].copy = row, row \in Rows, RowSound(row) PROVE Follows(b, n, k)
      <3>1. "NotStarted" \in VerifierStates
        BY DEF VerifierStates
      <3>2. n \in Rows /\ n.ws = row.ws /\ RowFollows(n) /\ AdmissionFollows(n)
        BY <2>2, <3>1, VerifierFollows
      <3>3. PlaceFollows(b, n, k)
        BY <1>1, <2>1, <2>2, <3>2, SteadyFollows
      <3> QED
        BY <3>2, <3>3 DEF Follows
    <2> QED
      BY <1>1, <1>3, <2>1, <2>2, Writing
  <1> QED
    BY <1>2, <1>3 DEF Seal, Seen

\* The verifier is started with what was current when its workspace was sealed.
LEMMA VerifierStarts ==
    ASSUME CtlInv, NEW b \in Brokers, call[b].at \in {"startVerifier", "reseal"},
           NEW seen \in {"Absent"} \union Bank,
           Swap(b, Touched([Seen(b) EXCEPT !.verifier = "Started"]),
                [Step(b, "verify") EXCEPT !.got = seen]),
           UNCHANGED <<log, disk>>, invoked' = invoked, WorldInv'
    PROVE  CtlInv' /\ Earned
  <1>0. PICK n : n = Touched([call[b].copy EXCEPT !.verifier = "Started"])
    OBVIOUS
  <1>1. /\ call[b].at \notin {"idle", "open", "install"} /\ b \in Callers
        /\ call[b] \in Calls /\ Ends(call[b]) /\ Leased(b, call[b].copy.ws)
    BY CallerIs DEF Callers, Works
  <1> PICK s : s = Step(b, "verify")
    OBVIOUS
  <1>2. s \in Calls /\ s.at = "verify" /\ s.end = call[b].end
    BY <1>1, StepIs DEF Labels
  <1>3. PICK k : k = [s EXCEPT !.got = seen]
    OBVIOUS
  <1>4. k \in Calls /\ k.at = "verify" /\ k.end = call[b].end
    BY <1>2, <1>3 DEF Calls
  <1>5. k.at \in Steady /\ Ends(k)
    BY <1>1, <1>4 DEF Steady, Ends
  <1>6. ASSUME call[b].copy = row, row \in Rows, RowSound(row) PROVE Follows(b, n, k)
    <2>1. "Started" \in VerifierStates
      BY DEF VerifierStates
    <2>2. n \in Rows /\ n.ws = row.ws /\ RowFollows(n) /\ AdmissionFollows(n)
      BY <1>0, <1>6, <2>1, VerifierFollows
    <2>3. PlaceFollows(b, n, k)
      BY <1>1, <1>5, <1>6, <2>2, SteadyFollows
    <2> QED
      BY <2>2, <2>3 DEF Follows
  <1>7. Swap(b, n, k)
    BY <1>0, <1>3 DEF Seen
  <1> QED
    BY <1>1, <1>4, <1>6, <1>7, Writing

\* A first verification is started when nothing is current.
LEMMA StartVerifierSound ==
    ASSUME CtlInv, NEW b \in Brokers, StartVerifier(b)
    PROVE  CtlInv' /\ Earned
  BY VerifierStarts DEF StartVerifier, At, world, CtlInv, WorldInv

\* A resumed verification seals the workspace again.
LEMMA ResealSound ==
    ASSUME CtlInv, NEW b \in Brokers, Reseal(b)
    PROVE  CtlInv' /\ Earned
  <1>1. /\ call[b].at = "reseal" /\ b \in Callers
        /\ UNCHANGED <<log, disk>> /\ invoked' = invoked /\ WorldInv' /\ bank \in Bank
        /\ call[b] \in Calls /\ Ends(call[b]) /\ Leased(b, call[b].copy.ws)
        /\ call[b].copy # None
    BY CallerIs DEF Reseal, At, Callers, world, CtlInv, WorldInv, Works, CallSound, CopySound
  <1>2. CASE Return(b) /\ UNCHANGED <<row, unmoved>>
    BY <1>1, <1>2, Refusing
  <1>3. CASE Swap(b, Touched([Seen(b) EXCEPT !.verifier = "Started"]),
                  [Step(b, "verify") EXCEPT !.got = bank])
    BY <1>1, <1>3, VerifierStarts
  <1>4. CASE /\ Goto(b, [Step(b, "verify") EXCEPT !.got = bank])
             /\ UNCHANGED <<row, unmoved, current>>
    <2> PICK s : s = Step(b, "verify")
      OBVIOUS
    <2>1. s \in Calls /\ s.at = "verify" /\ s.end = call[b].end /\ s.copy = call[b].copy
      BY <1>1, StepIs DEF Labels
    <2>2. PICK k : k = [s EXCEPT !.got = bank]
      OBVIOUS
    <2>3. k \in Calls /\ k.at = "verify" /\ k.end = call[b].end /\ k.copy = call[b].copy
      BY <1>1, <2>1, <2>2 DEF Calls
    <2>4. k.at \in Steady /\ Ends(k)
      BY <1>1, <2>3 DEF Steady, Ends
    <2>5. CallSound(b, k)
      BY <1>1, <2>3, <2>4, SteadySound
    <2>6. Goto(b, k)
      BY <1>4, <2>2
    <2> QED
      BY <1>1, <1>4, <2>3, <2>5, <2>6, Going
  <1> QED
    BY <1>2, <1>3, <1>4 DEF Reseal

\* The verdict, and the bundle it leaves in the bank.
LEMMA VerifySound ==
    ASSUME CtlInv, NEW b \in Brokers, Verify(b)
    PROVE  CtlInv' /\ Earned
  <1>1. /\ call[b].at = "verify" /\ b \in Callers
        /\ UNCHANGED <<row, log, disk, unmoved>> /\ invoked' = invoked
        /\ expired' = expired /\ holder' = holder
        /\ call[b] \in Calls /\ Ends(call[b]) /\ Leased(b, call[b].copy.ws)
        /\ call[b].copy # None
    BY CallerIs DEF Verify, At, Callers, Works, CallSound, CopySound
  <1>2. WorldInv'
    <2>1. bank' \in {"Pass", "Fail", bank}
      BY DEF Verify
    <2> QED
      BY <1>1, <2>1 DEF CtlInv, WorldInv, Bank
  <1>3. CASE Return(b)
    BY <1>1, <1>2, <1>3, Returning
  <1>4. CASE Goto(b, Ending(b, "Failed", "FailureRecorded", "last")) /\ UNCHANGED current
    <2> PICK k : k = Ending(b, "Failed", "FailureRecorded", "last")
      OBVIOUS
    <2>1. k \in Calls /\ k.at = "finish" /\ k.end # None /\ Ends(k) /\ k.copy = call[b].copy
      BY <1>1, LastEndingIs
    <2>2. CallSound(b, k)
      BY <1>1, <2>1, SteadySound
    <2> QED
      BY <1>1, <1>2, <1>4, <2>1, <2>2, Going
  <1>5. CASE Goto(b, Step(b, "observe")) /\ UNCHANGED current
    <2> PICK k : k = Step(b, "observe")
      OBVIOUS
    <2>1. k \in Calls /\ k.at = "observe" /\ k.copy = call[b].copy /\ k.at \in Steady /\ Ends(k)
      BY <1>1, StepIs DEF Labels, Steady, Ends
    <2>2. CallSound(b, k)
      BY <1>1, <2>1, SteadySound
    <2> QED
      BY <1>1, <1>2, <1>5, <2>1, <2>2, Going
  <1> QED
    BY <1>3, <1>4, <1>5 DEF Verify

\* What was published is read again.
LEMMA ObserveSound ==
    ASSUME CtlInv, NEW b \in Brokers, Observe(b)
    PROVE  CtlInv' /\ Earned
  <1> PICK v : v = IF call[b].got = "Stale" THEN "ObservedStale" ELSE "Observed"
    OBVIOUS
  <1> PICK n : n = Touched([call[b].copy EXCEPT !.verifier = v])
    OBVIOUS
  <1> PICK k : k = Step(b, "admit")
    OBVIOUS
  <1>1. /\ call[b].at = "observe" /\ call[b].at \notin {"idle", "open", "install"} /\ b \in Callers
        /\ UNCHANGED <<log, disk>> /\ invoked' = invoked /\ WorldInv'
        /\ call[b] \in Calls /\ Ends(call[b]) /\ Leased(b, call[b].copy.ws)
    BY CallerIs DEF Observe, At, Callers, world, CtlInv, WorldInv, Works
  <1>2. CASE Return(b) /\ UNCHANGED <<row, unmoved>>
    BY <1>1, <1>2, Refusing
  <1>3. CASE Swap(b, n, k)
    <2>1. k \in Calls /\ k.at = "admit" /\ k.at \in Steady /\ Ends(k)
      BY <1>1, StepIs DEF Labels, Steady, Ends
    <2>2. ASSUME call[b].copy = row, row \in Rows, RowSound(row) PROVE Follows(b, n, k)
      <3>1. v \in VerifierStates
        BY DEF VerifierStates
      <3>2. n \in Rows /\ n.ws = row.ws /\ RowFollows(n) /\ AdmissionFollows(n)
        BY <2>2, <3>1, VerifierFollows
      <3>3. PlaceFollows(b, n, k)
        BY <1>1, <2>1, <2>2, <3>2, SteadyFollows
      <3> QED
        BY <3>2, <3>3 DEF Follows
    <2> QED
      BY <1>1, <1>3, <2>1, <2>2, Writing
  <1> QED
    BY <1>2, <1>3 DEF Observe, Seen

\* The admitted row enters Reviewing, unless a cancellation came first.
LEMMA AdmittedIs ==
    ASSUME NEW r \in Rows, NEW n, n = AdmittedRow(r)
    PROVE  n \in Rows /\ Plain(r, n) /\ (n.phase = "Reviewing" => ~r.cancelled)
           /\ n.phase \in {"Cancelled", "Reviewing"}
  <1>1. /\ "Cancelled" \in Phases /\ "CancellationAccepted" \in Triggers
        /\ "Reviewing" \in Phases /\ "VerificationEvidenceAccepted" \in Triggers
        /\ "Admitted" \in VerifierStates
    BY DEF Phases, Terminal, Triggers, VerifierStates
  <1>2. CASE r.cancelled
    <2>1. n = Moved(r, "Cancelled", "CancellationAccepted")
      BY <1>2 DEF AdmittedRow
    <2> QED
      BY <1>1, <1>2, <2>1, MovedIs
  <1>3. CASE ~r.cancelled
    <2>1. PICK s : s = [r EXCEPT !.verifier = "Admitted"]
      OBVIOUS
    <2>2. s \in Rows /\ Plain(r, s)
      BY <1>1, <2>1 DEF Rows, Plain
    <2>3. n = Moved(s, "Reviewing", "VerificationEvidenceAccepted")
      BY <1>3, <2>1 DEF AdmittedRow
    <2>4. n \in Rows /\ Plain(s, n) /\ n.phase = "Reviewing"
      BY <1>1, <2>2, <2>3, MovedIs
    <2> QED
      BY <1>3, <2>2, <2>4 DEF Plain
  <1> QED
    BY <1>2, <1>3

\* Only evidence that passed, and is current as it is stored, admits a run.
LEMMA AdmitSound ==
    ASSUME CtlInv, NEW b \in Brokers, Admit(b)
    PROVE  CtlInv' /\ Earned
  <1>1. /\ call[b].at = "admit" /\ call[b].at \notin {"idle", "open", "install"} /\ b \in Callers
        /\ UNCHANGED <<log, disk>> /\ invoked' = invoked /\ WorldInv'
        /\ call[b] \in Calls /\ Ends(call[b]) /\ Leased(b, call[b].copy.ws)
        /\ call[b].copy # None
    BY CallerIs DEF Admit, At, Callers, world, CtlInv, WorldInv, Works, CallSound, CopySound
  <1>2. CASE Return(b) /\ UNCHANGED <<row, unmoved>>
    BY <1>1, <1>2, Refusing
  <1>3. CASE /\ Observed(b) /\ bank # "Stale"
             /\ Swap(b, AdmittedRow(Seen(b)), [Step(b, "look") EXCEPT !.then = "closeRoot"])
    <2>0. PICK n : n = AdmittedRow(call[b].copy)
      OBVIOUS
    <2> PICK s : s = Step(b, "look")
      OBVIOUS
    <2>1. s \in Calls /\ s.at = "look" /\ s.end = call[b].end
      BY <1>1, StepIs DEF Labels
    <2>2. PICK k : k = [s EXCEPT !.then = "closeRoot"]
      OBVIOUS
    <2>3. k \in Calls /\ k.at = "look" /\ k.then = "closeRoot" /\ k.end = call[b].end
      BY <2>1, <2>2 DEF Calls, Labels
    <2>4. ASSUME call[b].copy = row, row \in Rows, RowSound(row) PROVE Follows(b, n, k)
      <3>1. n \in Rows /\ Plain(row, n) /\ (n.phase = "Reviewing" => ~row.cancelled)
        BY <2>0, <2>4, AdmittedIs
      <3>2. bank = "Pass"
        BY <1>3 DEF Observed
      <3>3. RowFollows(n) /\ AdmissionFollows(n)
        BY <2>4, <3>1, <3>2, PlainFollows, NothingIsNone DEF AdmissionFollows, Plain
      <3>4. PlaceFollows(b, n, k)
        BY <1>1, <2>3, <2>4, <3>1 DEF PlaceFollows, Plain, Thens, Ends, Leased
      <3> QED
        BY <3>3, <3>4 DEF Follows
    <2>5. Swap(b, n, k)
      BY <1>3, <2>0, <2>2 DEF Seen
    <2> QED
      BY <1>1, <2>3, <2>4, <2>5, Writing
  <1>4. CASE Goto(b, Closing(b, "Failed", "FailureRecorded")) /\ UNCHANGED <<row, unmoved, current>>
    <2> PICK k : k = Closing(b, "Failed", "FailureRecorded")
      OBVIOUS
    <2>1. "Failed" \in Phases /\ "FailureRecorded" \in Triggers
      BY DEF Phases, Terminal, Triggers
    <2>2. k \in Calls /\ k.at \in Steady /\ k.copy = call[b].copy /\ Ends(k)
          /\ k.at = "closeRoot"
      BY <1>1, <2>1, ClosingIs DEF Steady, Ends
    <2>3. CallSound(b, k)
      BY <1>1, <2>2, SteadySound
    <2> QED
      BY <1>1, <1>4, <2>2, <2>3, Going
  <1> QED
    BY <1>2, <1>3, <1>4 DEF Admit

-----------------------------------------------------------------------------
(* The actions: the end of a drive, and the visitors.                      *)

\* The workspace is closed before the row says so.
LEMMA CloseRootSound ==
    ASSUME CtlInv, NEW b \in Brokers, CloseRoot(b)
    PROVE  CtlInv' /\ Earned
  <1>1. /\ call[b].at = "closeRoot" /\ b \in Callers /\ CloseOwned(b)
        /\ row' = row /\ log' = log /\ opened' = opened /\ writes' = writes /\ unmoved' = unmoved
        /\ invoked' = invoked /\ WorldInv'
        /\ call[b] \in Calls /\ CallSound(b, call[b]) /\ Ends(call[b])
        /\ Leased(b, call[b].copy.ws)
    BY CallerIs DEF CloseRoot, At, Callers, world, CtlInv, WorldInv, Works
  <1>2. CASE Return(b)
    BY <1>1, <1>2, Releasing
  <1>3. CASE /\ CanClose(row, lease[b], b \in unmoved)
             /\ Goto(b, Step(b, "closeRow")) /\ UNCHANGED current
    <2> PICK k : k = Step(b, "closeRow")
      OBVIOUS
    <2>1. k \in Calls /\ k.at = "closeRow" /\ k.copy = call[b].copy /\ k.end = call[b].end
      BY <1>1, StepIs DEF Labels
    <2>2. /\ root' \in [Workspaces -> Roots]
          /\ \A w \in Workspaces : root'[w] = root[w] \/ root'[w] = "absent"
          /\ lease' \in [Brokers -> Leases \union {NoLease}]
          /\ \A d \in Brokers : SameHold(d)
          /\ root'[k.copy.ws] = "absent" /\ lease'[b] # NoLease /\ lease'[b].ws = k.copy.ws
      BY <1>1, <1>3, <2>1, CloseOwnedRemoves DEF Leased, SameHold
    <2>3. call \in [Callers -> Calls] /\ current \subseteq Callers
      BY DEF CtlInv, CallInv, CurrentInv
    <2>4. /\ call' \in [Callers -> Calls] /\ call'[b] = k
          /\ \A d \in Callers \ {b} : call'[d] = call[d]
      BY <1>1, <1>3, <2>1, <2>3 DEF Goto
    <2>5. CallSound(b, call[b])'
      BY <1>1, <2>1, <2>2, <2>4
         DEF CallSound, CopySound, PlaceSound, InvokeSound, LeaseSound, Frozen, Logged,
             Leased, Ends, Reconciling
    <2>6. \A d \in Callers : Moves(d)
      <3>1. b \in current' => k.copy = row
        BY <1>1, <1>3, <2>1 DEF CtlInv, CurrentInv, At
      <3> QED
        BY <1>3, <2>1, <2>4, <2>5, <3>1 DEF Moves
    <2> QED
      BY <1>1, <1>3, <2>2, <2>3, <2>4, <2>6, Shrinking DEF Shrinks
  <1> QED
    BY <1>2, <1>3 DEF CloseRoot

\* The row says that the workspace is closed.
LEMMA CloseRowSound ==
    ASSUME CtlInv, NEW b \in Brokers, CloseRow(b)
    PROVE  CtlInv' /\ Earned
  <1> PICK n : n = [call[b].copy EXCEPT !.closed = TRUE, !.cleanup = FALSE]
    OBVIOUS
  <1> PICK label : label = IF call[b].end # None /\ call[b].end.tidy = "first"
                           THEN "finish" ELSE "done"
    OBVIOUS
  <1> PICK k : k = Step(b, label)
    OBVIOUS
  <1>1. /\ call[b].at = "closeRow" /\ call[b].at \notin {"idle", "open", "install"} /\ b \in Callers
        /\ Swap(b, n, k) /\ UNCHANGED <<log, disk>> /\ invoked' = invoked /\ WorldInv'
        /\ call[b] \in Calls /\ Ends(call[b]) /\ Leased(b, call[b].copy.ws)
        /\ root[call[b].copy.ws] = "absent"
    BY CallerIs DEF CloseRow, Seen, At, Callers, world, CtlInv, WorldInv, Works, CallSound,
                    LeaseSound
  <1>2. k \in Calls /\ k.at = label /\ k.end = call[b].end
    BY <1>1, StepIs DEF Labels
  <1>3. ASSUME call[b].copy = row, row \in Rows, RowSound(row) PROVE Follows(b, n, k)
    <2>1. RowFollows(n) /\ AdmissionFollows(n) /\ n.ws = row.ws
      BY <1>1, <1>3, ClosedFollows
    <2>2. k.at # "done" => PlaceFollows(b, n, k)
      BY <1>1, <1>2, <1>3, <2>1, SteadyFollows DEF Ends
    <2> QED
      BY <2>1, <2>2 DEF Follows
  <1> QED
    BY <1>1, <1>2, <1>3, Writing

\* The last transition of a drive.
LEMMA FinishSound ==
    ASSUME CtlInv, NEW b \in Brokers, Finish(b)
    PROVE  CtlInv' /\ Earned
  <1> PICK end : end = call[b].end
    OBVIOUS
  <1> PICK onward : onward = IF end.tidy = "last" THEN "closeRoot"
                             ELSE IF end.to = "Verifying" THEN "startVerifier" ELSE "done"
    OBVIOUS
  <1>1. /\ call[b].at = "finish" /\ call[b].at \notin {"idle", "open", "install"} /\ b \in Callers
        /\ UNCHANGED <<log, disk>> /\ invoked' = invoked /\ WorldInv'
        /\ call[b] \in Calls /\ CallSound(b, call[b])
    BY CallerIs DEF Finish, At, Callers, world, CtlInv, WorldInv
  <1>2. CASE Return(b) /\ UNCHANGED <<row, unmoved>>
    BY <1>1, <1>2, Refusing
  <1>3. CASE Swap(b, Moved(Seen(b), end.to, end.trigger), [Step(b, "look") EXCEPT !.then = onward])
    <2>0. PICK n : n = Moved(call[b].copy, end.to, end.trigger)
      OBVIOUS
    <2> PICK s : s = Step(b, "look")
      OBVIOUS
    <2>1. s \in Calls /\ s.at = "look" /\ s.end = end
      BY <1>1, StepIs DEF Labels
    <2>2. PICK k : k = [s EXCEPT !.then = onward]
      OBVIOUS
    <2>3. /\ onward \in {"closeRoot", "startVerifier", "done"}
          /\ onward = "closeRoot" => end.tidy = "last"
          /\ onward = "startVerifier" => end.to = "Verifying"
      OBVIOUS
    <2>4. k \in Calls /\ k.at = "look" /\ k.then = onward /\ k.end = end
      BY <2>1, <2>2, <2>3 DEF Calls, Labels
    <2>5. end # None /\ end \in Endings /\ end.to # "Reviewing"
          /\ end.to \in Phases /\ end.trigger \in Triggers
      <3>1. end # None /\ end.to # "Reviewing" /\ end \in Endings \union {None}
        BY <1>1 DEF CallSound, PlaceSound, Calls
      <3> QED
        BY <3>1 DEF Endings
    <2>6. onward # "done" => Leased(b, call[b].copy.ws)
      BY <1>1, <2>3 DEF CallSound, LeaseSound, Working
    <2>7. ASSUME call[b].copy = row, row \in Rows, RowSound(row) PROVE Follows(b, n, k)
      <3>1. n \in Rows /\ Plain(row, n) /\ n.phase = end.to
        BY <2>0, <2>5, <2>7, MovedIs
      <3>2. RowFollows(n) /\ AdmissionFollows(n)
        BY <2>5, <2>7, <3>1, PlainFollows, NothingIsNone DEF AdmissionFollows, Plain
      <3>3. PlaceFollows(b, n, k)
        BY <2>3, <2>4, <2>5, <2>6, <2>7, <3>1
           DEF PlaceFollows, Plain, Thens, Leased, Working, Works, Reconciling
      <3> QED
        BY <3>2, <3>3 DEF Follows
    <2>8. Swap(b, n, k)
      BY <1>3, <2>0, <2>2 DEF Seen
    <2> QED
      BY <1>1, <2>4, <2>7, <2>8, Writing
  <1> QED
    BY <1>2, <1>3 DEF Finish

\* A visitor writes the row and has no place to go on at.
LEMMA IdleFollows ==
    ASSUME NEW c, NEW next
    PROVE  PlaceFollows(c, next, Idle)
  BY DEF PlaceFollows, Idle, Working, Works, Reconciling

\* A cancellation is requested.
LEMMA RequestCancellationSound ==
    ASSUME CtlInv, NEW v \in Visitors, RequestCancellation(v)
    PROVE  CtlInv' /\ Earned
  <1> PICK n : n = Touched([call[v].copy EXCEPT !.cancelled = TRUE])
    OBVIOUS
  <1>1. /\ call[v].at = "request" /\ call[v].at \notin {"idle", "open", "install"} /\ v \in Callers
        /\ UNCHANGED <<log, disk>> /\ invoked' = invoked /\ WorldInv'
    BY DEF RequestCancellation, At, Callers, world, CtlInv, WorldInv
  <1>2. CASE Return(v) /\ UNCHANGED <<row, unmoved>>
    BY <1>1, <1>2, Refusing
  <1>3. CASE Swap(v, n, Idle)
    <2>1. ASSUME call[v].copy = row, row \in Rows, RowSound(row) PROVE Follows(v, n, Idle)
      <3>1. n \in Rows /\ Plain(row, n) /\ n.phase = row.phase /\ n.ledger = row.ledger
        BY <2>1 DEF Rows, Touched, Plain
      <3> QED
        BY <2>1, <3>1, PlainFollows, NothingIsNone, IdleFollows DEF AdmissionFollows, Follows
    <2> QED
      BY <1>1, <1>3, <2>1, IdleIsSound, Writing
  <1> QED
    BY <1>2, <1>3 DEF RequestCancellation, Seen

\* A heartbeat only touches the controller's time.
LEMMA HeartbeatSound ==
    ASSUME CtlInv, NEW v \in Visitors, Heartbeat(v)
    PROVE  CtlInv' /\ Earned
  <1> PICK n : n = Touched(call[v].copy)
    OBVIOUS
  <1>1. /\ call[v].at = "beat" /\ call[v].at \notin {"idle", "open", "install"} /\ v \in Callers
        /\ UNCHANGED <<log, disk>> /\ invoked' = invoked /\ WorldInv'
    BY DEF Heartbeat, At, Callers, world, CtlInv, WorldInv
  <1>2. CASE Return(v) /\ UNCHANGED <<row, unmoved>>
    BY <1>1, <1>2, Refusing
  <1>3. CASE Swap(v, n, Idle)
    <2>1. ASSUME call[v].copy = row, row \in Rows, RowSound(row) PROVE Follows(v, n, Idle)
      <3>1. n \in Rows /\ Plain(row, n) /\ n.phase = row.phase /\ n.ledger = row.ledger
        BY <2>1 DEF Rows, Touched, Plain
      <3> QED
        BY <2>1, <3>1, PlainFollows, NothingIsNone, IdleFollows DEF AdmissionFollows, Follows
    <2> QED
      BY <1>1, <1>3, <2>1, IdleIsSound, Writing
  <1> QED
    BY <1>2, <1>3 DEF Heartbeat, Seen

-----------------------------------------------------------------------------
(* The actions: what else happens.                                         *)

\* A broker is gone: its registry and its call are, and a root may be.
LEMMA Forgetting ==
    ASSUME CtlInv, NEW b \in Brokers, Forget(b),
           UNCHANGED <<row, log, opened, writes, bank, expired, invoked>>,
           root' \in [Workspaces -> Roots], \A w \in Workspaces : Shrinks(w)
    PROVE  CtlInv' /\ Earned
  <1>1. /\ call' = [call EXCEPT ![b] = Idle] /\ current' = current \ {b} /\ b \in Callers
        /\ lease' = [lease EXCEPT ![b] = NoLease] /\ unmoved' = unmoved \ {b}
        /\ holder' \in {holder, Nobody}
        /\ call \in [Callers -> Calls] /\ current \subseteq Callers
        /\ lease \in [Brokers -> Leases \union {NoLease}]
    BY DEF Forget, Return, Goto, Callers, CtlInv, CallInv, CurrentInv, LeaseInv
  <1>2. call' \in [Callers -> Calls] /\ \A c \in Callers : Moves(c)
    BY <1>1, IdleIsSound DEF Moves
  <1>3. /\ lease' \in [Brokers -> Leases \union {NoLease}]
        /\ \A d \in Brokers : SameHold(d) \/ (lease'[d] = NoLease /\ d \notin unmoved'
                                              /\ call'[d] = Idle)
    BY <1>1 DEF SameHold
  <1>4. WorldInv'
    BY <1>1 DEF CtlInv, WorldInv
  <1> QED
    BY <1>1, <1>2, <1>3, <1>4, Shrinking

\* A crash leaves the stores as they are.
LEMMA CrashSound ==
    ASSUME CtlInv, NEW b \in Brokers, Crash(b)
    PROVE  CtlInv' /\ Earned
  <1>1. Forget(b) /\ UNCHANGED <<row, log, root, opened, writes, bank, expired, invoked>>
    BY DEF Crash, world
  <1>2. root' \in [Workspaces -> Roots] /\ \A w \in Workspaces : Shrinks(w)
    BY <1>1 DEF Shrinks, CtlInv, DiskInv
  <1> QED
    BY <1>1, <1>2, Forgetting

\* A torn write leaves a file that is neither the old one nor the new.
LEMMA TearWriteSound ==
    ASSUME CtlInv, NEW b \in Brokers, TearWrite(b)
    PROVE  CtlInv' /\ Earned
  <1>1. /\ Forget(b) /\ UNCHANGED <<row, log, opened, writes, bank, expired, invoked>>
        /\ root' = [root EXCEPT ![lease[b].ws] = "other"]
        /\ root[lease[b].ws] = lease[b].snap
    BY DEF TearWrite, Admitted, world
  <1>2. /\ lease[b] \in Leases /\ row.ws = lease[b].ws /\ row.ws \in Workspaces
        /\ root[row.ws] # "after"
    BY RequestIs DEF TearWrite
  <1>3. root \in [Workspaces -> Roots] /\ root[row.ws] = "before"
    BY <1>1, <1>2 DEF Leases, CtlInv, DiskInv
  <1>4. root' \in [Workspaces -> Roots] /\ \A w \in Workspaces : Shrinks(w)
    BY <1>1, <1>2, <1>3 DEF Shrinks, Roots, Contents
  <1> QED
    BY <1>1, <1>4, Forgetting

\* A broker that is dropped removes what it owns.
LEMMA DropBrokerSound ==
    ASSUME CtlInv, NEW b \in Brokers, DropBroker(b)
    PROVE  CtlInv' /\ Earned
  <1>1. /\ Forget(b) /\ UNCHANGED <<row, log, opened, writes, bank, expired, invoked>>
        /\ root' = [root EXCEPT ![lease[b].ws] = "absent"] \/ root' = root
    BY DEF DropBroker, world
  <1>2. root' \in [Workspaces -> Roots] /\ \A w \in Workspaces : Shrinks(w)
    BY <1>1 DEF Shrinks, Roots, CtlInv, DiskInv
  <1> QED
    BY <1>1, <1>2, Forgetting

\* What somebody outside does to the roots, the row's other part, the clock
\* and the bank moves no call.
LEMMA OutsideSound ==
    ASSUME CtlInv,
           \/ \E w \in Workspaces : SweepRoot(w)
           \/ LifecycleCommit \/ Expire \/ Supersede
    PROVE  CtlInv' /\ Earned
  <1>1. /\ call \in [Callers -> Calls] /\ current \subseteq Callers
        /\ lease \in [Brokers -> Leases \union {NoLease}]
        /\ root \in [Workspaces -> Roots] /\ bank \in Bank /\ expired \in BOOLEAN
        /\ holder \in Brokers \union {Nobody}
    BY DEF CtlInv, CallInv, CurrentInv, LeaseInv, DiskInv, WorldInv
  <1>2. /\ row' = row /\ log' = log /\ opened' = opened /\ lease' = lease /\ writes' = writes
        /\ invoked' = invoked /\ holder' = holder /\ call' = call
        /\ bank' \in {bank, "Other", "Stale"} /\ expired' \in {expired, TRUE}
        /\ \/ current' = current /\ unmoved' = unmoved
           \/ current' = {} /\ unmoved' = {}
    BY DEF SweepRoot, LifecycleCommit, Expire, Supersede, disk, world
  <1>3. root' \in [Workspaces -> Roots] /\ \A w \in Workspaces : Shrinks(w)
    BY <1>1 DEF SweepRoot, LifecycleCommit, Expire, Supersede, disk, Shrinks, Roots
  <1>4. WorldInv'
    BY <1>1, <1>2 DEF WorldInv, Bank
  <1>5. \A c \in Callers : Moves(c)
    BY <1>2 DEF Moves
  <1>6. \A b \in Brokers : SameHold(b)
    BY <1>2 DEF SameHold
  <1>7. /\ call' \in [Callers -> Calls] /\ current' \subseteq Callers
        /\ unmoved' \subseteq unmoved /\ \A c \in current' : c \in unmoved => c \in unmoved'
        /\ lease' \in [Brokers -> Leases \union {NoLease}]
    BY <1>1, <1>2
  <1> QED
    BY <1>2, <1>3, <1>4, <1>5, <1>6, <1>7, Shrinking

-----------------------------------------------------------------------------
(* The invariant.                                                          *)

\* Nothing is claimed, logged, leased or called in the beginning.
LEMMA InitSound == Init => CtlInv
  <1> SUFFICES ASSUME Init PROVE CtlInv
    OBVIOUS
  <1>1. /\ row = None /\ log = << >> /\ opened = 0
        /\ root = [w \in Workspaces |-> "absent"]
        /\ bank = "Absent" /\ expired = FALSE /\ holder = Nobody
        /\ lease = [b \in Brokers |-> NoLease]
        /\ current = {} /\ unmoved = {}
        /\ call = [c \in Callers |-> Idle]
        /\ invoked = [n \in 1..MaxAttempts |-> 0]
        /\ writes = [w \in Workspaces |-> 0]
    BY DEF Init
  <1>2. RowInv
    BY <1>1, BoundsAreCounts DEF RowInv
  <1>3. CallInv
    BY <1>1, IdleIsSound DEF CallInv, At
  <1>4. CurrentInv /\ InvokedInv /\ LeaseInv /\ WorldInv
    <2>1. CurrentInv /\ WorldInv
      BY <1>1 DEF CurrentInv, WorldInv, Bank
    <2>2. InvokedInv
      BY <1>1 DEF InvokedInv
    <2>3. LeaseInv
      BY <1>1 DEF LeaseInv
    <2> QED
      BY <2>1, <2>2, <2>3
  <1>5. LogInv
    BY <1>1 DEF LogInv, Acknowledgements
  <1>6. DiskInv
    BY <1>1 DEF DiskInv, Roots
  <1> QED
    BY <1>2, <1>3, <1>4, <1>5, <1>6 DEF CtlInv

\* Every step of a drive.
LEMMA DriveStepSound ==
    ASSUME CtlInv, NEW b \in Brokers, DriveStep(b)
    PROVE  CtlInv' /\ Earned
  <1>1. b \in Callers
    BY DEF Callers
  <1>2. CASE Reconcile(b)
    BY <1>1, <1>2, LookSound, AppendSound, CheckSound, AcknowledgeSound DEF Reconcile
  <1>3. CASE OpenLease(b) \/ GiveUp(b) \/ Install(b)
    BY <1>3, OpenLeaseSound, GiveUpSound, InstallSound
  <1>4. CASE Resume(b)
    BY <1>4, ReturnStoredSound, CloseAbsentRootSound, CancelRetrySound, ClaimRetrySound,
       ClaimRecoverySound, RecoverLeaseSound DEF Resume
  <1>5. CASE Executor(b)
    BY <1>5, StoreStartedSound, CallExecutorSound, RecordOutcomeSound, RecordResultSound
       DEF Executor
  <1>6. CASE Effects(b)
    BY <1>6, CancelEffectsSound, PrepareWriteSound, InspectRefusedSound, InspectBeforeSound,
       InspectAfterSound, InspectUnknownSound, ExecuteEffectSound, FailBackendSound,
       SettleEffectSound DEF Effects
  <1>7. CASE Verifier(b)
    BY <1>7, SealSound, StartVerifierSound, ResealSound, VerifySound, ObserveSound, AdmitSound
       DEF Verifier
  <1>8. CASE Closure(b)
    BY <1>8, CloseRootSound, CloseRowSound, FinishSound DEF Closure
  <1> QED
    BY <1>2, <1>3, <1>4, <1>5, <1>6, <1>7, <1>8 DEF DriveStep

\* Every step of anybody.
LEMMA StepSound ==
    ASSUME CtlInv, [Next]_vars
    PROVE  CtlInv' /\ Earned
  <1>1. CASE Next
    <2>1. ASSUME NEW b \in Brokers, StartDrive(b) \/ DriveStep(b) PROVE CtlInv' /\ Earned
      BY <2>1, StartDriveSound, DriveStepSound
    <2>2. ASSUME NEW v \in Visitors, StartVisit(v) \/ VisitStep(v) PROVE CtlInv' /\ Earned
      <3>1. v \in Callers
        BY DEF Callers
      <3> QED
        BY <2>2, <3>1, StartVisitSound, LookSound, AppendSound, CheckSound, AcknowledgeSound,
           RequestCancellationSound, HeartbeatSound DEF VisitStep, Reconcile
    <2>3. ASSUME Disturbance PROVE CtlInv' /\ Earned
      BY <2>3, CrashSound, TearWriteSound, DropBrokerSound, OutsideSound DEF Disturbance
    <2> QED
      BY <1>1, <2>1, <2>2, <2>3 DEF Next
  <1>2. CASE UNCHANGED vars
    <2>1. /\ row' = row /\ log' = log /\ root' = root /\ opened' = opened /\ bank' = bank
          /\ expired' = expired /\ holder' = holder /\ lease' = lease /\ current' = current
          /\ unmoved' = unmoved /\ call' = call /\ invoked' = invoked /\ writes' = writes
      BY <1>2 DEF vars
    <2>2. CallInv'
      BY <2>1 DEF CtlInv, CallInv, At, CallSound, CopySound, PlaceSound, InvokeSound,
                  LeaseSound, Frozen, Logged, Leased, Unwritten, Working, WriteDue
    <2>3. RowInv' /\ CurrentInv' /\ InvokedInv' /\ LogInv' /\ LeaseInv' /\ DiskInv' /\ WorldInv'
      BY <2>1 DEF CtlInv, RowInv, CurrentInv, InvokedInv, LogInv, LeaseInv, DiskInv, WorldInv,
                  At, Explained, Known, Acknowledgements
    <2> QED
      BY <2>1, <2>2, <2>3 DEF CtlInv, Earned
  <1> QED
    BY <1>1, <1>2

\* The invariant holds in every state of every run of the controller,
\* whatever is crashed, torn, dropped, swept, expired or superseded.
THEOREM ControllerIsSound == Spec => []CtlInv
  <1>1. CtlInv /\ [Next]_vars => CtlInv'
    BY StepSound
  <1> QED
    BY <1>1, InitSound, PTL DEF Spec

\* The executor is called at most once for an attempt (StoreStarted: only
\* who replaced NotStarted by Started calls it).
THEOREM ExecutorIsInvokedOnce == Spec => []InvokedOncePerAttempt
  <1>1. CtlInv => InvokedOncePerAttempt
    BY DEF CtlInv, InvokedInv, InvokedOncePerAttempt
  <1> QED
    BY <1>1, ControllerIsSound, PTL

\* The planned write reaches a workspace at most once (prepare, execute,
\* inspect_prepared_write and the recovery of a lease).
THEOREM WritesAreAppliedOnce == Spec => []WriteAppliedOnce
  <1>1. CtlInv => WriteAppliedOnce
    BY DEF CtlInv, DiskInv, WriteAppliedOnce
  <1> QED
    BY <1>1, ControllerIsSound, PTL

\* The row explains the disk of its workspace (current_snapshot, the
\* prepared write and closed).
THEOREM DisksAreExplained == Spec => []DiskIsExplained
  <1>1. CtlInv => DiskIsExplained
    <2> SUFFICES ASSUME CtlInv, row # None
                 PROVE  /\ Snapshot(row) = "after" => root[row.ws] \in {"after", "absent"}
                        /\ root[row.ws] = "after" => Snapshot(row) = "after" \/ row.prepared
                        /\ row.closed => root[row.ws] = "absent"
      BY DEF DiskIsExplained
    <2>1. Explained(row) /\ row.ws \in Workspaces
      BY BoundsAreCounts DEF CtlInv, DiskInv, RowInv, Workspaces
    <2> QED
      BY <2>1 DEF CtlInv, DiskInv, Explained
  <1> QED
    BY <1>1, ControllerIsSound, PTL

\* The log has every phase the row has acknowledged, once, and the frozen
\* event is the next (reconcile_pending).
THEOREM PhasesAreLogged == Spec => []EveryPhaseIsLogged
  <1>1. CtlInv => EveryPhaseIsLogged
    <2> SUFFICES ASSUME CtlInv PROVE EveryPhaseIsLogged
      OBVIOUS
    <2>1. row # None /\ row.pending # None => row.pending.revision = Acknowledgements + 1
      BY DEF CtlInv, RowInv, RowSound, EventNext, LogKnown, Acknowledgements
    <2> QED
      BY <2>1 DEF CtlInv, LogInv, EveryPhaseIsLogged
  <1> QED
    BY <1>1, ControllerIsSound, PTL

\* A run is admitted on current evidence that passed, with its effects
\* complete and no cancellation pending, and what ended stays so
\* (admit_observed_publication, transition_allowed).
THEOREM AdmissionsAreEarned == Spec => AdmissionIsEarned
  <1>1. CtlInv /\ [Next]_vars => Earned
    BY StepSound
  <1> QED
    BY <1>1, ControllerIsSound, PTL DEF Spec, AdmissionIsEarned

-----------------------------------------------------------------------------
(* The fence.                                                              *)

\* What a broker may close of the row's workspace it holds at its epoch.
LEMMA CloseOwnedIsFenced ==
    ASSUME CtlInv, NEW b \in Brokers, CloseOwned(b)
    PROVE  Fenced
  <1> SUFFICES ASSUME NEW w \in Workspaces, row # None, row.ws = w, root'[w] # root[w]
               PROVE  \E d \in Brokers : /\ Acts(d) /\ lease[d] # NoLease
                                         /\ lease[d].ws = w /\ lease[d].epoch = row.epoch
    BY DEF Fenced
  <1>1. root \in [Workspaces -> Roots] /\ lease \in [Brokers -> Leases \union {NoLease}]
    BY DEF CtlInv, DiskInv, LeaseInv
  <1>2. /\ CanClose(row, lease[b], b \in unmoved)
        /\ root' = [root EXCEPT ![lease[b].ws] = "absent"]
        /\ lease' = [lease EXCEPT ![b] = Closed(@)]
    BY DEF CloseOwned
  <1>3. lease[b] # NoLease /\ lease[b] \in Leases /\ lease[b].state = "Active" /\ lease[b].ws = w
    BY <1>1, <1>2 DEF CanClose, Active
  <1>4. lease[b].epoch = row.epoch
    <2>1. ~(lease[b].opened /\ b \in unmoved)
      <3>1. Known = w /\ w \in Nat
        BY BoundsAreCounts DEF Known, Workspaces
      <3> QED
        BY <1>3, <3>1 DEF CtlInv, LeaseInv
    <2> QED
      BY <1>2, <1>3, <2>1 DEF CanClose, Owned, Ownership, Current
  <1>5. Acts(b)
    <2> PICK gone : gone = Closed(lease[b])
      OBVIOUS
    <2>1. gone.state = "Closed"
      BY <1>3 DEF Closed, Leases
    <2>2. lease'[b] = gone
      BY <1>1, <1>2
    <2> QED
      BY <1>3, <2>1, <2>2 DEF Acts
  <1> QED
    BY <1>3, <1>4, <1>5

\* What leaves the roots alone.
LEMMA UntouchedIsFenced ==
    ASSUME root' = root
    PROVE  Fenced
  BY DEF Fenced

\* Who performs an effect, is refused by the file system in it or dies in it
\* holds the row's epoch.
LEMMA RequestIsFenced ==
    ASSUME CtlInv, NEW b \in Brokers, Executing(b), Active(lease[b]),
           Requested(row, lease[b], b \in unmoved, Seen(b)), Acts(b),
           NEW content, root' = [root EXCEPT ![lease[b].ws] = content]
    PROVE  Fenced
  <1>1. lease[b] # NoLease /\ Current(row, lease[b])
    BY RequestIs
  <1>2. root \in [Workspaces -> Roots]
    BY DEF CtlInv, DiskInv
  <1> QED
    BY <1>1, <1>2 DEF Fenced, Current

\* A workspace that is opened is not the row's.
LEMMA OpenLeaseIsFenced ==
    ASSUME CtlInv, NEW b \in Brokers, OpenLease(b)
    PROVE  Fenced
  <1>1. CASE root' = root
    BY <1>1, UntouchedIsFenced
  <1>2. CASE root' = [root EXCEPT ![opened + 1] = "before"]
    <2>1. row # None => row.ws \in 1..opened /\ opened \in Nat
      BY BoundsAreCounts DEF CtlInv, RowInv
    <2> QED
      BY <1>2, <2>1 DEF Fenced, CtlInv, DiskInv
  <1> QED
    BY <1>1, <1>2 DEF OpenLease

\* An effect is performed on the fence of the row.
LEMMA ExecuteEffectIsFenced ==
    ASSUME CtlInv, NEW b \in Brokers, ExecuteEffect(b)
    PROVE  Fenced
  <1>1. CASE root' = root
    BY <1>1, UntouchedIsFenced
  <1>2. CASE Active(lease[b]) /\ Requested(row, lease[b], b \in unmoved, Seen(b))
    <2> PICK receipt : receipt = Receipt(NextEffect(b), lease[b], root[lease[b].ws], expired)
      OBVIOUS
    <2>1. /\ root' = [root EXCEPT ![lease[b].ws] = ContentAfter(receipt, root[lease[b].ws])]
          /\ Goto(b, [Step(b, "settle") EXCEPT !.got = receipt])
          /\ Executing(b)
      BY <1>2 DEF ExecuteEffect
    <2>2. b \in Callers /\ call \in [Callers -> Calls] /\ call[b] \in Calls
      BY DEF Callers, CtlInv, CallInv
    <2> PICK s : s = Step(b, "settle")
      OBVIOUS
    <2>3. s \in Calls /\ s.at = "settle"
      BY <2>2, StepIs DEF Labels
    <2>4. PICK k : k = [s EXCEPT !.got = receipt]
      OBVIOUS
    <2>5. call'[b] = k /\ k.at = "settle"
      BY <2>1, <2>2, <2>3, <2>4 DEF Goto, Calls
    <2>6. Acts(b)
      BY <2>1, <2>5, ExecutingIs DEF Acts
    <2> QED
      BY <1>2, <2>1, <2>6, RequestIsFenced
  <1> QED
    BY <1>1, <1>2 DEF ExecuteEffect

\* A broker that is gone removes nothing of the row's that another holds.
LEMMA DropBrokerIsFenced ==
    ASSUME CtlInv, NEW b \in Brokers, DropBroker(b)
    PROVE  Fenced
  <1> SUFFICES ASSUME NEW w \in Workspaces, row # None, row.ws = w, root'[w] # root[w]
               PROVE  \E d \in Brokers : /\ Acts(d) /\ lease[d] # NoLease
                                         /\ lease[d].ws = w /\ lease[d].epoch = row.epoch
    BY DEF Fenced
  <1>1. root \in [Workspaces -> Roots] /\ lease \in [Brokers -> Leases \union {NoLease}]
    BY DEF CtlInv, DiskInv, LeaseInv
  <1>2. /\ CanClose(row, lease[b], b \in unmoved)
        /\ root' = [root EXCEPT ![lease[b].ws] = "absent"]
        /\ lease' = [lease EXCEPT ![b] = NoLease] /\ lease[b] # NoLease
    BY DEF DropBroker, DropRemoves, Forget
  <1>3. lease[b].ws = w /\ Acts(b)
    BY <1>1, <1>2 DEF Acts
  <1>4. lease[b].epoch = row.epoch
    <2>1. ~(lease[b].opened /\ b \in unmoved)
      <3>1. Known = w /\ w \in Nat
        BY BoundsAreCounts DEF Known, Workspaces
      <3> QED
        BY <1>3, <3>1 DEF CtlInv, LeaseInv
    <2> QED
      BY <1>2, <1>3, <2>1 DEF CanClose, Owned, Ownership, Current
  <1> QED
    BY <1>2, <1>3, <1>4

\* Every step but a sweep from outside respects the fence.
LEMMA StepIsFenced ==
    ASSUME CtlInv, "sweep" \notin Faults, [Next]_vars
    PROVE  Fenced
  <1>1. CASE Next
    <2>1. ASSUME NEW b \in Brokers, StartDrive(b) \/ DriveStep(b) PROVE Fenced
      <3>1. CASE StartDrive(b) \/ Reconcile(b) \/ Resume(b) \/ Executor(b) \/ Verifier(b)
        <4>1. root' = root
          BY <3>1
             DEF StartDrive, Reconcile, Look, AppendFrozen, CheckAppended, Acknowledge,
                 Resume, ReturnStored, CloseAbsentRoot, CancelRetry, ClaimRetry,
                 ClaimRecovery, RecoverLease, Executor, StoreStarted, CallExecutor,
                 RecordOutcome, RecordResult, Verifier, Seal, StartVerifier, Reseal, Verify,
                 Observe, Admit, disk
        <4> QED
          BY <4>1, UntouchedIsFenced
      <3>2. CASE OpenLease(b)
        BY <3>2, OpenLeaseIsFenced
      <3>3. CASE GiveUp(b) \/ Install(b) \/ Closure(b)
        <4>1. CloseOwned(b) \/ root' = root
          BY <3>3 DEF GiveUp, Install, Closure, CloseRoot, CloseRow, Finish, disk
        <4> QED
          BY <4>1, CloseOwnedIsFenced, UntouchedIsFenced
      <3>4. CASE Effects(b)
        <4>1. CASE ExecuteEffect(b)
          BY <4>1, ExecuteEffectIsFenced
        <4>2. CASE FailBackend(b)
          <5>1. CloseOwned(b)
            BY <4>2, RequestIs DEF FailBackend, CloseOwned
          <5> QED
            BY <5>1, CloseOwnedIsFenced
        <4>3. CASE ~(ExecuteEffect(b) \/ FailBackend(b))
          <5>1. root' = root
            BY <3>4, <4>3
               DEF Effects, CancelEffects, PrepareWrite, InspectRefused, InspectBefore,
                   InspectAfter, InspectUnknown, SettleEffect, disk
          <5> QED
            BY <5>1, UntouchedIsFenced
        <4> QED
          BY <4>1, <4>2, <4>3
      <3> QED
        BY <2>1, <3>1, <3>2, <3>3, <3>4 DEF DriveStep
    <2>2. ASSUME NEW v \in Visitors, StartVisit(v) \/ VisitStep(v) PROVE Fenced
      <3>1. root' = root
        BY <2>2 DEF StartVisit, VisitStep, Reconcile, Look, AppendFrozen, CheckAppended,
                    Acknowledge, RequestCancellation, Heartbeat, disk
      <3> QED
        BY <3>1, UntouchedIsFenced
    <2>3. ASSUME Disturbance PROVE Fenced
      <3>1. ASSUME NEW b \in Brokers, TearWrite(b) PROVE Fenced
        <4>1. lease[b] # NoLease /\ lease' = [lease EXCEPT ![b] = NoLease]
          BY <3>1, RequestIs DEF TearWrite, Forget
        <4>2. Acts(b)
          BY <4>1 DEF Acts, CtlInv, LeaseInv
        <4> QED
          BY <3>1, <4>2, RequestIsFenced DEF TearWrite
      <3>2. ASSUME NEW b \in Brokers, DropBroker(b) PROVE Fenced
        BY <3>2, DropBrokerIsFenced
      <3>3. ASSUME \/ \E b \in Brokers : Crash(b)
                   \/ LifecycleCommit \/ Expire \/ Supersede
            PROVE  Fenced
        <4>1. root' = root
          BY <3>3 DEF Crash, LifecycleCommit, Expire, Supersede, disk
        <4> QED
          BY <4>1, UntouchedIsFenced
      <3> QED
        BY <2>3, <3>1, <3>2, <3>3 DEF Disturbance, SweepRoot
    <2> QED
      BY <1>1, <2>1, <2>2, <2>3 DEF Next
  <1>2. CASE UNCHANGED vars
    BY <1>2, UntouchedIsFenced DEF vars
  <1> QED
    BY <1>1, <1>2

\* A broker whose fence was taken over changes nothing of the workspace, as
\* long as nobody else empties the directory (binding_ownership).
THEOREM StaleBrokersAreFenced ==
    ASSUME "sweep" \notin Faults
    PROVE  Spec => StaleBrokerIsFenced
  <1>1. CtlInv /\ [Next]_vars => Fenced
    BY StepIsFenced
  <1> QED
    BY <1>1, ControllerIsSound, PTL DEF Spec, StaleBrokerIsFenced


\* The controller keeps its types, and never stores a row that its own
\* validators would refuse (compare_and_swap_engineer_verifier).
THEOREM ControllerKeepsItsTypes == Spec => []TypeOK
  <1>1. CtlInv => TypeOK
    <2> SUFFICES ASSUME CtlInv PROVE TypeOK
      OBVIOUS
    <2>1. /\ row \in Rows \union {None} /\ (row # None => Valid(row))
          /\ log \in Seq(Events) /\ opened \in 0..MaxOpens
      BY DEF CtlInv, RowInv, RowSound, LogInv
    <2>2. root \in [Workspaces -> Roots] /\ writes \in [Workspaces -> Nat]
      BY DEF CtlInv, DiskInv
    <2>3. invoked \in [1..MaxAttempts -> Nat]
      BY DEF CtlInv, InvokedInv
    <2>4. /\ bank \in Bank /\ expired \in BOOLEAN /\ holder \in Brokers \union {Nobody}
          /\ lease \in [Brokers -> Leases \union {NoLease}]
          /\ current \subseteq Callers /\ unmoved \subseteq Brokers
          /\ call \in [Callers -> Calls]
      BY DEF CtlInv, WorldInv, LeaseInv, CurrentInv, CallInv
    <2> QED
      BY <2>1, <2>2, <2>3, <2>4 DEF TypeOK
  <1> QED
    BY <1>1, ControllerIsSound, PTL
=============================================================================
