--------------------------- MODULE ToolBrokerProofs ---------------------------
(***************************************************************************)
(* Theorems about the workspace broker, for any leases, forms, requests    *)
(* and clocks, and whatever others write to the roots: the receipts tell   *)
(* what a workspace held, a grant writes at most once, and a key is        *)
(* answered once.                                                          *)
(***************************************************************************)
EXTENDS ToolBroker, SequenceTheorems, WellFoundedInduction, TLAPS

-----------------------------------------------------------------------------
(* Lists that only grow.                                                   *)

\* It is a sequence, of whatever it holds.
IsList(s) == s \in Seq({s[n] : n \in DOMAIN s})

LEMMA Grown ==
    ASSUME NEW s, NEW x, IsList(s)
    PROVE  /\ IsList(Append(s, x))
           /\ Len(s) \in Nat /\ DOMAIN s = 1..Len(s)
           /\ Len(Append(s, x)) = Len(s) + 1
           /\ DOMAIN Append(s, x) = 1..(Len(s) + 1)
           /\ \A n \in 1..Len(s) : Append(s, x)[n] = s[n]
           /\ Append(s, x)[Len(s) + 1] = x
  <1>1. PICK S : S = {s[n] : n \in DOMAIN s} \cup {x}
    OBVIOUS
  <1>2. s \in Seq(S) /\ x \in S
    BY <1>1, SeqMonotonic DEF IsList
  <1>3. Append(s, x) \in Seq(S)
    BY <1>2
  <1>4. /\ Len(s) \in Nat /\ DOMAIN s = 1..Len(s)
        /\ Len(Append(s, x)) = Len(s) + 1
        /\ DOMAIN Append(s, x) = 1..(Len(s) + 1)
        /\ \A n \in 1..Len(s) : Append(s, x)[n] = s[n]
        /\ Append(s, x)[Len(s) + 1] = x
    BY <1>2, AppendProperties
  <1>5. IsList(Append(s, x))
    <2>1. PICK t : t = Append(s, x)
      OBVIOUS
    <2>2. t \in Seq(S) /\ DOMAIN t = 1..Len(t)
      BY <1>3, <2>1
    <2>3. t \in Seq({t[n] : n \in DOMAIN t})
      BY <2>2, SeqOfRange DEF Range
    <2> QED
      BY <2>1, <2>3 DEF IsList
  <1> QED
    BY <1>4, <1>5

-----------------------------------------------------------------------------
(* The inductive invariant.                                                *)

\* A lease that was opened holds a snapshot of its own.
LeaseSound(l) ==
    LET r == leases[l] IN
    /\ r = [dto |-> r.dto, state |-> r.state, snapshot |-> r.snapshot]
    /\ r.snapshot.lease = l /\ r.snapshot.generation \in Nat

LeaseInv ==
    /\ leases = [l \in DOMAIN leases |-> leases[l]]
    /\ \A l \in DOMAIN leases : LeaseSound(l)

\* The lease of a snapshot was opened.
Held(snapshot) == snapshot.lease \in DOMAIN leases

\* Grants are given for snapshots of leases.
GrantInv ==
    /\ IsList(grants)
    /\ \A n \in DOMAIN grants : Held(grants[n].snapshot)

\* A lease has moved on from where something was written.
ReceiptSound(r) ==
    r.outcome.type = "written" =>
        /\ r.request.grant \in DOMAIN grants
        /\ Held(r.before.digest) /\ r.before.digest.generation \in Nat
        /\ r.before.digest.generation
             < leases[r.before.digest.lease].snapshot.generation

ReceiptInv ==
    /\ IsList(receipts)
    /\ \A n \in DOMAIN receipts : receipts[n].outcome.type # "denied" =>
          receipts[n].request.grant \in DOMAIN grants
    /\ \A n \in DOMAIN receipts : ReceiptSound(receipts[n])
    /\ \A l \in LeaseIds : l \notin DOMAIN leases => Told(l) = {}

\* The request of a receipt is known under its key.
Remembered(request) ==
    /\ Known(request)
    /\ LET answer == answers[request.key] IN
          \/ answer.request = request
          \/ \E c \in answer.conflicts : c.request = request

KeyInv ==
    /\ answers = [k \in DOMAIN answers |-> answers[k]]
    /\ \A k \in DOMAIN answers :
          answers[k] = [request |-> answers[k].request, receipt |-> answers[k].receipt,
                        conflicts |-> answers[k].conflicts]
    /\ \A n \in DOMAIN receipts : Remembered(receipts[n].request)

BrokerInv ==
    /\ LeaseInv /\ GrantInv /\ ReceiptInv /\ KeyInv
    /\ ReceiptsTellTheContents /\ GrantsWriteOnce /\ KeysAnswerOnce

LEMMA InvHolds == BrokerInit => BrokerInv
  <1> SUFFICES ASSUME BrokerInit PROVE BrokerInv
    OBVIOUS
  <1> USE DEF BrokerInit
  <1>1. LeaseInv
    BY DEF LeaseInv
  <1>2. IsList(<< >>) /\ DOMAIN << >> = {}
    BY EmptySeq DEF IsList
  <1>3. GrantInv
    BY <1>2 DEF GrantInv
  <1>4. ReceiptInv
    BY <1>2 DEF ReceiptInv, Told
  <1>5. KeyInv
    BY <1>2 DEF KeyInv
  <1>6. ReceiptsTellTheContents /\ GrantsWriteOnce /\ KeysAnswerOnce
    BY <1>2 DEF ReceiptsTellTheContents, GrantsWriteOnce, KeysAnswerOnce
  <1> QED
    BY <1>1, <1>3, <1>4, <1>5, <1>6 DEF BrokerInv

-----------------------------------------------------------------------------
(* Steps that give no receipt.                                             *)

\* A lease is opened, or stays but for its state.
Opened(l) ==
    /\ l \notin DOMAIN leases /\ l \in LeaseIds
    /\ leases'[l].snapshot = leases'[l].dto.initial
    /\ leases'[l].snapshot.generation = 0
    /\ leases'[l].snapshot.lease = l
    /\ leases'[l] = [dto |-> leases'[l].dto, state |-> leases'[l].state,
                     snapshot |-> leases'[l].snapshot]

Stays(l) ==
    /\ l \in DOMAIN leases
    /\ leases'[l].dto = leases[l].dto
    /\ leases'[l].snapshot = leases[l].snapshot
    /\ leases'[l] = [dto |-> leases'[l].dto, state |-> leases'[l].state,
                     snapshot |-> leases'[l].snapshot]

LeasesStay ==
    /\ leases' = [l \in DOMAIN leases' |-> leases'[l]]
    /\ DOMAIN leases \subseteq DOMAIN leases'
    /\ \A l \in DOMAIN leases' : Stays(l) \/ Opened(l)

LEMMA QuietStep ==
    ASSUME BrokerInv, LeasesStay, UNCHANGED <<answers, receipts>>,
           GrantInv',
           \A n \in DOMAIN grants : n \in DOMAIN grants' /\ grants'[n] = grants[n]
    PROVE  BrokerInv'
  <1> USE DEF BrokerInv
  <1>1. LeaseInv'
    BY DEF LeaseInv, LeasesStay, Stays, Opened, LeaseSound
  <1>2. \A l : Told(l)' = Told(l)
    BY DEF Told, IsConflict
  <1>3. ReceiptInv'
    <2>1. \A n \in DOMAIN receipts : ReceiptSound(receipts[n])'
      BY DEF ReceiptInv, ReceiptSound, Held, LeasesStay, Stays, Opened
    <2>2. \A l \in LeaseIds : l \notin DOMAIN leases' => Told(l)' = {}
      BY <1>2 DEF ReceiptInv, LeasesStay
    <2> QED
      BY <2>1, <2>2 DEF ReceiptInv
  <1>4. KeyInv' /\ KeysAnswerOnce'
    BY DEF KeyInv, Known, Remembered, KeysAnswerOnce, IsConflict
  <1>5. GrantsWriteOnce'
    BY DEF GrantsWriteOnce, ReceiptInv
  <1>6. ReceiptsTellTheContents'
    <2> SUFFICES ASSUME NEW l \in DOMAIN leases'
                 PROVE  Tells(l)'
      BY DEF ReceiptsTellTheContents
    <2>1. CASE Stays(l)
      <3>1. Tells(l)
        BY <2>1 DEF Stays, ReceiptsTellTheContents
      <3>2. Told(l)' = Told(l) /\ receipts' = receipts
            /\ leases'[l].dto = leases[l].dto /\ leases'[l].snapshot = leases[l].snapshot
        BY <1>2, <2>1 DEF Stays
      <3>3. \A n \in Told(l) \cup {Len(receipts) + 1} : HeldBefore(l, n)' = HeldBefore(l, n)
        BY <3>2 DEF HeldBefore
      <3> QED
        BY <3>1, <3>2, <3>3 DEF Tells
    <2>2. CASE Opened(l)
      <3>1. Told(l)' = {}
        BY <1>2, <2>2 DEF Opened, ReceiptInv
      <3> QED
        BY <2>2, <3>1 DEF Opened, HeldBefore, Tells
    <2> QED
      BY <2>1, <2>2 DEF LeasesStay
  <1> QED
    BY <1>1, <1>3, <1>4, <1>5, <1>6

-----------------------------------------------------------------------------
(* A receipt more.                                                         *)

\* The numbers of some receipts have a greatest one.
LEMMA MaxIsIn ==
    ASSUME NEW k \in Nat, NEW S, S \subseteq 1..k, S # {}
    PROVE  Max(S) \in S
  <1>1. {k - m : m \in S} \subseteq Nat /\ {k - m : m \in S} # {}
    <2>1. \A m \in S : k - m \in Nat
      OBVIOUS
    <2> QED
      BY <2>1
  <1>2. PICK d \in {k - m : m \in S} :
          \A e \in {k - m : m \in S} : ~(<<e, d>> \in OpToRel(<, Nat))
    BY <1>1, NatLessThanWellFounded, WFMin
  <1>3. PICK x \in S : d = k - x
    BY <1>2
  <1>4. ASSUME NEW y \in S
        PROVE  x >= y
    <2>1. ~(k - y < k - x)
      BY <1>1, <1>2, <1>3 DEF OpToRel
    <2> QED
      BY <2>1
  <1>5. \E z \in S : \A y \in S : z >= y
    BY <1>3, <1>4
  <1> QED
    BY <1>5 DEF Max

\* The receipt is one of the lease, and tells of it.
About(l, r) ==
    /\ r.request.lease = l /\ r.before.digest.lease = l
    /\ ~IsConflict(r)

LEMMA ToldOn ==
    ASSUME NEW l, NEW r, IsList(receipts), receipts' = Append(receipts, r)
    PROVE  /\ Told(l) \subseteq 1..Len(receipts)
           /\ Told(l)' = IF About(l, r) THEN Told(l) \cup {Len(receipts) + 1} ELSE Told(l)
  BY Grown DEF Told, About, IsConflict

LEMMA HeldBeforeOn ==
    ASSUME NEW l, NEW r, IsList(receipts), receipts' = Append(receipts, r),
           leases'[l].dto = leases[l].dto,
           NEW n \in 1..(Len(receipts) + 1)
    PROVE  HeldBefore(l, n)' = HeldBefore(l, n)
  <1>1. /\ Len(receipts) \in Nat
        /\ \A m \in 1..Len(receipts) : receipts'[m] = receipts[m]
    BY Grown
  <1>2. PICK earlier : earlier = {m \in Told(l) : m < n}
    OBVIOUS
  <1>3. earlier \subseteq 1..Len(receipts) /\ {m \in Told(l)' : m < n} = earlier
    BY <1>1, <1>2, ToldOn
  <1>4. earlier # {} => Max(earlier) \in 1..Len(receipts)
    BY <1>1, <1>3, MaxIsIn
  <1> QED
    BY <1>1, <1>2, <1>3, <1>4 DEF HeldBefore

\* The receipts go on telling what a lease holds if the new one begins there
\* and the lease holds what it leads to, or if it does not tell of the lease.
LEMMA TellsOn ==
    ASSUME NEW l, NEW r, IsList(receipts), receipts' = Append(receipts, r),
           Tells(l), leases'[l].dto = leases[l].dto,
           IF About(l, r)
           THEN /\ r.before = Point(leases[l].snapshot)
                /\ r.after = Point(Leads(leases[l].snapshot, r))
                /\ leases'[l].snapshot = Leads(leases[l].snapshot, r)
           ELSE leases'[l].snapshot = leases[l].snapshot
    PROVE  Tells(l)'
  <1>1. /\ Len(receipts) \in Nat /\ Len(receipts') = Len(receipts) + 1
        /\ \A m \in 1..Len(receipts) : receipts'[m] = receipts[m]
        /\ receipts'[Len(receipts) + 1] = r
    BY Grown
  <1>2. /\ Told(l) \subseteq 1..Len(receipts)
        /\ Told(l)' = IF About(l, r) THEN Told(l) \cup {Len(receipts) + 1} ELSE Told(l)
    BY ToldOn
  <1>3. \A n \in 1..(Len(receipts) + 1) : HeldBefore(l, n)' = HeldBefore(l, n)
    BY HeldBeforeOn
  <1>4. leases[l].snapshot = HeldBefore(l, Len(receipts) + 1)
    BY DEF Tells
  <1>5. ASSUME NEW n \in Told(l)'
        PROVE  /\ receipts'[n].before = Point(HeldBefore(l, n)')
               /\ receipts'[n].after = Point(Leads(HeldBefore(l, n)', receipts'[n]))
    <2>1. CASE n \in Told(l)
      BY <1>1, <1>2, <1>3, <2>1 DEF Tells
    <2>2. CASE n \notin Told(l)
      BY <1>1, <1>2, <1>3, <1>4, <2>2
    <2> QED
      BY <2>1, <2>2
  <1>6. leases'[l].snapshot = HeldBefore(l, Len(receipts) + 1)'
    <2>1. PICK earlier : earlier = {m \in Told(l)' : m < Len(receipts') + 1}
      OBVIOUS
    <2>2. HeldBefore(l, Len(receipts) + 1)'
            = IF earlier = {} THEN leases'[l].dto.initial
              ELSE receipts'[Max(earlier)].after.digest
      BY <2>1 DEF HeldBefore
    <2>3. CASE About(l, r)
      <3>1. Len(receipts) + 1 \in earlier
            /\ \A m \in earlier : m \in Nat /\ m <= Len(receipts) + 1
        BY <1>1, <1>2, <2>1, <2>3
      <3>2. Max(earlier) \in earlier
        BY <1>1, <1>2, <2>1, <2>3, <3>1, MaxIsIn
      <3>3. Max(earlier) = Len(receipts) + 1
        <4>1. \A x \in earlier : (\A y \in earlier : x >= y) => x = Len(receipts) + 1
          BY <1>1, <3>1
        <4>2. \E x \in earlier : \A y \in earlier : x >= y
          BY <1>1, <3>1
        <4> QED
          BY <4>1, <4>2 DEF Max
      <3> QED
        BY <1>1, <2>2, <2>3, <3>1, <3>3 DEF Point
    <2>4. CASE ~About(l, r)
      <3>1. earlier = {m \in Told(l) : m < Len(receipts) + 1}
        BY <1>1, <1>2, <2>1, <2>4
      <3>2. earlier # {} => Max(earlier) \in 1..Len(receipts)
        BY <1>1, <1>2, <3>1, MaxIsIn
      <3> QED
        BY <1>1, <1>4, <2>2, <2>4, <3>1, <3>2 DEF HeldBefore
    <2> QED
      BY <2>3, <2>4
  <1> QED
    BY <1>5, <1>6 DEF Tells

\* What was done under a grant was done at its snapshot, and a write at the
\* snapshot its lease holds, from which the lease moves on.
LEMMA GrantsOn ==
    ASSUME NEW r, ReceiptInv, GrantsWriteOnce,
           receipts' = Append(receipts, r), UNCHANGED grants,
           r.outcome.type # "denied" =>
             r.before.digest = grants[r.request.grant].snapshot,
           r.outcome.type = "written" =>
             /\ r.before.digest.generation \in Nat
             /\ r.before.digest.generation
                  = leases[r.before.digest.lease].snapshot.generation
    PROVE  GrantsWriteOnce'
  <1>1. /\ Len(receipts) \in Nat /\ DOMAIN receipts = 1..Len(receipts)
        /\ DOMAIN receipts' = 1..(Len(receipts) + 1)
        /\ \A m \in 1..Len(receipts) : receipts'[m] = receipts[m]
        /\ receipts'[Len(receipts) + 1] = r
    BY Grown DEF ReceiptInv
  <1>2. \A n \in DOMAIN receipts' : receipts'[n].outcome.type # "denied" =>
          receipts'[n].before.digest = grants[receipts'[n].request.grant].snapshot
    BY <1>1 DEF GrantsWriteOnce
  <1>3. ASSUME NEW n \in 1..Len(receipts), receipts[n].outcome.type = "written",
               r.outcome.type = "written", receipts[n].request.grant = r.request.grant
        PROVE  FALSE
    <2>1. receipts[n].before.digest = r.before.digest
      BY <1>1, <1>3 DEF GrantsWriteOnce
    <2>2. receipts[n].before.digest.generation
            < leases[r.before.digest.lease].snapshot.generation
      BY <1>1, <1>3, <2>1 DEF ReceiptInv, ReceiptSound
    <2> QED
      BY <1>3, <2>1, <2>2
  <1>4. ASSUME NEW m \in DOMAIN receipts', NEW n \in DOMAIN receipts',
               receipts'[m].outcome.type = "written", receipts'[n].outcome.type = "written",
               receipts'[m].request.grant = receipts'[n].request.grant
        PROVE  m = n
    <2>1. CASE m \in 1..Len(receipts) /\ n \in 1..Len(receipts)
      BY <1>1, <1>4, <2>1 DEF GrantsWriteOnce
    <2>2. CASE m \notin 1..Len(receipts) \/ n \notin 1..Len(receipts)
      BY <1>1, <1>3, <1>4, <2>2
    <2> QED
      BY <2>1, <2>2
  <1> QED
    BY <1>2, <1>4 DEF GrantsWriteOnce

\* The receipt is the first under its key, or a conflict of a new request.
LEMMA KeysOn ==
    ASSUME NEW r, IsList(receipts), KeysAnswerOnce, receipts' = Append(receipts, r),
           \A n \in DOMAIN receipts : receipts[n].request.key = r.request.key =>
             IsConflict(r) /\ receipts[n].request # r.request
    PROVE  KeysAnswerOnce'
  <1>1. /\ Len(receipts) \in Nat /\ DOMAIN receipts = 1..Len(receipts)
        /\ DOMAIN receipts' = 1..(Len(receipts) + 1)
        /\ \A m \in 1..Len(receipts) : receipts'[m] = receipts[m]
        /\ receipts'[Len(receipts) + 1] = r
    BY Grown
  <1> SUFFICES ASSUME NEW m \in DOMAIN receipts', NEW n \in DOMAIN receipts',
                      m < n, receipts'[m].request.key = receipts'[n].request.key
               PROVE  /\ IsConflict(receipts'[n])
                      /\ receipts'[m].request # receipts'[n].request
    BY DEF KeysAnswerOnce, IsConflict
  <1>2. m \in 1..Len(receipts)
    BY <1>1
  <1>3. CASE n \in 1..Len(receipts)
    BY <1>1, <1>2, <1>3 DEF KeysAnswerOnce
  <1>4. CASE n = Len(receipts) + 1
    BY <1>1, <1>2, <1>4
  <1> QED
    BY <1>1, <1>3, <1>4

-----------------------------------------------------------------------------
(* A key that is answered for the first time.                              *)

\* Where there is no lease, a refusal tells of another one.
Unheld(request, receipt) ==
    /\ request.lease \notin DOMAIN leases
    /\ receipt.outcome.type = "denied"
    /\ receipt.before.digest.lease # request.lease
    /\ leases' = leases

\* Where there is one, the receipt begins at its snapshot and leads it on.
Leading(request, receipt) ==
    LET snapshot == leases[request.lease].snapshot IN
    /\ request.lease \in DOMAIN leases
    /\ receipt.before = Point(snapshot)
    /\ receipt.after = Point(Leads(snapshot, receipt))
    /\ IF receipt.outcome.type = "written"
       THEN leases' = [leases EXCEPT ![request.lease].snapshot = Leads(snapshot, receipt)]
       ELSE leases' = leases
    /\ receipt.outcome.type # "denied" =>
         /\ request.grant \in DOMAIN grants
         /\ grants[request.grant].snapshot = snapshot

Fresh(request, receipt) ==
    /\ ~Known(request)
    /\ Answer(request, receipt)
    /\ receipt.request = request /\ ~IsConflict(receipt)
    /\ Unheld(request, receipt) \/ Leading(request, receipt)

\* What a receipt leads to is a snapshot of the same lease, and a write leads on.
LEMMA LeadsFacts ==
    ASSUME NEW before, NEW receipt, before.generation \in Nat
    PROVE  /\ Leads(before, receipt).lease = before.lease
           /\ Leads(before, receipt).generation \in Nat
           /\ Leads(before, receipt).generation >= before.generation
           /\ receipt.outcome.type = "written" =>
                Leads(before, receipt).generation > before.generation
           /\ receipt.outcome.type # "written" => Leads(before, receipt) = before
  BY DEF Leads, Snapshot

\* The leases after such a step.
LEMMA LeasesAfter ==
    ASSUME LeaseInv, NEW request, NEW receipt, Fresh(request, receipt)
    PROVE  /\ LeaseInv'
           /\ DOMAIN leases' = DOMAIN leases
           /\ \A l \in DOMAIN leases :
                /\ leases'[l].dto = leases[l].dto
                /\ leases'[l].snapshot.generation >= leases[l].snapshot.generation
                /\ l # request.lease => leases'[l].snapshot = leases[l].snapshot
           /\ Leading(request, receipt) =>
                leases'[request.lease].snapshot
                  = Leads(leases[request.lease].snapshot, receipt)
  <1>1. CASE leases' = leases
    BY <1>1, LeadsFacts DEF Fresh, Unheld, Leading, LeaseInv, LeaseSound
  <1>2. CASE Leading(request, receipt) /\ receipt.outcome.type = "written"
    <2>1. PICK l \in DOMAIN leases : l = request.lease
      BY <1>2 DEF Leading
    <2>2. PICK s : s = leases[l].snapshot
      OBVIOUS
    <2>3. PICK t : t = Leads(s, receipt)
      OBVIOUS
    <2>4. LeaseSound(l) /\ leases' = [leases EXCEPT ![l].snapshot = t]
      BY <1>2, <2>1, <2>2, <2>3 DEF Leading, LeaseInv
    <2>5. t.lease = l /\ t.generation \in Nat /\ t.generation >= s.generation
      BY <2>2, <2>3, <2>4, LeadsFacts DEF LeaseSound
    <2>6. leases'[l] = [dto |-> leases[l].dto, state |-> leases[l].state, snapshot |-> t]
      BY <2>1, <2>4 DEF LeaseSound, LeaseInv
    <2>7. /\ leases' = [k \in DOMAIN leases |-> leases'[k]]
          /\ DOMAIN leases' = DOMAIN leases
          /\ \A k \in DOMAIN leases : k # l => leases'[k] = leases[k]
      BY <2>4 DEF LeaseInv
    <2>8. LeaseInv'
      BY <2>5, <2>6, <2>7 DEF LeaseInv, LeaseSound
    <2> QED
      BY <2>1, <2>2, <2>3, <2>5, <2>6, <2>7, <2>8 DEF LeaseInv, LeaseSound
  <1> QED
    BY <1>1, <1>2 DEF Fresh, Unheld, Leading

LEMMA AnsweredStep ==
    ASSUME BrokerInv, NEW request, NEW receipt, Fresh(request, receipt),
           UNCHANGED grants
    PROVE  BrokerInv'
  <1> USE DEF BrokerInv
  <1>1. /\ LeaseInv' /\ DOMAIN leases' = DOMAIN leases
        /\ receipts' = Append(receipts, receipt)
        /\ receipt.request = request
    BY LeasesAfter DEF Fresh, Answer
  <1>2. /\ Len(receipts) \in Nat /\ DOMAIN receipts = 1..Len(receipts)
        /\ IsList(receipts) /\ IsList(receipts')
        /\ DOMAIN receipts' = 1..(Len(receipts) + 1)
        /\ \A m \in 1..Len(receipts) : receipts'[m] = receipts[m]
        /\ receipts'[Len(receipts) + 1] = receipt
    BY <1>1, Grown DEF ReceiptInv
  <1>3. receipt.outcome.type # "denied" =>
          /\ Leading(request, receipt)
          /\ request.grant \in DOMAIN grants
          /\ receipt.before.digest = grants[request.grant].snapshot
    BY DEF Fresh, Unheld, Leading, Point
  <1>4. Leading(request, receipt) =>
          /\ request.lease \in DOMAIN leases
          /\ receipt.before.digest = leases[request.lease].snapshot
          /\ receipt.before.digest.lease = request.lease
          /\ receipt.before.digest.generation \in Nat
    BY DEF Leading, Point, LeaseInv, LeaseSound
  <1>5. GrantInv'
    BY <1>1 DEF GrantInv, Held
  <1>6. ReceiptInv'
    <2>1. ASSUME NEW n \in 1..Len(receipts)
          PROVE  ReceiptSound(receipts[n])'
      <3>1. ReceiptSound(receipts[n]) /\ receipts'[n] = receipts[n]
        BY <1>2 DEF ReceiptInv
      <3>2. PICK r : r = receipts[n]
        OBVIOUS
      <3>3. ASSUME r.outcome.type = "written"
            PROVE  /\ r.request.grant \in DOMAIN grants
                   /\ r.before.digest.lease \in DOMAIN leases
                   /\ r.before.digest.generation \in Nat
                   /\ r.before.digest.generation
                        < leases'[r.before.digest.lease].snapshot.generation
        <4>1. PICK k \in DOMAIN leases : k = r.before.digest.lease
          BY <3>1, <3>2, <3>3 DEF ReceiptSound, Held
        <4>2. PICK g, h : g = leases[k].snapshot.generation
                          /\ h = leases'[k].snapshot.generation
          OBVIOUS
        <4>3. g \in Nat /\ h \in Nat /\ h >= g
          BY <1>1, <4>1, <4>2, LeasesAfter DEF LeaseInv, LeaseSound
        <4>4. r.before.digest.generation \in Nat /\ r.before.digest.generation < g
          BY <3>1, <3>2, <3>3, <4>1, <4>2 DEF ReceiptSound
        <4>5. n \in DOMAIN receipts /\ ReceiptSound(r) /\ r.request.grant \in DOMAIN grants
          BY <1>2, <3>1, <3>2, <3>3 DEF ReceiptSound
        <4> QED
          BY <4>1, <4>2, <4>3, <4>4, <4>5
      <3> QED
        BY <1>1, <3>1, <3>2, <3>3 DEF ReceiptSound, Held
    <2>2. ReceiptSound(receipt)'
      BY <1>1, <1>3, <1>4, LeasesAfter, LeadsFacts DEF ReceiptSound, Held
    <2>3. \A l \in LeaseIds : l \notin DOMAIN leases' => Told(l)' = {}
      BY <1>1, <1>2, <1>4, ToldOn DEF ReceiptInv, Fresh, Unheld, About
    <2>4. \A n \in DOMAIN receipts' : receipts'[n].outcome.type # "denied" =>
            receipts'[n].request.grant \in DOMAIN grants'
      BY <1>1, <1>2, <1>3 DEF ReceiptInv
    <2>5. \A n \in DOMAIN receipts' : ReceiptSound(receipts[n])'
      <3> SUFFICES ASSUME NEW n \in DOMAIN receipts' PROVE ReceiptSound(receipts[n])'
        OBVIOUS
      <3>1. CASE n \in 1..Len(receipts)
        BY <2>1, <3>1
      <3>2. CASE n = Len(receipts) + 1
        BY <1>2, <2>2, <3>2 DEF ReceiptSound, Held
      <3> QED
        BY <1>2, <3>1, <3>2
    <2> QED
      BY <1>2, <2>3, <2>4, <2>5 DEF ReceiptInv
  <1>7. KeyInv'
    <2>1. PICK a : a = [request |-> request, receipt |-> receipt, conflicts |-> {}]
      OBVIOUS
    <2>2. /\ answers' = [k \in DOMAIN answers \union {request.key} |->
                           IF k = request.key THEN a ELSE answers[k]]
          /\ request.key \notin DOMAIN answers
      BY <2>1 DEF Fresh, Answer, With, Known
    <2>3. \A n \in DOMAIN receipts : Remembered(receipts[n].request)'
      <3> SUFFICES ASSUME NEW n \in DOMAIN receipts PROVE Remembered(receipts[n].request)'
        OBVIOUS
      <3>1. Remembered(receipts[n].request) /\ receipts'[n] = receipts[n]
        BY <1>2 DEF KeyInv
      <3> QED
        BY <2>2, <3>1 DEF Remembered, Known
    <2>4. Remembered(request)'
      BY <1>1, <1>2, <2>1, <2>2 DEF Remembered, Known
    <2>5. \A n \in DOMAIN receipts' : Remembered(receipts[n].request)'
      <3> SUFFICES ASSUME NEW n \in DOMAIN receipts' PROVE Remembered(receipts[n].request)'
        OBVIOUS
      <3>1. CASE n \in 1..Len(receipts)
        BY <1>2, <2>3, <3>1
      <3>2. CASE n = Len(receipts) + 1
        <4>1. receipts'[n].request = request
          BY <1>1, <1>2, <3>2
        <4> QED
          BY <2>4, <4>1 DEF Remembered, Known
      <3> QED
        BY <1>2, <3>1, <3>2
    <2> QED
      BY <2>1, <2>2, <2>5 DEF KeyInv
  <1>8. ReceiptsTellTheContents'
    <2> SUFFICES ASSUME NEW l \in DOMAIN leases PROVE Tells(l)'
      BY <1>1 DEF ReceiptsTellTheContents
    <2>1. Tells(l) /\ leases'[l].dto = leases[l].dto
      BY LeasesAfter DEF ReceiptsTellTheContents
    <2>2. CASE About(l, receipt)
      <3>1. l = request.lease /\ Leading(request, receipt)
        BY <1>1, <2>2 DEF About, Fresh, Unheld
      <3> QED
        BY <1>1, <1>2, <2>1, <2>2, <3>1, LeasesAfter, TellsOn DEF Leading
    <2>3. CASE ~About(l, receipt)
      <3>1. leases' = leases \/ l # request.lease
        BY <1>1, <1>4, <2>3 DEF About, Fresh, Unheld
      <3>2. leases'[l].snapshot = leases[l].snapshot
        BY <3>1, LeasesAfter
      <3> QED
        BY <1>1, <1>2, <2>1, <2>3, <3>2, TellsOn
    <2> QED
      BY <2>2, <2>3
  <1>9. GrantsWriteOnce'
    BY <1>1, <1>3, <1>4, GrantsOn
  <1>10. KeysAnswerOnce'
    <2>1. \A n \in DOMAIN receipts : receipts[n].request.key # receipt.request.key
      BY <1>1 DEF KeyInv, Remembered, Known, Fresh
    <2> QED
      BY <1>1, <1>2, <2>1, KeysOn
  <1> QED
    BY <1>1, <1>5, <1>6, <1>7, <1>8, <1>9, <1>10

-----------------------------------------------------------------------------
(* A key that was answered.                                                *)

LEMMA ConflictStep ==
    ASSUME BrokerInv, NEW request, NEW conflict, Known(request),
           IsConflict(conflict), conflict.request = request,
           answers[request.key].request # request,
           \A c \in answers[request.key].conflicts : c.request # request,
           receipts' = Append(receipts, conflict),
           answers' = [answers EXCEPT ![request.key].conflicts = @ \union {conflict}],
           UNCHANGED <<leases, grants>>
    PROVE  BrokerInv'
  <1> USE DEF BrokerInv
  <1>1. /\ Len(receipts) \in Nat /\ DOMAIN receipts = 1..Len(receipts)
        /\ IsList(receipts) /\ IsList(receipts')
        /\ DOMAIN receipts' = 1..(Len(receipts) + 1)
        /\ \A m \in 1..Len(receipts) : receipts'[m] = receipts[m]
        /\ receipts'[Len(receipts) + 1] = conflict
    BY Grown DEF ReceiptInv
  <1>2. conflict.outcome.type = "denied"
    BY DEF IsConflict
  <1>3. LeaseInv' /\ GrantInv'
    BY DEF LeaseInv, LeaseSound, GrantInv, Held
  <1>4. \A l : Told(l)' = Told(l)
    BY <1>1, ToldOn DEF About
  <1>5. ReceiptInv'
    BY <1>1, <1>2, <1>4 DEF ReceiptInv, ReceiptSound, Held
  <1>6. KeyInv'
    <2>1. PICK k \in DOMAIN answers : k = request.key
      BY DEF Known
    <2>2. PICK a : a = answers[k]
      OBVIOUS
    <2>3. a = [request |-> a.request, receipt |-> a.receipt, conflicts |-> a.conflicts]
      BY <2>1, <2>2 DEF KeyInv
    <2>4. answers'[k] = [request |-> a.request, receipt |-> a.receipt,
                         conflicts |-> a.conflicts \union {conflict}]
      BY <2>1, <2>2, <2>3 DEF KeyInv
    <2>5. /\ answers' = [j \in DOMAIN answers |-> answers'[j]]
          /\ DOMAIN answers' = DOMAIN answers
          /\ \A j \in DOMAIN answers : j # k => answers'[j] = answers[j]
      BY <2>1 DEF KeyInv
    <2>6. \A n \in DOMAIN receipts' : Remembered(receipts[n].request)'
      <3> SUFFICES ASSUME NEW n \in DOMAIN receipts' PROVE Remembered(receipts[n].request)'
        OBVIOUS
      <3>1. PICK asked : asked = receipts'[n].request
        OBVIOUS
      <3>2. CASE n \in 1..Len(receipts)
        <4>1. Remembered(asked)
          BY <1>1, <3>1, <3>2 DEF KeyInv
        <4>2. Remembered(asked)'
          BY <2>1, <2>2, <2>4, <2>5, <4>1 DEF Remembered, Known
        <4> QED
          BY <3>1, <4>2 DEF Remembered, Known
      <3>3. CASE n = Len(receipts) + 1
        <4>1. asked = request
          BY <1>1, <3>1, <3>3
        <4>2. Remembered(asked)'
          BY <2>1, <2>4, <2>5, <4>1 DEF Remembered, Known
        <4> QED
          BY <3>1, <4>2 DEF Remembered, Known
      <3> QED
        BY <1>1, <3>2, <3>3
    <2>7. \A j \in DOMAIN answers' :
            answers'[j] = [request |-> answers'[j].request, receipt |-> answers'[j].receipt,
                           conflicts |-> answers'[j].conflicts]
      BY <2>2, <2>4, <2>5, ZenonT(60) DEF KeyInv
    <2> QED
      BY <2>5, <2>6, <2>7 DEF KeyInv
  <1>7. ReceiptsTellTheContents'
    BY <1>1, TellsOn DEF ReceiptsTellTheContents, About
  <1>8. GrantsWriteOnce'
    BY <1>2, GrantsOn
  <1>9. KeysAnswerOnce'
    <2>1. \A n \in DOMAIN receipts : receipts[n].request.key = request.key =>
            receipts[n].request # request
      BY DEF KeyInv, Remembered
    <2> QED
      BY <1>1, <2>1, KeysOn
  <1> QED
    BY <1>3, <1>5, <1>6, <1>7, <1>8, <1>9

-----------------------------------------------------------------------------
(* What a request meets.                                                   *)

\* The codes that refuse a request under a new key: none is that of a conflict.
Refusals == DeniedCodes \ {"idempotency_conflict"}

LEMMA FlawsRefuse == \A p \in Paths : Flaw[p] \in Refusals \union {None}
  BY BoundaryAssumption DEF Refusals, DeniedCodes

LEMMA PathOfOperation ==
    \A operation \in Operations :
        /\ operation.type \in {"read", "write", "unsupported"}
        /\ operation.type # "unsupported" => operation.path \in Paths
        /\ LogicalPath(operation) \in Paths \union {None}
  BY DEF Operations, LogicalPath

LEMMA AdmissionRefuses ==
    ASSUME NEW request, NEW now, request.operation \in Operations
    PROVE  AdmissionCode(request, now) \in Refusals \union {None}
  <1>1. TreeFlaw(request.lease, LogicalPath(request.operation)) \in Refusals \union {None}
    <2>1. LogicalPath(request.operation) \in Paths \union {None}
      BY PathOfOperation
    <2> QED
      BY <2>1, FlawsRefuse DEF TreeFlaw, Refusals, DeniedCodes
  <1> QED
    BY <1>1 DEF AdmissionCode, Refusals, DeniedCodes

LEMMA OperationRefuses ==
    ASSUME NEW request, NEW bytes, request.operation \in Operations
    PROVE  OperationCode(request, bytes) \in Refusals \union {None}
  <1> DEFINE grant == grants[request.grant]
             files == leases[request.lease].snapshot.files
  <1>1. \A p, granted : PathCode(p, granted) \in Refusals \union {None}
    BY DEF PathCode, Refusals, DeniedCodes
  <1>2. ReadCode(request, grant, files, bytes) \in Refusals \union {None}
    BY <1>1 DEF ReadCode, Refusals, DeniedCodes
  <1>3. WriteCode(request, grant, files, bytes) \in Refusals \union {None}
    BY <1>1 DEF WriteCode, Refusals, DeniedCodes
  <1>4. "unsupported_operation" \in Refusals
    BY DEF Refusals, DeniedCodes
  <1>5. request.operation.type \in {"read", "write", "unsupported"}
    BY PathOfOperation
  <1> QED
    BY <1>2, <1>3, <1>4, <1>5 DEF OperationCode

\* What is admitted was granted at the snapshot that the lease holds.
LEMMA Admitted ==
    ASSUME NEW request, NEW now, AdmissionCode(request, now) = None
    PROVE  /\ request.lease \in DOMAIN leases
           /\ request.grant \in DOMAIN grants
           /\ grants[request.grant].snapshot = leases[request.lease].snapshot
  BY BoundaryAssumption DEF AdmissionCode, DeniedCodes, GrantKnown, Binds

\* A tree in which only the path has changed, to the content, is the tree in
\* which the path was written, whoever else wrote.
LEMMA OnlyTheWrite ==
    ASSUME NEW before, NEW path, NEW content,
           NEW files \in Outcomes(before, path, content),
           OnlyChanged(before, files, path), files[path] = content
    PROVE  files = With(before, path, content)
  <1>1. files = [p \in DOMAIN files |-> files[p]]
    BY DEF Outcomes, With
  <1>2. path \in DOMAIN files
    BY DEF Outcomes, With
  <1>3. \A p \in DOMAIN before \union DOMAIN files : p # path =>
          p \in DOMAIN before /\ p \in DOMAIN files /\ before[p] = files[p]
    BY DEF OnlyChanged
  <1>4. DOMAIN files = DOMAIN before \union {path}
    BY <1>2, <1>3
  <1> QED
    BY <1>1, <1>3, <1>4 DEF With

\* A root is removed or left, whatever it holds.
LEMMA FailedStep ==
    ASSUME BrokerInv, NEW l \in DOMAIN leases, NEW state,
           leases' = [leases EXCEPT ![l].state = state],
           UNCHANGED <<grants, answers, receipts>>
    PROVE  BrokerInv'
  <1>1. leases' = [k \in DOMAIN leases |-> leases'[k]] /\ DOMAIN leases' = DOMAIN leases
        /\ \A k \in DOMAIN leases : k # l => leases'[k] = leases[k]
    BY DEF BrokerInv, LeaseInv
  <1>2. leases'[l] = [dto |-> leases[l].dto, state |-> state, snapshot |-> leases[l].snapshot]
    BY DEF BrokerInv, LeaseInv, LeaseSound
  <1>3. LeasesStay
    BY <1>1, <1>2 DEF LeasesStay, Stays, BrokerInv, LeaseInv, LeaseSound
  <1>4. GrantInv'
    BY <1>1 DEF BrokerInv, GrantInv, Held
  <1> QED
    BY <1>3, <1>4, QuietStep

LEMMA IdleStep ==
    ASSUME BrokerInv, UNCHANGED <<leases, grants, answers, receipts>>
    PROVE  BrokerInv'
  <1>1. LeasesStay
    BY DEF LeasesStay, Stays, BrokerInv, LeaseInv, LeaseSound
  <1>2. GrantInv'
    BY DEF BrokerInv, GrantInv, Held
  <1> QED
    BY <1>1, <1>2, QuietStep

LEMMA ExecuteStep ==
    ASSUME BrokerInv, NEW request, NEW bytes, NEW now,
           request.operation \in Operations, Held(request.expected),
           Execute(request, bytes, now)
    PROVE  BrokerInv'
  <1> DEFINE l == request.lease
             before == leases[l].snapshot
  <1>1. CASE Known(request)
    <2>1. ExecuteKnown(request) /\ UNCHANGED <<leases, roots, grants>>
      BY <1>1 DEF Execute
    <2>2. CASE UNCHANGED <<answers, receipts>>
      BY <2>1, <2>2, IdleStep
    <2>3. CASE ~ UNCHANGED <<answers, receipts>>
      <3>1. PICK conflict :
              conflict = Denied(request, "idempotency_conflict",
                                answers[request.key].receipt.after)
        OBVIOUS
      <3>2. IsConflict(conflict) /\ conflict.request = request
        BY <3>1 DEF Denied, Receipt, IsConflict
      <3>3. /\ answers[request.key].request # request
            /\ \A c \in answers[request.key].conflicts : c.request # request
            /\ receipts' = Append(receipts, conflict)
            /\ answers' = [answers EXCEPT ![request.key].conflicts = @ \union {conflict}]
        BY <2>1, <2>3, <3>1 DEF ExecuteKnown
      <3> QED
        BY <1>1, <2>1, <3>2, <3>3, ConflictStep
    <2> QED
      BY <2>2, <2>3
  <1>2. CASE ~Known(request)
    <2>1. ExecuteFresh(request, bytes, now) /\ UNCHANGED grants
      BY <1>2 DEF Execute
    <2>2. PICK code : code = IF AdmissionCode(request, now) # None
                             THEN AdmissionCode(request, now)
                             ELSE OperationCode(request, bytes)
      OBVIOUS
    <2>3. code \in Refusals \union {None}
      BY <2>2, AdmissionRefuses, OperationRefuses
    <2>4. CASE code # None
      <3>1. PICK receipt : receipt = Denied(request, code, FallbackPoint(request))
        OBVIOUS
      <3>2. Answer(request, receipt) /\ UNCHANGED <<leases, roots>>
        BY <2>1, <2>2, <2>4, <3>1 DEF ExecuteFresh
      <3>3. /\ receipt.request = request /\ ~IsConflict(receipt)
            /\ receipt.outcome.type = "denied"
            /\ receipt.before = FallbackPoint(request)
            /\ receipt.after = FallbackPoint(request)
        BY <2>3, <2>4, <3>1 DEF Denied, Receipt, IsConflict, Refusals
      <3>4. Leading(request, receipt) \/ Unheld(request, receipt)
        BY <3>2, <3>3 DEF Leading, Unheld, FallbackPoint, Point, Leads, Held
      <3>5. Fresh(request, receipt)
        BY <1>2, <3>2, <3>3, <3>4 DEF Fresh
      <3> QED
        BY <2>1, <3>5, AnsweredStep
    <2>5. CASE code = None
      <3>1. AdmissionCode(request, now) = None /\ OperationCode(request, bytes) = None
        BY <2>2, <2>5
      <3>2. /\ l \in DOMAIN leases
            /\ request.grant \in DOMAIN grants
            /\ grants[request.grant].snapshot = before
        BY <3>1, Admitted
      <3>3. LeaseSound(l)
        BY <3>2 DEF BrokerInv, LeaseInv
      <3>4. ASSUME NEW files, BackendFails(l, files)
            PROVE  BrokerInv'
        BY <2>1, <3>2, <3>4, FailedStep DEF BackendFails
      <3>5. ASSUME NEW receipt, Answer(request, receipt), receipt.request = request,
                   receipt.before = Point(before),
                   receipt.after = Point(Leads(before, receipt)),
                   receipt.outcome.type \in {"read", "written"},
                   IF receipt.outcome.type = "written"
                   THEN leases' = [leases EXCEPT ![l].snapshot = Leads(before, receipt)]
                   ELSE leases' = leases
            PROVE  BrokerInv'
        <4>1. Fresh(request, receipt)
          BY <1>2, <3>2, <3>5 DEF Fresh, Leading, IsConflict
        <4> QED
          BY <2>1, <4>1, AnsweredStep
      <3>6. CASE request.operation.type = "read"
        <4>1. Read(request)
          BY <2>1, <2>2, <2>5, <3>6 DEF ExecuteFresh
        <4>2. CASE \E m \in Meddling :
                     BackendFails(l, With(roots[l], request.operation.path, m[2]))
          BY <3>4, <4>2
        <4>3. CASE Answer(request,
                          Receipt(request,
                                  [type |-> "read",
                                   content |-> before.files[request.operation.path]],
                                  Point(before), Point(before)))
                   /\ UNCHANGED <<leases, roots>>
          <5>1. PICK receipt :
                  receipt = Receipt(request,
                                    [type |-> "read",
                                     content |-> before.files[request.operation.path]],
                                    Point(before), Point(before))
            OBVIOUS
          <5>2. /\ receipt.request = request /\ receipt.outcome.type = "read"
                /\ receipt.before = Point(before) /\ receipt.after = Point(before)
                /\ Leads(before, receipt) = before
            BY <5>1 DEF Receipt, Leads
          <5>3. Answer(request, receipt) /\ leases' = leases
            BY <4>3, <5>1
          <5> QED
            BY <3>5, <5>2, <5>3
        <4> QED
          BY <4>1, <4>2, <4>3 DEF Read
      <3>7. CASE request.operation.type # "read"
        <4> DEFINE path == request.operation.path
                   content == request.operation.content
        <4>1. Write(request)
          BY <2>1, <2>2, <2>5, <3>7 DEF ExecuteFresh
        <4>2. CASE \E files : BackendFails(l, files)
          BY <3>4, <4>2
        <4>3. ASSUME NEW files \in Outcomes(before.files, path, content),
                     OnlyChanged(before.files, files, path), files[path] = content,
                     leases' = [leases EXCEPT ![l].snapshot
                                  = Snapshot(l, before.generation + 1, files)],
                     Answer(request,
                       Receipt(request, [type |-> "written", content |-> content],
                               Point(before),
                               Point(Snapshot(l, before.generation + 1, files))))
              PROVE  BrokerInv'
          <5>1. PICK after : after = Snapshot(l, before.generation + 1, files)
            OBVIOUS
          <5>2. PICK receipt :
                  receipt = Receipt(request, [type |-> "written", content |-> content],
                                    Point(before), Point(after))
            OBVIOUS
          <5>3. files = With(before.files, path, content)
            BY <4>3, OnlyTheWrite
          <5>4. /\ receipt.request = request /\ receipt.outcome.type = "written"
                /\ receipt.before = Point(before) /\ receipt.after = Point(after)
                /\ Leads(before, receipt) = after
            BY <3>3, <5>1, <5>2, <5>3 DEF Receipt, Leads, LeaseSound
          <5>5. Answer(request, receipt) /\ leases' = [leases EXCEPT ![l].snapshot = after]
            BY <4>3, <5>1, <5>2
          <5> QED
            BY <3>5, <5>4, <5>5
        <4>4. CASE \E files \in Outcomes(before.files, path, content) :
                     /\ OnlyChanged(before.files, files, path) /\ files[path] = content
                     /\ leases' = [leases EXCEPT ![l].snapshot
                                     = Snapshot(l, before.generation + 1, files)]
                     /\ Answer(request,
                          Receipt(request, [type |-> "written", content |-> content],
                                  Point(before),
                                  Point(Snapshot(l, before.generation + 1, files))))
          BY <4>3, <4>4
        <4> QED
          BY <4>1, <4>2, <4>4 DEF Write
      <3> QED
        BY <3>6, <3>7
    <2> QED
      BY <2>4, <2>5
  <1> QED
    BY <1>1, <1>2

-----------------------------------------------------------------------------
(* The theorems.                                                           *)

LEMMA OpenStep ==
    ASSUME BrokerInv, NEW l \in LeaseIds, NEW execution, NEW seeds, NEW window,
           OpenLease(l, execution, seeds, window)
    PROVE  BrokerInv'
  <1>1. PICK dto, snapshot :
          /\ leases' = With(leases, l,
                            [dto |-> dto, state |-> "active", snapshot |-> snapshot])
          /\ snapshot = Snapshot(l, 0, Materialized(seeds))
          /\ dto.initial = snapshot
          /\ l \notin DOMAIN leases
          /\ UNCHANGED <<grants, answers, receipts>>
    BY DEF OpenLease
  <1>2. LeasesStay
    BY <1>1 DEF With, Snapshot, LeasesStay, Stays, Opened, BrokerInv, LeaseInv, LeaseSound
  <1>3. GrantInv'
    BY <1>1, <1>2 DEF BrokerInv, GrantInv, Held, LeasesStay
  <1> QED
    BY <1>1, <1>2, <1>3, QuietStep

LEMMA GrantStep ==
    ASSUME BrokerInv, NEW l, NEW execution, NEW form, IssueGrant(execution, l, form)
    PROVE  BrokerInv'
  <1>1. PICK grant : grant = GrantOf(execution, leases[l], form)
    OBVIOUS
  <1>2. /\ l \in DOMAIN leases /\ grants' = Append(grants, grant)
        /\ UNCHANGED <<leases, roots, answers, receipts>>
    BY <1>1 DEF IssueGrant
  <1>3. grant.snapshot = leases[l].snapshot
    BY <1>1 DEF GrantOf
  <1>4. Held(grant.snapshot)
    BY <1>2, <1>3 DEF Held, BrokerInv, LeaseInv, LeaseSound
  <1>5. /\ IsList(grants') /\ DOMAIN grants = 1..Len(grants) /\ Len(grants) \in Nat
        /\ DOMAIN grants' = 1..(Len(grants) + 1)
        /\ \A n \in 1..Len(grants) : grants'[n] = grants[n]
        /\ grants'[Len(grants) + 1] = grant
    BY <1>2, Grown DEF BrokerInv, GrantInv
  <1>6. \A n \in DOMAIN grants' : grants'[n].snapshot.lease \in DOMAIN leases
    BY <1>4, <1>5 DEF BrokerInv, GrantInv, Held
  <1>7. GrantInv'
    BY <1>2, <1>5, <1>6 DEF GrantInv, Held
  <1>8. LeasesStay
    BY <1>2 DEF LeasesStay, Stays, BrokerInv, LeaseInv, LeaseSound
  <1> QED
    BY <1>2, <1>5, <1>7, <1>8, QuietStep

LEMMA AskStep ==
    ASSUME BrokerInv, Ask
    PROVE  BrokerInv'
  <1>1. PICK key \in Keys, execution \in Executions, l \in LeaseIds,
             grant \in 1..(Len(grants) + 1), expected \in SnapshotsTold,
             operation \in Operated, at \in Times, now \in Times,
             bytes \in Contents \union {None} :
          Execute(Request(key, execution, l, grant, expected, operation, at), bytes, now)
    BY DEF Ask
  <1>2. PICK request :
          request = Request(key, execution, l, grant, expected, operation, at)
    OBVIOUS
  <1>3. request.operation \in Operations /\ request.expected = expected
    BY <1>2, BrokerAssumption DEF Request
  <1>4. Held(expected)
    BY DEF SnapshotsTold, Held, BrokerInv, GrantInv, LeaseInv, LeaseSound
  <1> QED
    BY <1>1, <1>2, <1>3, <1>4, ExecuteStep

LEMMA InvStep == BrokerInv /\ [BrokerNext]_brokerVars => BrokerInv'
  <1> SUFFICES ASSUME BrokerInv, [BrokerNext]_brokerVars PROVE BrokerInv'
    OBVIOUS
  <1>1. ASSUME NEW l \in LeaseIds, NEW execution \in Executions, NEW seeds \in Seeds,
               NEW window \in Windows, OpenLease(l, execution, seeds, window)
        PROVE  BrokerInv'
    BY <1>1, OpenStep
  <1>2. ASSUME NEW l \in LeaseIds, CloseLease(l)
        PROVE  BrokerInv'
    BY <1>2, FailedStep DEF CloseLease, CleansUp
  <1>3. ASSUME NEW l \in LeaseIds, NEW execution \in Executions, NEW form \in Forms,
               IssueGrant(execution, l, form)
        PROVE  BrokerInv'
    BY <1>3, GrantStep
  <1>4. ASSUME NEW l \in LeaseIds, NEW m \in Meddling, Meddle(l, m[1], m[2])
        PROVE  BrokerInv'
    BY <1>4, IdleStep DEF Meddle
  <1>5. CASE Ask
    BY <1>5, AskStep
  <1>6. CASE UNCHANGED brokerVars
    BY <1>6, IdleStep DEF brokerVars
  <1> QED
    BY <1>1, <1>2, <1>3, <1>4, <1>5, <1>6 DEF BrokerNext

LEMMA InvAlways == BrokerSpec => []BrokerInv
  BY InvHolds, InvStep, PTL DEF BrokerSpec

\* The receipts of a lease tell what it holds: each begins where those before
\* it lead, and the broker's snapshot is where the last one ends, whatever
\* others write to the root in the middle of a call (execute_fresh).
THEOREM ReceiptsTell == BrokerSpec => []ReceiptsTellTheContents
  BY InvAlways, PTL DEF BrokerInv

\* What was done under a grant was done at the snapshot it was given for, and
\* no grant writes twice (admit, validate_grant_binding).
THEOREM GrantsWrite == BrokerSpec => []GrantsWriteOnce
  BY InvAlways, PTL DEF BrokerInv

\* Under a key only the first request is carried out; every other one is told
\* of the conflict, once (execute).
THEOREM KeysAnswer == BrokerSpec => []KeysAnswerOnce
  BY InvAlways, PTL DEF BrokerInv

===============================================================================
