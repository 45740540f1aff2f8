------------------------- MODULE GoalRuntimeProofs -------------------------
(***************************************************************************)
(* Theorems about the goal runtime, for any callers, runs, goals, inputs   *)
(* and bundles, and whichever calls die or fail to write: what the file    *)
(* holds is never read shorter, no event is in it twice, the streams of    *)
(* runs with one writer replay, and a completed run earned it.             *)
(***************************************************************************)
EXTENDS GoalRuntime, SequenceTheorems, WellFoundedInduction, TLAPS

LEMMA Least ==
    ASSUME NEW S, S \subseteq Nat, S # {}
    PROVE  \E m \in S : \A k \in S : m <= k
  <1>1. PICK m \in S : \A k \in S : ~(<<k, m>> \in OpToRel(<, Nat))
    BY NatLessThanWellFounded, WFMin
  <1>2. ASSUME NEW k \in S PROVE m <= k
    <2>1. k \in Nat /\ m \in Nat
      OBVIOUS
    <2>2. ~(k < m)
      BY <1>1, <2>1 DEF OpToRel
    <2> QED
      BY <2>1, <2>2
  <1> QED
    BY <1>2

\* What is said of zero and goes on from each number is said of all up to N; the
\* numbers of which it is said are a set.
LEMMA UpTo ==
    ASSUME NEW N \in Nat, NEW S, 0 \in S,
           \A n \in 1..N : n - 1 \in S => n \in S
    PROVE  0..N \subseteq S
  <1> SUFFICES ASSUME 0..N \ S # {}
               PROVE  FALSE
    OBVIOUS
  <1>1. PICK m \in 0..N \ S : \A k \in 0..N \ S : m <= k
    <2>1. 0..N \ S \subseteq Nat
      OBVIOUS
    <2> QED
      BY <2>1, Least
  <1>2. m # 0 /\ m \in 1..N /\ m - 1 \in 0..N /\ ~(m <= m - 1)
    <2>1. m \in 0..N /\ m # 0
      BY <1>1
    <2> QED
      BY <2>1
  <1> QED
    BY <1>1, <1>2


\* The values that a loop goes through.
GoesThrough(g, N, D, d, step) ==
    /\ g = [n \in 0..N |-> g[n]] /\ g[0] = d
    /\ \A n \in 1..N : g[n] = step[n][g[n - 1]]
    /\ \A n \in 0..N : g[n] \in D

LEMMA Rounds ==
    ASSUME NEW N \in Nat, NEW D, NEW d \in D, NEW step,
           \A n \in 1..N : \A x \in D : step[n][x] \in D
    PROVE  \E g : GoesThrough(g, N, D, d, step)
  <1> DEFINE Goes(m, g) == GoesThrough(g, m, D, d, step)
             Good == {m \in 0..N : \E g : Goes(m, g)}
  <1> USE DEF GoesThrough
  <1>1. 0 \in Good
    <2>1. PICK g : g = [n \in 0..0 |-> d]
      OBVIOUS
    <2>2. Goes(0, g)
      BY <2>1
    <2> QED
      BY <2>2
  <1>2. ASSUME NEW m \in 1..N, m - 1 \in Good
        PROVE  m \in Good
    <2>1. PICK g : Goes(m - 1, g)
      BY <1>2
    <2>2. PICK h : h = [n \in 0..m |-> IF n = 0 THEN d ELSE step[n][g[n - 1]]]
      OBVIOUS
    <2>3. \A n \in 1..m : n \in 0..m /\ n # 0 /\ n - 1 \in 0..(m - 1) /\ n - 1 \in 0..m /\ n \in 1..N
      OBVIOUS
    <2>4. h[0] = d /\ \A n \in 1..m : h[n] = step[n][g[n - 1]]
      BY <2>2, <2>3
    <2>5. ASSUME NEW n \in 0..(m - 1)
          PROVE  h[n] = g[n]
      <3>1. CASE n = 0
        BY <2>1, <2>4, <3>1
      <3>2. CASE n # 0
        <4>1. n \in 1..m /\ n \in 1..(m - 1)
          BY <3>2
        <4> QED
          BY <2>1, <2>4, <4>1
      <3> QED
        BY <3>1, <3>2
    <2>6. \A n \in 1..m : h[n] = step[n][h[n - 1]] /\ h[n] \in D
      <3> SUFFICES ASSUME NEW n \in 1..m
                   PROVE  h[n] = step[n][h[n - 1]] /\ h[n] \in D
        OBVIOUS
      <3>1. n - 1 \in 0..(m - 1) /\ n \in 1..N
        BY <2>3
      <3>2. h[n - 1] = g[n - 1] /\ g[n - 1] \in D
        BY <2>1, <2>5, <3>1
      <3>3. h[n] = step[n][g[n - 1]]
        BY <2>4
      <3>4. step[n][g[n - 1]] \in D
        BY <3>1, <3>2
      <3> QED
        BY <3>2, <3>3, <3>4
    <2>7. \A n \in 0..m : n = 0 \/ n \in 1..m
      OBVIOUS
    <2>8. h = [n \in 0..m |-> h[n]]
      BY <2>2
    <2>9. Goes(m, h)
      BY <2>4, <2>6, <2>7, <2>8
    <2>10. m \in 0..N
      OBVIOUS
    <2> QED
      BY <2>9, <2>10
  <1>3. N \in Good
    <2>1. 0..N \subseteq Good
      <3> HIDE DEF Good
      <3> QED
        BY <1>1, <1>2, UpTo
    <2> QED
      BY <2>1
  <1> QED
    BY <1>3

-----------------------------------------------------------------------------
(* The stream of a run.                                                    *)

Lines == Event \union {Malformed}

\* The list of a run's events as the lines are read.
Reads(own, run, lines) ==
    /\ own[0] = <<>>
    /\ \A n \in 1..Len(lines) :
          own[n] = IF IsOf(run, lines[n]) THEN Append(own[n - 1], lines[n])
                   ELSE own[n - 1]
    /\ \A n \in 0..Len(lines) : own[n] \in Seq(Event)
    /\ EventsOf(run, lines) = own[Len(lines)]

LEMMA EventsRead ==
    ASSUME NEW run, NEW lines \in Seq(Lines)
    PROVE  \E own : Reads(own, run, lines)
  <1> DEFINE N == Len(lines)
             Body(f, n) == IF n = 0 THEN <<>>
                           ELSE IF IsOf(run, lines[n]) THEN Append(f[n - 1], lines[n])
                           ELSE f[n - 1]
             Is(f) == f = [n \in 0..N |-> Body(f, n)]
  <1>1. N \in Nat /\ \A n \in 1..N : lines[n] \in Lines
    OBVIOUS
  <1>2. PICK D, d, step :
            /\ D = Seq(Event) /\ d = <<>>
            /\ step = [n \in 1..N |-> [x \in D |->
                          IF IsOf(run, lines[n]) THEN Append(x, lines[n]) ELSE x]]
    OBVIOUS
  <1>3. d \in D /\ \A n \in 1..N : \A x \in D : step[n][x] \in D
    BY <1>1, <1>2 DEF Lines, IsOf
  <1>4. PICK g : GoesThrough(g, N, D, d, step)
    <2> HIDE DEF N
    <2> QED
      BY <1>1, <1>3, Rounds
  <1>5. Is(g)
    <2>1. ASSUME NEW n \in 0..N
          PROVE  g[n] = Body(g, n)
      <3>1. CASE n = 0
        BY <1>2, <1>4, <3>1 DEF GoesThrough
      <3>2. CASE n # 0
        <4>1. n \in 1..N /\ n - 1 \in 0..N
          BY <1>1, <3>2
        <4> HIDE DEF N
        <4> QED
          BY <1>2, <1>4, <3>2, <4>1 DEF GoesThrough
      <3> QED
        BY <3>1, <3>2
    <2> HIDE DEF Body
    <2> QED
      BY <1>4, <2>1 DEF GoesThrough
  <1>6. PICK f : f = CHOOSE h : Is(h)
    OBVIOUS
  <1>7. Is(f)
    <2> HIDE DEF Is
    <2> QED
      BY <1>5, <1>6
  <1>8. EventsOf(run, lines) = f[N]
    BY <1>6 DEF EventsOf
  <1>9. ASSUME NEW n \in 0..N
        PROVE  f[n] = Body(f, n)
    <2> HIDE DEF Body
    <2> QED
      BY <1>7
  <1>10. /\ f[0] = <<>>
         /\ \A n \in 1..N : f[n] = IF IsOf(run, lines[n]) THEN Append(f[n - 1], lines[n])
                                   ELSE f[n - 1]
    <2>1. 0 \in 0..N /\ \A n \in 1..N : n \in 0..N /\ n # 0
      BY <1>1
    <2> QED
      BY <1>9, <2>1
  <1>11. \A n \in 0..N : f[n] \in Seq(Event)
    <2>1. PICK S : S = {n \in 0..N : f[n] \in Seq(Event)}
      OBVIOUS
    <2>2. 0 \in S
      <3>1. <<>> \in Seq(Event) /\ 0 \in 0..N
        BY <1>1
      <3> HIDE DEF N
      <3> QED
        BY <1>10, <2>1, <3>1
    <2>3. ASSUME NEW n \in 1..N, n - 1 \in S
          PROVE  n \in S
      <3>1. f[n - 1] \in Seq(Event) /\ n \in 0..N
        BY <1>1, <2>1, <2>3
      <3>2. IsOf(run, lines[n]) => lines[n] \in Event
        BY <1>1 DEF IsOf, Lines
      <3>3. f[n] = f[n - 1] \/ (lines[n] \in Event /\ f[n] = Append(f[n - 1], lines[n]))
        BY <1>10, <3>2 DEF Body
      <3>4. f[n] \in Seq(Event)
        <4> PICK x, e : x = f[n - 1] /\ e = lines[n]
          OBVIOUS
        <4>1. x \in Seq(Event) /\ (f[n] = x \/ (e \in Event /\ f[n] = Append(x, e)))
          BY <3>1, <3>3
        <4>2. e \in Event => Append(x, e) \in Seq(Event)
          BY <4>1
        <4> QED
          BY <4>1, <4>2
      <3> QED
        BY <2>1, <3>1, <3>4
    <2>4. 0..N \subseteq S
      <3> HIDE DEF N
      <3> QED
        BY <1>1, <2>2, <2>3, UpTo
    <2> QED
      BY <2>1, <2>4
  <1>12. Reads(f, run, lines)
    BY <1>8, <1>10, <1>11 DEF Reads
  <1> QED
    BY <1>12

LEMMA EventsTyped ==
    ASSUME NEW run, NEW lines \in Seq(Lines)
    PROVE  EventsOf(run, lines) \in Seq(Event)
  <1>1. PICK own : Reads(own, run, lines)
    BY EventsRead
  <1>2. Len(lines) \in 0..Len(lines)
    BY LenProperties
  <1> QED
    BY <1>1, <1>2 DEF Reads

LEMMA EventsOfNothing ==
    ASSUME NEW run
    PROVE  EventsOf(run, <<>>) = <<>>
  <1>1. <<>> \in Seq(Lines) /\ Len(<<>>) = 0
    OBVIOUS
  <1>2. PICK own : Reads(own, run, <<>>)
    BY <1>1, EventsRead
  <1> QED
    BY <1>1, <1>2 DEF Reads

\* A line that is appended is the last event of its run, and nothing to another.
LEMMA EventsAppend ==
    ASSUME NEW run, NEW lines \in Seq(Lines), NEW line \in Lines
    PROVE  EventsOf(run, Append(lines, line)) =
               IF IsOf(run, line) THEN Append(EventsOf(run, lines), line)
               ELSE EventsOf(run, lines)
  <1>1. PICK N, longer :
            /\ N = Len(lines) /\ longer = Append(lines, line)
    OBVIOUS
  <1>2. /\ N \in Nat /\ longer \in Seq(Lines) /\ Len(longer) = N + 1
        /\ longer[N + 1] = line
        /\ \A n \in 1..N : longer[n] = lines[n]
    BY <1>1
  <1>3. PICK own : Reads(own, run, lines)
    BY EventsRead
  <1>4. PICK more : Reads(more, run, longer)
    BY <1>2, EventsRead
  <1>5. PICK S : S = {n \in 0..N : more[n] = own[n]}
    OBVIOUS
  <1>6. 0 \in S
    BY <1>2, <1>3, <1>4, <1>5 DEF Reads
  <1>7. ASSUME NEW n \in 1..N, n - 1 \in S
        PROVE  n \in S
    <2>1. n \in 1..Len(longer) /\ n \in 1..Len(lines) /\ n \in 0..N
      BY <1>1, <1>2
    <2>2. longer[n] = lines[n] /\ more[n - 1] = own[n - 1]
      BY <1>2, <1>5, <1>7
    <2>3. more[n] = own[n]
      BY <1>3, <1>4, <2>1, <2>2 DEF Reads
    <2> QED
      BY <1>5, <2>1, <2>3
  <1>8. 0..N \subseteq S
    BY <1>2, <1>6, <1>7, UpTo
  <1>9. more[N] = own[N]
    <2>1. N \in 0..N
      BY <1>2
    <2> QED
      BY <1>5, <1>8, <2>1
  <1>10. N + 1 \in 1..Len(longer) /\ N + 1 - 1 = N
    BY <1>2
  <1>11. more[N + 1] = IF IsOf(run, line) THEN Append(more[N], line) ELSE more[N]
    BY <1>2, <1>4, <1>10 DEF Reads
  <1>12. EventsOf(run, longer) = more[N + 1] /\ EventsOf(run, lines) = own[N]
    BY <1>1, <1>2, <1>3, <1>4 DEF Reads
  <1> QED
    BY <1>1, <1>9, <1>11, <1>12

\* Every event of the file is in the stream of its run.
LEMMA EventsComplete ==
    ASSUME NEW run, NEW lines \in Seq(Lines), NEW i \in 1..Len(lines),
           IsOf(run, lines[i])
    PROVE  \E j \in 1..Len(EventsOf(run, lines)) : EventsOf(run, lines)[j] = lines[i]
  <1>1. PICK N : N = Len(lines)
    OBVIOUS
  <1>2. N \in Nat /\ i \in 1..N /\ \A n \in 1..N : lines[n] \in Lines
    BY <1>1
  <1>3. PICK own : Reads(own, run, lines)
    BY EventsRead
  <1> DEFINE Has(n) == \E j \in 1..Len(own[n]) : own[n][j] = lines[i]
  <1>4. PICK S : S = {n \in 0..N : n >= i => Has(n)}
    OBVIOUS
  <1>5. 0 \in S
    BY <1>2, <1>4
  <1>6. ASSUME NEW n \in 1..N, n - 1 \in S
        PROVE  n \in S
    <2>1. /\ n \in 0..N /\ n - 1 \in 0..N /\ n \in 1..Len(lines)
          /\ own[n - 1] \in Seq(Event) /\ own[n] \in Seq(Event)
      BY <1>1, <1>2, <1>3 DEF Reads
    <2>2. ASSUME n >= i
          PROVE  Has(n)
      <3>1. CASE IsOf(run, lines[n])
        <4>1. own[n] = Append(own[n - 1], lines[n]) /\ lines[n] \in Event
          BY <1>2, <1>3, <2>1, <3>1 DEF Reads, IsOf, Lines
        <4>2. /\ Len(own[n - 1]) \in Nat /\ Len(own[n]) = Len(own[n - 1]) + 1
              /\ own[n][Len(own[n - 1]) + 1] = lines[n]
              /\ \A j \in 1..Len(own[n - 1]) : own[n][j] = own[n - 1][j]
          BY <2>1, <4>1
        <4>3. CASE n = i
          <5>1. Len(own[n - 1]) + 1 \in 1..Len(own[n])
            BY <4>2
          <5> QED
            BY <4>2, <4>3, <5>1
        <4>4. CASE n # i
          <5>1. Has(n - 1)
            BY <1>2, <1>4, <1>6, <2>2, <4>4
          <5>2. PICK j \in 1..Len(own[n - 1]) : own[n - 1][j] = lines[i]
            BY <5>1
          <5>3. j \in 1..Len(own[n]) /\ own[n][j] = lines[i]
            BY <4>2, <5>2
          <5> QED
            BY <5>3
        <4> QED
          BY <4>3, <4>4
      <3>2. CASE ~IsOf(run, lines[n])
        <4>1. n # i /\ n - 1 >= i
          BY <1>2, <2>2, <3>2
        <4>2. own[n] = own[n - 1] /\ Has(n - 1)
          BY <1>3, <1>4, <1>6, <2>1, <3>2, <4>1 DEF Reads
        <4> QED
          BY <4>2
      <3> QED
        BY <3>1, <3>2
    <2> QED
      BY <1>4, <2>1, <2>2
  <1>7. 0..N \subseteq S
    <2> HIDE DEF Has
    <2> QED
      BY <1>2, <1>5, <1>6, UpTo
  <1>8. Has(N)
    <2>1. N \in 0..N /\ N >= i
      BY <1>2
    <2> QED
      BY <1>4, <1>7, <2>1
  <1> QED
    BY <1>1, <1>3, <1>8 DEF Reads

-----------------------------------------------------------------------------
(* What a stream stands for.                                               *)

LEMMA PayloadFields ==
    ASSUME NEW p \in Payload
    PROVE  /\ p.type = "status" => p.from \in Statuses /\ p.to \in Statuses
           /\ p.type = "task" => p.from \in TaskStatuses /\ p.to \in TaskStatuses
           /\ p.type \in {"attached", "evidence"} => p.bundle \in Bundles
           /\ p.type = "completion" =>
                p \in [type : {"completion"}, bundle : Bundles \union {None}, covers : BOOLEAN]
           /\ p.type = "requirements" => p.gates \in SUBSET {"reviewer", "auditor"}
           /\ p.type \in {"review", "audit"} => p.verdict \in Verdicts
  BY DEF Payload

LEMMA NewViewTyped == NewView \in View
  <1>1. "draft" \in Statuses
    <2>1. <<"draft", "accepted">> \in StatusTable /\ <<"draft", "accepted">>[1] = "draft"
      BY DEF StatusTable
    <2> QED
      BY <2>1 DEF Statuses
  <1>2. <<>> \in Seq(Bundles)
    OBVIOUS
  <1> QED
    BY <1>1, <1>2 DEF NewView, View, TaskStatuses

\* What an event leaves of a view.
LEMMA AfterFields ==
    ASSUME NEW v \in View, NEW p
    PROVE  /\ After(v, p).status = IF p.type = "status" THEN p.to ELSE v.status
           /\ After(v, p).task = IF p.type = "task" THEN p.to ELSE v.task
           /\ After(v, p).evidence =
                IF p.type \in {"attached", "evidence"} THEN v.evidence \union {p.bundle}
                ELSE v.evidence
           /\ After(v, p).catalog =
                IF p.type = "evidence" THEN Append(v.catalog, p.bundle) ELSE v.catalog
           /\ After(v, p).completion = IF p.type = "completion" THEN p ELSE v.completion
           /\ After(v, p).gates = IF p.type = "requirements" THEN p.gates ELSE v.gates
           /\ After(v, p).review = IF p.type = "review" THEN p.verdict ELSE v.review
           /\ After(v, p).audit = IF p.type = "audit" THEN p.verdict ELSE v.audit
           /\ After(v, p).plan = IF p.type = "plan" THEN TRUE ELSE v.plan
           /\ After(v, p).final = IF p.type = "final" THEN TRUE ELSE v.final
           /\ After(v, p) = [status |-> After(v, p).status, task |-> After(v, p).task,
                             plan |-> After(v, p).plan, evidence |-> After(v, p).evidence,
                             catalog |-> After(v, p).catalog,
                             completion |-> After(v, p).completion,
                             gates |-> After(v, p).gates, review |-> After(v, p).review,
                             audit |-> After(v, p).audit, final |-> After(v, p).final]
  BY DEF View, After

LEMMA AfterTyped ==
    ASSUME NEW v \in View, NEW p \in Payload
    PROVE  After(v, p) \in View
  <1>1. PICK w : w = After(v, p)
    OBVIOUS
  <1>2. w.status \in Statuses /\ w.task \in TaskStatuses /\ w.plan \in BOOLEAN /\ w.final \in BOOLEAN
    BY <1>1, AfterFields, PayloadFields DEF View
  <1>3. w.evidence \in SUBSET Bundles
    <2>1. v.evidence \subseteq Bundles
      BY DEF View
    <2>2. w.evidence = IF p.type \in {"attached", "evidence"} THEN v.evidence \union {p.bundle}
                       ELSE v.evidence
      BY <1>1, AfterFields
    <2>3. p.type \in {"attached", "evidence"} => p.bundle \in Bundles
      BY PayloadFields
    <2> QED
      BY <2>1, <2>2, <2>3
  <1>4. w.catalog \in Seq(Bundles)
    <2>1. v.catalog \in Seq(Bundles)
      BY DEF View
    <2>2. w.catalog = IF p.type = "evidence" THEN Append(v.catalog, p.bundle) ELSE v.catalog
      BY <1>1, AfterFields
    <2>3. p.type = "evidence" => p.bundle \in Bundles
      BY PayloadFields
    <2> QED
      BY <2>1, <2>2, <2>3, AppendProperties
  <1>5. w.completion \in [type : {"completion"}, bundle : Bundles \union {None},
                          covers : BOOLEAN] \union {None}
    <2>1. PICK C : C = [type : {"completion"}, bundle : Bundles \union {None}, covers : BOOLEAN]
      OBVIOUS
    <2>2. v.completion \in C \union {None}
      BY <2>1 DEF View
    <2>3. w.completion = IF p.type = "completion" THEN p ELSE v.completion
      BY <1>1, AfterFields
    <2>4. p.type = "completion" => p \in C
      BY <2>1, PayloadFields
    <2>5. w.completion \in C \union {None}
      BY <2>2, <2>3, <2>4
    <2> QED
      BY <2>1, <2>5
  <1>6. /\ w.gates \in (SUBSET {"reviewer", "auditor"}) \union {None}
        /\ w.review \in Verdicts \union {None} /\ w.audit \in Verdicts \union {None}
    <2>1. /\ v.gates \in (SUBSET {"reviewer", "auditor"}) \union {None}
          /\ v.review \in Verdicts \union {None} /\ v.audit \in Verdicts \union {None}
      BY DEF View
    <2>2. w.gates = (IF p.type = "requirements" THEN p.gates ELSE v.gates)
      BY <1>1, AfterFields
    <2>3. w.review = (IF p.type = "review" THEN p.verdict ELSE v.review)
      BY <1>1, AfterFields
    <2>4. w.audit = (IF p.type = "audit" THEN p.verdict ELSE v.audit)
      BY <1>1, AfterFields
    <2> QED
      BY <2>1, <2>2, <2>3, <2>4, PayloadFields
  <1>7. w = [status |-> w.status, task |-> w.task, plan |-> w.plan, evidence |-> w.evidence,
             catalog |-> w.catalog, completion |-> w.completion, gates |-> w.gates,
             review |-> w.review, audit |-> w.audit, final |-> w.final]
    BY <1>1, AfterFields
  <1> QED
    BY <1>1, <1>2, <1>3, <1>4, <1>5, <1>6, <1>7 DEF View

\* The views that a replay goes through.
Views(view, events) ==
    /\ view[0] = NewView
    /\ \A n \in 1..Len(events) :
          view[n] = IF view[n - 1] = None \/ ~Accepts(view[n - 1], events[n]) THEN None
                    ELSE After(view[n - 1], events[n].payload)
    /\ \A n \in 0..Len(events) : view[n] \in View \union {None}
    /\ Replay(events) = IF Chained(events) THEN view[Len(events)] ELSE None

LEMMA ReplayGoes ==
    ASSUME NEW events \in Seq(Event)
    PROVE  \E view : Views(view, events)
  <1> DEFINE N == Len(events)
             Body(f, n) ==
               IF n = 0 THEN NewView
               ELSE LET before == f[n - 1]
                    IN  IF before = None \/ ~Accepts(before, events[n]) THEN None
                        ELSE After(before, events[n].payload)
             Is(f) == f = [n \in 0..N |-> Body(f, n)]
  <1>1. N \in Nat /\ \A n \in 1..N : events[n] \in Event /\ events[n].payload \in Payload
    <2>1. N \in Nat /\ \A n \in 1..N : events[n] \in Event
      OBVIOUS
    <2>2. \A event \in Event : event.payload \in Payload
      BY DEF Event
    <2> QED
      BY <2>1, <2>2
  <1>2. PICK D, d, step :
            /\ D = View \union {None} /\ d = NewView
            /\ step = [n \in 1..N |-> [x \in D |->
                          IF x = None \/ ~Accepts(x, events[n]) THEN None
                          ELSE After(x, events[n].payload)]]
    OBVIOUS
  <1>3. d \in D /\ \A n \in 1..N : \A x \in D : step[n][x] \in D
    <2>1. ASSUME NEW n \in 1..N, NEW x \in D
          PROVE  step[n][x] \in D
      <3>1. x # None => After(x, events[n].payload) \in View
        BY <1>1, <1>2, AfterTyped
      <3>2. step[n][x] = IF x = None \/ ~Accepts(x, events[n]) THEN None
                         ELSE After(x, events[n].payload)
        BY <1>2
      <3> QED
        BY <1>2, <3>1, <3>2
    <2> QED
      BY <1>2, <2>1, NewViewTyped
  <1>4. PICK g : GoesThrough(g, N, D, d, step)
    <2> HIDE DEF N
    <2> QED
      BY <1>1, <1>3, Rounds
  <1>5. Is(g)
    <2>1. ASSUME NEW n \in 0..N
          PROVE  g[n] = Body(g, n)
      <3>1. CASE n = 0
        BY <1>2, <1>4, <3>1 DEF GoesThrough
      <3>2. CASE n # 0
        <4>1. n \in 1..N /\ n - 1 \in 0..N
          BY <1>1, <3>2
        <4> HIDE DEF N
        <4>2. g[n] = step[n][g[n - 1]] /\ g[n - 1] \in D
          BY <1>4, <4>1 DEF GoesThrough
        <4> QED
          BY <1>2, <3>2, <4>1, <4>2
      <3> QED
        BY <3>1, <3>2
    <2> HIDE DEF Body
    <2> QED
      BY <1>4, <2>1 DEF GoesThrough
  <1>6. PICK f : f = CHOOSE h : Is(h)
    OBVIOUS
  <1>7. Is(f)
    <2> HIDE DEF Is
    <2> QED
      BY <1>5, <1>6
  <1>8. Replay(events) = IF Chained(events) THEN f[N] ELSE None
    BY <1>6 DEF Replay
  <1>9. ASSUME NEW n \in 0..N
        PROVE  f[n] = Body(f, n)
    <2> HIDE DEF Body
    <2> QED
      BY <1>7
  <1>10. f[0] = NewView
    <2>1. 0 \in 0..N
      BY <1>1
    <2> QED
      BY <1>9, <2>1
  <1>11. \A n \in 1..N :
            f[n] = IF f[n - 1] = None \/ ~Accepts(f[n - 1], events[n]) THEN None
                   ELSE After(f[n - 1], events[n].payload)
    <2>1. \A n \in 1..N : n \in 0..N /\ n # 0
      BY <1>1
    <2> QED
      BY <1>9, <2>1
  <1>12. \A n \in 0..N : f[n] \in View \union {None}
    <2>1. PICK S : S = {n \in 0..N : f[n] \in View \union {None}}
      OBVIOUS
    <2>2. 0 \in S
      <3>1. 0 \in 0..N
        BY <1>1
      <3> HIDE DEF N
      <3> QED
        BY <1>10, <2>1, <3>1, NewViewTyped
    <2>3. ASSUME NEW n \in 1..N, n - 1 \in S
          PROVE  n \in S
      <3>1. f[n - 1] \in View \union {None} /\ n \in 0..N
        BY <1>1, <2>1, <2>3
      <3>2. f[n - 1] # None => After(f[n - 1], events[n].payload) \in View
        BY <1>1, <3>1, AfterTyped
      <3>3. f[n] \in View \union {None}
        BY <1>11, <3>2
      <3> QED
        BY <2>1, <3>1, <3>3
    <2>4. 0..N \subseteq S
      <3> HIDE DEF N
      <3> QED
        BY <1>1, <2>2, <2>3, UpTo
    <2> QED
      BY <2>1, <2>4
  <1>13. Views(f, events)
    BY <1>8, <1>10, <1>11, <1>12 DEF Views
  <1> QED
    BY <1>13

-----------------------------------------------------------------------------
(* A completed run earned it.                                              *)

LEMMA BeforeFirst ==
    ASSUME NEW s, NEW type
    PROVE  Before(s, 1, type) = {}
  <1>1. 1..(1 - 1) = {}
    OBVIOUS
  <1> QED
    BY <1>1 DEF Before

LEMMA BeforeNext ==
    ASSUME NEW s, NEW type, NEW n \in Nat, n # 0
    PROVE  Before(s, n + 1, type) =
               Before(s, n, type)
                 \union (IF s[n].payload.type = type THEN {s[n].payload} ELSE {})
  <1>1. n + 1 - 1 = n /\ 1..n = 1..(n - 1) \union {n}
    OBVIOUS
  <1> QED
    BY <1>1 DEF Before

LEMMA BeforeTyped ==
    ASSUME NEW s \in Seq(Event), NEW type, NEW n \in 1..(Len(s) + 1),
           NEW p \in Before(s, n, type)
    PROVE  p \in Payload /\ p.type = type
  <1>1. PICK j \in 1..(n - 1) : s[j].payload.type = type /\ p = s[j].payload
    BY DEF Before
  <1>2. j \in 1..Len(s)
    <2>1. Len(s) \in Nat
      BY LenProperties
    <2> QED
      BY <2>1
  <1>3. s[j] \in Event
    BY <1>2, ElementOfSeq
  <1> QED
    BY <1>1, <1>3 DEF Event

\* A view that is not refused holds what the events before it recorded.
Tracks(s, n, v) ==
    /\ \A p \in Before(s, n + 1, "requirements") : v.gates = p.gates
    /\ \A p \in Before(s, n + 1, "review") : v.review = p.verdict
    /\ v.review # None => Before(s, n + 1, "review") # {}
    /\ \A p \in Before(s, n + 1, "audit") : v.audit = p.verdict
    /\ v.audit # None => Before(s, n + 1, "audit") # {}
    /\ v.completion # None => v.completion \in Before(s, n + 1, "completion")
    /\ \A b \in v.evidence :
         \E p \in Before(s, n + 1, "attached") \union Before(s, n + 1, "evidence") : p.bundle = b
    /\ v.status = "completed" => \E i \in 1..n : EarnedAt(s, i)

LEMMA CompletionEarned ==
    ASSUME NEW s \in Seq(Event), NEW n \in 1..Len(s), NEW v \in View,
           Tracks(s, n - 1, v), Completes(s[n]), Accepts(v, s[n])
    PROVE  EarnedAt(s, n)
  <1>1. n \in Nat /\ n - 1 + 1 = n /\ n \in 1..(Len(s) + 1)
    BY LenProperties
  <1>2. PICK p : p = s[n].payload
    OBVIOUS
  <1>3. p.type = "status" /\ p.to = "completed"
    BY <1>2 DEF Completes
  <1>4. MovesFrom(v, p) /\ MayComplete(v)
    BY <1>2, <1>3 DEF Accepts
  <1>5. /\ p.from = v.status /\ v.status = CompletionGate(v)
        /\ EvidenceSuffices(v) /\ ReviewAuditPasses(v)
    BY <1>4 DEF MovesFrom, MayComplete
  <1>6. PICK asked, reviews, audits, attached :
            /\ asked = UNION {q.gates : q \in Before(s, n, "requirements")}
            /\ reviews = {q.verdict : q \in Before(s, n, "review")}
            /\ audits = {q.verdict : q \in Before(s, n, "audit")}
            /\ attached = {q.bundle : q \in Before(s, n, "attached") \union Before(s, n, "evidence")}
    OBVIOUS
  <1>7. \E q \in Before(s, n, "completion") : q.covers /\ q.bundle \in attached
    <2>1. v.completion # None /\ v.completion.bundle \in v.evidence /\ v.completion.covers
      BY <1>5 DEF EvidenceSuffices
    <2>2. v.completion \in Before(s, n, "completion")
      BY <1>1, <2>1 DEF Tracks
    <2>3. \E q \in Before(s, n, "attached") \union Before(s, n, "evidence") :
            q.bundle = v.completion.bundle
      BY <1>1, <2>1 DEF Tracks
    <2>4. v.completion.bundle \in attached
      BY <1>6, <2>3
    <2> QED
      BY <2>1, <2>2, <2>4
  <1>8. v.review \in {None, "pass"} /\ v.audit \in {None, "pass"}
    BY <1>5 DEF ReviewAuditPasses, ReviewPasses
  <1>9. reviews \subseteq {"pass"}
    <2>1. ASSUME NEW q \in Before(s, n, "review")
          PROVE  q.verdict = "pass"
      <3>1. q.verdict \in Verdicts
        BY <1>1, BeforeTyped, PayloadFields
      <3>2. v.review = q.verdict
        BY <1>1 DEF Tracks
      <3> QED
        BY <1>8, <3>1, <3>2, ReplayAssumption DEF ReplayAssumption
    <2> QED
      BY <1>6, <2>1
  <1>10. audits \subseteq {"pass"}
    <2>1. ASSUME NEW q \in Before(s, n, "audit")
          PROVE  q.verdict = "pass"
      <3>1. q.verdict \in Verdicts
        BY <1>1, BeforeTyped, PayloadFields
      <3>2. v.audit = q.verdict
        BY <1>1 DEF Tracks
      <3> QED
        BY <1>8, <3>1, <3>2, ReplayAssumption DEF ReplayAssumption
    <2> QED
      BY <1>6, <2>1
  <1>11. asked \subseteq Gates(v)
    <2>1. ASSUME NEW q \in Before(s, n, "requirements")
          PROVE  q.gates \subseteq Gates(v)
      <3>1. q.gates \in SUBSET {"reviewer", "auditor"}
        BY <1>1, BeforeTyped, PayloadFields
      <3>2. v.gates = q.gates /\ q.gates # None
        BY <1>1, <3>1, ReplayAssumption DEF Tracks, ReplayAssumption
      <3> QED
        BY <3>2 DEF Gates
    <2> QED
      BY <1>6, <2>1
  <1>12. ASSUME GoalReview \/ "reviewer" \in asked
         PROVE  reviews # {}
    <2>1. ReviewRequired(v)
      BY <1>11, <1>12 DEF ReviewRequired
    <2>2. v.review # None
      BY <1>5, <2>1 DEF ReviewAuditPasses, ReviewPasses
    <2>3. Before(s, n, "review") # {}
      BY <1>1, <2>2 DEF Tracks
    <2> QED
      BY <1>6, <2>3
  <1>13. ASSUME GoalAudit \/ "auditor" \in asked
         PROVE  audits # {} /\ p.from = "auditing"
    <2>1. AuditRequired(v)
      BY <1>11, <1>13 DEF AuditRequired
    <2>2. v.audit # None
      BY <1>5, <2>1 DEF ReviewAuditPasses
    <2>3. Before(s, n, "audit") # {}
      BY <1>1, <2>2 DEF Tracks
    <2>4. CompletionGate(v) = "auditing"
      BY <2>1 DEF CompletionGate
    <2> QED
      BY <1>5, <1>6, <2>3, <2>4
  <1> HIDE DEF Completes
  <1> QED
    BY <1>2, <1>6, <1>7, <1>9, <1>10, <1>12, <1>13 DEF EarnedAt

LEMMA TracksNext ==
    ASSUME NEW s \in Seq(Event), NEW n \in 1..Len(s), NEW v \in View,
           Tracks(s, n - 1, v), Accepts(v, s[n])
    PROVE  Tracks(s, n, After(v, s[n].payload))
  <1>1. n \in Nat /\ n # 0 /\ n - 1 + 1 = n /\ n \in 1..(Len(s) + 1) /\ s[n] \in Event
    BY LenProperties, ElementOfSeq
  <1>2. PICK p, w : p = s[n].payload /\ w = After(v, p)
    OBVIOUS
  <1>3. p \in Payload
    BY <1>1, <1>2 DEF Event
  <1>4. \A type : Before(s, n + 1, type) =
                    Before(s, n, type) \union (IF p.type = type THEN {p} ELSE {})
    BY <1>1, <1>2, BeforeNext
  <1>5. \A q \in Before(s, n + 1, "requirements") : w.gates = q.gates
    <2>1. w.gates = IF p.type = "requirements" THEN p.gates ELSE v.gates
      BY <1>2, AfterFields
    <2>2. \A q \in Before(s, n, "requirements") : v.gates = q.gates /\ q.gates # None
      <3>1. ASSUME NEW q \in Before(s, n, "requirements")
            PROVE  v.gates = q.gates /\ q.gates # None
        <4>1. q.gates \in SUBSET {"reviewer", "auditor"}
          BY <1>1, BeforeTyped, PayloadFields
        <4> QED
          BY <1>1, <4>1, ReplayAssumption DEF Tracks, ReplayAssumption
      <3> QED
        BY <3>1
    <2>3. p.type = "requirements" => v.gates = None
      BY <1>2 DEF Accepts
    <2> QED
      BY <1>4, <2>1, <2>2, <2>3
  <1>6. /\ \A q \in Before(s, n + 1, "review") : w.review = q.verdict
        /\ w.review # None => Before(s, n + 1, "review") # {}
    <2>1. w.review = IF p.type = "review" THEN p.verdict ELSE v.review
      BY <1>2, AfterFields
    <2>2. \A q \in Before(s, n, "review") : v.review = q.verdict /\ q.verdict # None
      <3>1. ASSUME NEW q \in Before(s, n, "review")
            PROVE  v.review = q.verdict /\ q.verdict # None
        <4>1. q.verdict \in Verdicts
          BY <1>1, BeforeTyped, PayloadFields
        <4> QED
          BY <1>1, <4>1, ReplayAssumption DEF Tracks, ReplayAssumption
      <3> QED
        BY <3>1
    <2>3. p.type = "review" => v.review = None
      BY <1>2 DEF Accepts
    <2>4. v.review # None => Before(s, n, "review") # {}
      BY <1>1 DEF Tracks
    <2> QED
      BY <1>4, <2>1, <2>2, <2>3, <2>4
  <1>7. /\ \A q \in Before(s, n + 1, "audit") : w.audit = q.verdict
        /\ w.audit # None => Before(s, n + 1, "audit") # {}
    <2>1. w.audit = IF p.type = "audit" THEN p.verdict ELSE v.audit
      BY <1>2, AfterFields
    <2>2. \A q \in Before(s, n, "audit") : v.audit = q.verdict /\ q.verdict # None
      <3>1. ASSUME NEW q \in Before(s, n, "audit")
            PROVE  v.audit = q.verdict /\ q.verdict # None
        <4>1. q.verdict \in Verdicts
          BY <1>1, BeforeTyped, PayloadFields
        <4> QED
          BY <1>1, <4>1, ReplayAssumption DEF Tracks, ReplayAssumption
      <3> QED
        BY <3>1
    <2>3. p.type = "audit" => v.audit = None
      BY <1>2 DEF Accepts
    <2>4. v.audit # None => Before(s, n, "audit") # {}
      BY <1>1 DEF Tracks
    <2> QED
      BY <1>4, <2>1, <2>2, <2>3, <2>4
  <1>8. w.completion # None => w.completion \in Before(s, n + 1, "completion")
    <2>1. w.completion = IF p.type = "completion" THEN p ELSE v.completion
      BY <1>2, AfterFields
    <2>2. v.completion # None => v.completion \in Before(s, n, "completion")
      BY <1>1 DEF Tracks
    <2> QED
      BY <1>4, <2>1, <2>2
  <1>9. ASSUME NEW b \in w.evidence
        PROVE  \E q \in Before(s, n + 1, "attached") \union Before(s, n + 1, "evidence") :
                 q.bundle = b
    <2>1. w.evidence = IF p.type \in {"attached", "evidence"} THEN v.evidence \union {p.bundle}
                       ELSE v.evidence
      BY <1>2, AfterFields
    <2>2. CASE b \in v.evidence
      <3>1. PICK q \in Before(s, n, "attached") \union Before(s, n, "evidence") : q.bundle = b
        BY <1>1, <2>2 DEF Tracks
      <3> QED
        BY <1>4, <3>1
    <2>3. CASE b \notin v.evidence
      <3>1. p.type \in {"attached", "evidence"} /\ p.bundle = b
        BY <1>9, <2>1, <2>3
      <3>2. p \in Before(s, n + 1, "attached") \union Before(s, n + 1, "evidence")
        BY <1>4, <3>1
      <3> QED
        BY <3>1, <3>2
    <2> QED
      BY <2>2, <2>3
  <1>10. w.status = "completed" => \E i \in 1..n : EarnedAt(s, i)
    <2>1. w.status = IF p.type = "status" THEN p.to ELSE v.status
      BY <1>2, AfterFields
    <2>2. v.status = "completed" => \E i \in 1..n : EarnedAt(s, i)
      <3>1. 1..(n - 1) \subseteq 1..n
        BY <1>1
      <3> QED
        BY <3>1 DEF Tracks
    <2>3. Completes(s[n]) => EarnedAt(s, n)
      BY CompletionEarned
    <2>4. n \in 1..n
      BY <1>1
    <2> QED
      BY <1>2, <2>1, <2>2, <2>3, <2>4 DEF Completes
  <1>11. Tracks(s, n, w)
    BY <1>5, <1>6, <1>7, <1>8, <1>9, <1>10 DEF Tracks
  <1> QED
    BY <1>2, <1>11

LEMMA NewTracks ==
    ASSUME NEW s
    PROVE  Tracks(s, 0, NewView)
  <1>1. 0 + 1 = 1
    OBVIOUS
  <1> QED
    BY <1>1, BeforeFirst DEF Tracks, NewView

\* Whatever events a stream has, if it replays to a completed run, the run
\* earned it.
LEMMA ReplayEarned ==
    ASSUME NEW s \in Seq(Event), StatusOf(s) = "completed"
    PROVE  \E i \in 1..Len(s) : EarnedAt(s, i)
  <1>1. PICK view : Views(view, s)
    BY ReplayGoes
  <1>2. PICK N : N = Len(s) /\ N \in Nat
    BY LenProperties
  <1>3. PICK S : S = {n \in 0..N : view[n] # None => Tracks(s, n, view[n])}
    OBVIOUS
  <1>4. 0 \in S
    <2>1. 0 \in 0..N
      BY <1>2
    <2>2. view[0] = NewView
      BY <1>1 DEF Views
    <2> QED
      BY <1>3, <2>1, <2>2, NewTracks
  <1>5. ASSUME NEW n \in 1..N, n - 1 \in S
        PROVE  n \in S
    <2>1. n \in 0..N /\ n - 1 \in 0..N /\ n \in 1..Len(s)
      BY <1>2
    <2>2. /\ view[n] = IF view[n - 1] = None \/ ~Accepts(view[n - 1], s[n]) THEN None
                       ELSE After(view[n - 1], s[n].payload)
          /\ view[n - 1] \in View \union {None}
      BY <1>1, <1>2, <2>1 DEF Views
    <2>3. ASSUME view[n] # None
          PROVE  Tracks(s, n, view[n])
      <3>1. /\ view[n - 1] \in View /\ Accepts(view[n - 1], s[n])
            /\ view[n] = After(view[n - 1], s[n].payload) /\ Tracks(s, n - 1, view[n - 1])
        BY <1>3, <1>5, <2>2, <2>3
      <3> QED
        BY <2>1, <3>1, TracksNext
    <2> QED
      BY <1>3, <2>1, <2>3
  <1>6. 0..N \subseteq S
    BY <1>2, <1>4, <1>5, UpTo
  <1>7. Replays(s) /\ Replay(s).status = "completed"
    BY DEF StatusOf
  <1>8. view[N] # None /\ view[N].status = "completed"
    BY <1>1, <1>2, <1>7 DEF Views, Replays
  <1>9. Tracks(s, N, view[N])
    <2>1. N \in 0..N
      BY <1>2
    <2> QED
      BY <1>3, <1>6, <1>8, <2>1
  <1> QED
    BY <1>2, <1>8, <1>9 DEF Tracks

-----------------------------------------------------------------------------
(* Types.                                                                  *)

LEMMA StreamTyped ==
    ASSUME TypeOK, NEW run
    PROVE  Stream(run) \in Seq(Event) /\ log \in Seq(Lines)
  <1>1. log \in Seq(Lines)
    BY DEF TypeOK, Lines
  <1> QED
    BY <1>1, EventsTyped DEF Stream

LEMMA IdTyped ==
    ASSUME NEW c \in Callers, NEW n \in 0..MaxStamps
    PROVE  <<c, n>> \in EventIds
  <1>1. <<c, n>> \in Callers \X (0..MaxStamps)
    OBVIOUS
  <1> QED
    BY <1>1, RuntimeAssumption DEF RuntimeAssumption

LEMMA RunOfTyped ==
    ASSUME NEW c \in Callers
    PROVE  RunOf[c] \in Runs
  BY RuntimeAssumption DEF RuntimeAssumption

LEMMA NextEventTyped ==
    ASSUME TypeOK, NEW run \in Runs, NEW id \in EventIds, NEW input,
           input.role \in Roles, input.payload \in Payload
    PROVE  /\ NextEvent(run, id, input) \in Event
           /\ NextEvent(run, id, input).id = id
           /\ NextEvent(run, id, input).run = run
  <1>1. PICK s, e : s = Stream(run) /\ e = NextEvent(run, id, input)
    OBVIOUS
  <1>2. s \in Seq(Event)
    BY <1>1, StreamTyped
  <1>3. Len(s) \in Nat
    BY <1>2
  <1>4. (IF s = <<>> THEN None ELSE Last(s).id) \in EventIds \union {None}
    <2>1. s # <<>> => Last(s) \in Event
      BY <1>2 DEF Last
    <2> QED
      BY <2>1 DEF Event
  <1>5. e = [id |-> id, run |-> run, sequence |-> Len(s),
             previous |-> IF s = <<>> THEN None ELSE Last(s).id,
             role |-> input.role, payload |-> input.payload]
    BY <1>1 DEF NextEvent
  <1>6. e \in Event /\ e.id = id /\ e.run = run
    BY <1>3, <1>4, <1>5 DEF Event
  <1> QED
    BY <1>1, <1>6

LEMMA GuardPayload == [type |-> "guard"] \in Payload /\ "coordinator" \in Roles
  BY DEF Payload, Roles

\* The events of a new run, one by one.
BootstrapEvents(run, c, stamp, es) ==
    /\ es \in [1..4 -> Event]
    /\ Bootstrap(run, c, stamp) = <<es[1], es[2], es[3], es[4]>>
    /\ \A n \in 1..4 :
          /\ es[n].id = <<c, stamp + n>> /\ es[n].run = run /\ es[n].sequence = n - 1
          /\ es[n].previous = IF n = 1 THEN None ELSE es[n - 1].id
          /\ es[n].role = "coordinator"
    /\ es[1].payload = [type |-> "created"]
    /\ es[2].payload = [type |-> "status", from |-> "draft", to |-> "accepted"]
    /\ es[3].payload = [type |-> "plan"]
    /\ es[4].payload = [type |-> "status", from |-> "accepted", to |-> "planned"]

LEMMA BootstrapPayloads ==
    /\ [type |-> "created"] \in Payload /\ [type |-> "plan"] \in Payload
    /\ [type |-> "status", from |-> "draft", to |-> "accepted"] \in Payload
    /\ [type |-> "status", from |-> "accepted", to |-> "planned"] \in Payload
    /\ "coordinator" \in Roles
  <1>1. "draft" \in Statuses /\ "accepted" \in Statuses /\ "planned" \in Statuses
    <2>1. /\ <<"draft", "accepted">> \in StatusTable /\ <<"accepted", "planned">> \in StatusTable
          /\ <<"planned", "running">> \in StatusTable
      BY DEF StatusTable
    <2>2. \A move \in StatusTable : move[1] \in Statuses
      BY DEF Statuses
    <2> HIDE DEF StatusTable
    <2>3. <<"draft", "accepted">>[1] \in Statuses /\ <<"accepted", "planned">>[1] \in Statuses
          /\ <<"planned", "running">>[1] \in Statuses
      BY <2>1, <2>2
    <2> QED
      BY <2>3
  <1>2. "coordinator" \in Roles
    BY DEF Roles
  <1>3. [type |-> "created"] \in Payload /\ [type |-> "plan"] \in Payload
    BY DEF Payload
  <1>4. /\ [type |-> "status", from |-> "draft", to |-> "accepted"] \in
              [type : {"status"}, from : Statuses, to : Statuses]
        /\ [type |-> "status", from |-> "accepted", to |-> "planned"] \in
              [type : {"status"}, from : Statuses, to : Statuses]
    BY <1>1
  <1>5. [type : {"status"}, from : Statuses, to : Statuses] \subseteq Payload
    BY DEF Payload
  <1> QED
    BY <1>2, <1>3, <1>4, <1>5

LEMMA BootstrapGoes ==
    ASSUME NEW run \in Runs, NEW c \in Callers, NEW stamp \in Nat, stamp + 4 <= MaxStamps
    PROVE  \E es : BootstrapEvents(run, c, stamp, es)
  <1> DEFINE id(n) == <<c, stamp + n>>
             event(n, payload) ==
               [id |-> id(n), run |-> run, sequence |-> n - 1,
                previous |-> IF n = 1 THEN None ELSE id(n - 1),
                role |-> "coordinator", payload |-> payload]
  <1>1. PICK p1, p2, p3, p4 :
            /\ p1 = [type |-> "created"]
            /\ p2 = [type |-> "status", from |-> "draft", to |-> "accepted"]
            /\ p3 = [type |-> "plan"]
            /\ p4 = [type |-> "status", from |-> "accepted", to |-> "planned"]
    OBVIOUS
  <1>2. p1 \in Payload /\ p2 \in Payload /\ p3 \in Payload /\ p4 \in Payload
        /\ "coordinator" \in Roles
    BY <1>1, BootstrapPayloads
  <1>3. \A n \in 1..4 : id(n) \in EventIds
    <2>1. ASSUME NEW n \in 1..4
          PROVE  stamp + n \in 0..MaxStamps
      BY RuntimeAssumption DEF RuntimeAssumption
    <2> QED
      BY <2>1, IdTyped
  <1>4. PICK es : es = [n \in 1..4 |-> event(n, IF n = 1 THEN p1 ELSE IF n = 2 THEN p2
                                                ELSE IF n = 3 THEN p3 ELSE p4)]
    OBVIOUS
  <1>5. es[1] = event(1, p1) /\ es[2] = event(2, p2) /\ es[3] = event(3, p3) /\ es[4] = event(4, p4)
    <2>1. 1 \in 1..4 /\ 2 \in 1..4 /\ 3 \in 1..4 /\ 4 \in 1..4
      OBVIOUS
    <2> HIDE DEF event
    <2> QED
      BY <1>4, <2>1
  <1>6. ASSUME NEW n \in 1..4, NEW p \in Payload
        PROVE  event(n, p) \in Event
    <2>1. n - 1 \in Nat
      OBVIOUS
    <2>2. (IF n = 1 THEN None ELSE id(n - 1)) \in EventIds \union {None}
      <3>1. n # 1 => n - 1 \in 1..4
        OBVIOUS
      <3> HIDE DEF id
      <3> QED
        BY <1>3, <3>1
    <2>3. id(n) \in EventIds
      BY <1>3
    <2> HIDE DEF id
    <2> QED
      BY <1>2, <2>1, <2>2, <2>3 DEF Event
  <1>7. es \in [1..4 -> Event]
    <2> HIDE DEF event
    <2> QED
      BY <1>2, <1>4, <1>6
  <1>8. Bootstrap(run, c, stamp) = <<es[1], es[2], es[3], es[4]>>
    BY <1>1, <1>5 DEF Bootstrap
  <1>9. \A n \in 1..4 : n = 1 \/ n = 2 \/ n = 3 \/ n = 4
    OBVIOUS
  <1>10. \A n \in 1..4 :
          /\ es[n].id = <<c, stamp + n>> /\ es[n].run = run /\ es[n].sequence = n - 1
          /\ es[n].role = "coordinator"
          /\ es[n].previous = IF n = 1 THEN None ELSE <<c, stamp + (n - 1)>>
    BY <1>4
  <1>11. \A n \in 1..4 : es[n].previous = IF n = 1 THEN None ELSE es[n - 1].id
    <2>1. \A n \in 1..4 : n # 1 => n - 1 \in 1..4
      OBVIOUS
    <2> QED
      BY <1>10, <2>1
  <1>12. /\ es[1].payload = p1 /\ es[2].payload = p2 /\ es[3].payload = p3 /\ es[4].payload = p4
    BY <1>5
  <1>13. BootstrapEvents(run, c, stamp, es)
    BY <1>1, <1>7, <1>8, <1>10, <1>11, <1>12 DEF BootstrapEvents
  <1> QED
    BY <1>13

LEMMA BootstrapTyped ==
    ASSUME NEW run \in Runs, NEW c \in Callers, NEW stamp \in Nat, stamp + 4 <= MaxStamps
    PROVE  /\ Bootstrap(run, c, stamp) \in Seq(Event)
           /\ Len(Bootstrap(run, c, stamp)) = 4
           /\ \A n \in 1..4 : /\ Bootstrap(run, c, stamp)[n].id = <<c, stamp + n>>
                              /\ Bootstrap(run, c, stamp)[n].run = run
  <1>1. PICK es : BootstrapEvents(run, c, stamp, es)
    BY BootstrapGoes
  <1>2. PICK b : b = Bootstrap(run, c, stamp)
    OBVIOUS
  <1>3. es[1] \in Event /\ es[2] \in Event /\ es[3] \in Event /\ es[4] \in Event
    <2>1. 1 \in 1..4 /\ 2 \in 1..4 /\ 3 \in 1..4 /\ 4 \in 1..4
      OBVIOUS
    <2> QED
      BY <1>1, <2>1 DEF BootstrapEvents
  <1>4. b = <<es[1], es[2], es[3], es[4]>>
    BY <1>1, <1>2 DEF BootstrapEvents
  <1>5. b \in Seq(Event) /\ Len(b) = 4
    BY <1>3, <1>4
  <1>6. \A n \in 1..4 : b[n] = es[n]
    BY <1>4
  <1>7. \A n \in 1..4 : b[n].id = <<c, stamp + n>> /\ b[n].run = run
    BY <1>1, <1>6 DEF BootstrapEvents
  <1> QED
    BY <1>2, <1>5, <1>7

LEMMA AppendedTyped ==
    ASSUME TypeOK, NEW line \in Lines
    PROVE  /\ Appended(line) \in Seq(Lines) /\ Appended(line) # <<>>
           /\ Len(Appended(line)) \in Nat
           /\ unended => /\ Len(Appended(line)) = Len(log) /\ Len(log) \in 1..Len(log)
                         /\ Appended(line)[Len(log)] = Malformed
                         /\ \A n \in 1..Len(log) : n # Len(log) => Appended(line)[n] = log[n]
           /\ ~unended => /\ Appended(line) = Append(log, line)
                          /\ Len(Appended(line)) = Len(log) + 1
                          /\ Appended(line)[Len(log) + 1] = line
                          /\ \A n \in 1..Len(log) : Appended(line)[n] = log[n]
  <1>1. log \in Seq(Lines) /\ Malformed \in Lines /\ (unended => log # <<>>)
    BY DEF TypeOK, Lines
  <1>2. CASE unended
    <2>1. PICK a : a = [log EXCEPT ![Len(log)] = Malformed]
      OBVIOUS
    <2>2. Len(log) \in 1..Len(log)
      BY <1>1, <1>2
    <2>3. a \in Seq(Lines) /\ Len(a) = Len(log) /\ \A n \in 1..Len(log) :
             a[n] = IF n = Len(log) THEN Malformed ELSE log[n]
      BY <1>1, <2>1, <2>2
    <2>4. a # <<>> /\ Len(a) \in Nat
      BY <1>1, <2>2, <2>3
    <2> QED
      BY <1>2, <2>1, <2>2, <2>3, <2>4 DEF Appended
  <1>3. CASE ~unended
    <2>1. PICK a : a = Append(log, line)
      OBVIOUS
    <2>2. /\ a \in Seq(Lines) /\ Len(a) = Len(log) + 1 /\ Len(log) \in Nat
          /\ a[Len(log) + 1] = line /\ \A n \in 1..Len(log) : a[n] = log[n]
      BY <1>1, <2>1
    <2>3. a # <<>>
      BY <2>2
    <2> QED
      BY <1>3, <2>1, <2>2, <2>3 DEF Appended
  <1> QED
    BY <1>2, <1>3

\* A caller's events are of its run and bear its stamps; there is one where a
\* guard is evaluated, and one at least where events are appended.
Fits(c, call) ==
    /\ call.pc \in {"evaluate", "record"} => Len(call.queue) = 1
    /\ call.pc = "append" => call.queue # <<>>
    /\ \A k \in 1..Len(call.queue) :
          call.queue[k].run = RunOf[c] /\ \E n \in 0..MaxStamps : call.queue[k].id = <<c, n>>

Queued == \A c \in Callers : Fits(c, calls[c])

LEMMA CallsSet ==
    ASSUME TypeOK, Queued, NEW c \in Callers, NEW call \in Call, Fits(c, call),
           calls' = [calls EXCEPT ![c] = call]
    PROVE  /\ calls' \in [Callers -> Call] /\ Queued'
           /\ calls'[c] = call /\ \A d \in Callers : d # c => calls'[d] = calls[d]
  <1>1. /\ calls' \in [Callers -> Call]
        /\ calls'[c] = call /\ \A d \in Callers : d # c => calls'[d] = calls[d]
    BY DEF TypeOK
  <1>2. Queued'
    BY <1>1 DEF Queued, Fits
  <1> QED
    BY <1>1, <1>2

LEMMA CallParts ==
    ASSUME TypeOK, NEW c \in Callers
    PROVE  /\ calls[c] \in Call
           /\ calls[c].pc \in {"idle", "evaluate", "record", "append", "reload"}
           /\ calls[c].queue \in Seq(Event) /\ calls[c].approval \in ApprovalIds \union {None}
           /\ calls[c].stamps \in 0..MaxStamps /\ calls[c].stamps \in Nat
  <1>1. calls[c] \in Call
    BY DEF TypeOK
  <1>2. \A n \in 0..MaxStamps : n \in Nat
    BY RuntimeAssumption DEF RuntimeAssumption
  <1> QED
    BY <1>1, <1>2 DEF Call

LEMMA IdleTyped ==
    ASSUME NEW c \in Callers, NEW stamps \in 0..MaxStamps, NEW reply \in {"none", "ok", "failed"}
    PROVE  Idle(stamps, reply) \in Call /\ Fits(c, Idle(stamps, reply))
           /\ Idle(stamps, reply).pc = "idle"
  <1>1. <<>> \in Seq(Event) /\ Len(<<>>) = 0 /\ 1..0 = {}
    OBVIOUS
  <1> QED
    BY <1>1 DEF Idle, Call, Fits

LEMMA EndsKeeps ==
    ASSUME TypeOK, Queued, NEW c \in Callers, NEW reply \in {"none", "ok", "failed"},
           Ends(c, reply)
    PROVE  /\ calls' \in [Callers -> Call] /\ Queued'
           /\ calls'[c].pc = "idle" /\ \A d \in Callers : d # c => calls'[d] = calls[d]
  <1>1. PICK call : call = Idle(calls[c].stamps, reply)
    OBVIOUS
  <1>2. call \in Call /\ Fits(c, call) /\ call.pc = "idle"
    <2>1. calls[c].stamps \in 0..MaxStamps
      BY CallParts
    <2> QED
      BY <1>1, <2>1, IdleTyped
  <1>3. calls' = [calls EXCEPT ![c] = call]
    BY <1>1 DEF Ends
  <1> QED
    BY <1>2, <1>3, CallsSet

\* What a call starts with.
Begun(pc, queue, approval, stamps) ==
    [pc |-> pc, queue |-> queue, approval |-> approval, stamps |-> stamps, reply |-> "none"]

LEMMA StartsKeeps ==
    ASSUME TypeOK, Queued, NEW c \in Callers,
           NEW pc \in {"evaluate", "append"}, NEW queue \in Seq(Event),
           NEW approval \in ApprovalIds \union {None}, NEW stamps \in Nat,
           Fits(c, Begun(pc, queue, approval, stamps)),
           Starts(c, pc, queue, approval, stamps)
    PROVE  /\ calls' \in [Callers -> Call] /\ Queued' /\ calls[c].pc = "idle"
           /\ calls'[c] = Begun(pc, queue, approval, stamps)
           /\ \A d \in Callers : d # c => calls'[d] = calls[d]
  <1>1. PICK call : call = Begun(pc, queue, approval, stamps)
    OBVIOUS
  <1>2. /\ calls[c].pc = "idle" /\ stamps <= MaxStamps /\ calls' = [calls EXCEPT ![c] = call]
    BY <1>1 DEF Starts, Begun
  <1>3. stamps \in 0..MaxStamps
    BY <1>2, RuntimeAssumption DEF RuntimeAssumption
  <1>4. call \in Call
    BY <1>1, <1>3 DEF Begun, Call
  <1> QED
    BY <1>1, <1>2, <1>4, CallsSet

LEMMA StampsTyped ==
    ASSUME TypeOK, NEW c \in Callers, NEW stamp \in Stamps(c)
    PROVE  stamp \in Nat
  <1>1. calls[c].stamps \in Nat
    BY CallParts
  <1>2. calls[c].stamps + 1 \in Nat
    BY <1>1
  <1> QED
    BY <1>1, <1>2 DEF Stamps

\* A call that starts with the event that comes next.
LEMMA OneEventStarts ==
    ASSUME TypeOK, Queued, NEW c \in Callers, NEW stamp \in Nat,
           NEW input, input.role \in Roles, input.payload \in Payload,
           NEW pc \in {"evaluate", "append"}, NEW approval \in ApprovalIds \union {None},
           Starts(c, pc, <<NextEvent(RunOf[c], <<c, stamp>>, input)>>, approval, stamp)
    PROVE  /\ calls' \in [Callers -> Call] /\ Queued' /\ calls[c].pc = "idle"
           /\ calls'[c] = Begun(pc, <<NextEvent(RunOf[c], <<c, stamp>>, input)>>, approval, stamp)
           /\ \A d \in Callers : d # c => calls'[d] = calls[d]
           /\ NextEvent(RunOf[c], <<c, stamp>>, input) \in Event
           /\ NextEvent(RunOf[c], <<c, stamp>>, input).run = RunOf[c]
           /\ NextEvent(RunOf[c], <<c, stamp>>, input).id = <<c, stamp>>
  <1>1. stamp \in 0..MaxStamps
    BY RuntimeAssumption DEF Starts, RuntimeAssumption
  <1>2. PICK e : e = NextEvent(RunOf[c], <<c, stamp>>, input)
    OBVIOUS
  <1>3. e \in Event /\ e.run = RunOf[c] /\ e.id = <<c, stamp>>
    BY <1>1, <1>2, IdTyped, RunOfTyped, NextEventTyped
  <1>4. <<e>> \in Seq(Event) /\ Len(<<e>>) = 1 /\ <<e>>[1] = e /\ <<e>> # <<>>
    BY <1>3
  <1>5. Fits(c, Begun(pc, <<e>>, approval, stamp))
    BY <1>1, <1>3, <1>4 DEF Fits, Begun
  <1> QED
    BY <1>2, <1>3, <1>4, <1>5, StartsKeeps

\* ... what it carries, and the calls of others.
LEMMA OneEventCall ==
    ASSUME TypeOK, Queued, NEW c \in Callers, NEW stamp \in Stamps(c),
           NEW input, input.role \in Roles, input.payload \in Payload,
           NEW pc \in {"evaluate", "append"}, NEW approval \in ApprovalIds \union {None},
           Starts(c, pc, <<NextEvent(RunOf[c], <<c, stamp>>, input)>>, approval, stamp)
    PROVE  /\ calls[c].pc = "idle" /\ calls'[c].pc = pc /\ calls'[c].approval = approval
           /\ calls'[c].queue = <<NextEvent(RunOf[c], <<c, stamp>>, input)>>
           /\ \A d \in Callers : d # c => calls'[d] = calls[d]
  <1>1. stamp \in Nat
    BY StampsTyped
  <1>2. PICK call : call = Begun(pc, <<NextEvent(RunOf[c], <<c, stamp>>, input)>>, approval, stamp)
    OBVIOUS
  <1>3. calls[c].pc = "idle" /\ calls'[c] = call /\ \A d \in Callers : d # c => calls'[d] = calls[d]
    BY <1>1, <1>2, OneEventStarts
  <1> QED
    BY <1>2, <1>3 DEF Begun

\* A call that starts with the events of a new run.
LEMMA BootstrapStarts ==
    ASSUME TypeOK, Queued, NEW c \in Callers, CreateRun(c)
    PROVE  /\ calls' \in [Callers -> Call] /\ Queued' /\ calls[c].pc = "idle"
           /\ calls'[c] = Begun("append", Bootstrap(RunOf[c], c, calls[c].stamps), None,
                                calls[c].stamps + 4)
           /\ \A d \in Callers : d # c => calls'[d] = calls[d]
           /\ calls[c].stamps \in Nat /\ calls[c].stamps + 4 <= MaxStamps
  <1>1. PICK b, stamp : stamp = calls[c].stamps /\ b = Bootstrap(RunOf[c], c, stamp)
    OBVIOUS
  <1>2. stamp \in Nat /\ stamp + 4 \in Nat
    <2>1. stamp \in Nat
      BY <1>1, CallParts
    <2> QED
      BY <2>1
  <1>3. Starts(c, "append", b, None, stamp + 4)
    BY <1>1 DEF CreateRun
  <1>4. stamp + 4 <= MaxStamps /\ \A k \in 1..4 : stamp + k \in 0..MaxStamps
    BY <1>2, <1>3, RuntimeAssumption DEF Starts, RuntimeAssumption
  <1>5. /\ b \in Seq(Event) /\ Len(b) = 4
        /\ \A k \in 1..4 : b[k].id = <<c, stamp + k>> /\ b[k].run = RunOf[c]
    <2>1. RunOf[c] \in Runs
      BY RunOfTyped
    <2>2. stamp + 4 <= MaxStamps
      BY <1>4
    <2>3. PICK run : run = RunOf[c]
      OBVIOUS
    <2>4. /\ Bootstrap(run, c, stamp) \in Seq(Event) /\ Len(Bootstrap(run, c, stamp)) = 4
          /\ \A n \in 1..4 : /\ Bootstrap(run, c, stamp)[n].id = <<c, stamp + n>>
                             /\ Bootstrap(run, c, stamp)[n].run = run
      BY <1>2, <2>1, <2>2, <2>3, BootstrapTyped
    <2> QED
      BY <1>1, <2>3, <2>4
  <1>6. b # <<>>
    <2>1. Len(b) = 4 /\ Len(<<>>) = 0
      BY <1>5
    <2> QED
      BY <2>1
  <1>7. Fits(c, Begun("append", b, None, stamp + 4))
    BY <1>4, <1>5, <1>6 DEF Fits, Begun
  <1>8. /\ calls' \in [Callers -> Call] /\ Queued' /\ calls[c].pc = "idle"
        /\ calls'[c] = Begun("append", b, None, stamp + 4)
        /\ \A d \in Callers : d # c => calls'[d] = calls[d]
    BY <1>2, <1>3, <1>5, <1>7, StartsKeeps
  <1> QED
    BY <1>1, <1>2, <1>4, <1>8

\* One event that is appended, and the call after it.
LEMMA AppendKeeps ==
    ASSUME TypeOK, Queued, NEW c \in Callers, AppendLine(c)
    PROVE  /\ Head(calls[c].queue) \in Event /\ calls[c].queue # <<>>
           /\ Head(calls[c].queue) = calls[c].queue[1]
           /\ calls' \in [Callers -> Call] /\ Queued' /\ calls'[c].queue = Tail(calls[c].queue)
           /\ calls'[c].pc = IF Len(calls[c].queue) = 1 THEN "reload" ELSE "append"
           /\ calls'[c].approval = calls[c].approval
           /\ \A d \in Callers : d # c => calls'[d] = calls[d]
  <1>1. PICK old, q : old = calls[c] /\ q = old.queue
    OBVIOUS
  <1>2. old \in Call /\ q \in Seq(Event) /\ q # <<>> /\ Fits(c, old)
    BY <1>1, CallParts DEF Queued, Fits, AppendLine
  <1>3. /\ Len(q) \in Nat /\ Len(q) # 0 /\ Head(q) \in Event /\ Tail(q) \in Seq(Event)
        /\ Len(Tail(q)) = Len(q) - 1 /\ Head(q) = q[1]
        /\ \A k \in 1..Len(Tail(q)) : Tail(q)[k] = q[k + 1] /\ k + 1 \in 1..Len(q)
    BY <1>2
  <1>4. Len(q) = 1 => Tail(q) = <<>>
    BY <1>3
  <1>5. Len(q) # 1 => Tail(q) # <<>>
    <2>1. Len(<<>>) = 0
      OBVIOUS
    <2> QED
      BY <1>3, <2>1
  <1>6. PICK new : new = [old EXCEPT !.pc = IF Len(q) = 1 THEN "reload" ELSE "append",
                                     !.queue = Tail(q)]
    OBVIOUS
  <1>7. /\ new \in Call /\ new.queue = Tail(q) /\ new.approval = old.approval
        /\ new.pc = IF Len(q) = 1 THEN "reload" ELSE "append"
    BY <1>2, <1>3, <1>6 DEF Call
  <1>8. Fits(c, new)
    BY <1>1, <1>2, <1>3, <1>4, <1>5, <1>7, SMTT(60) DEF Fits
  <1>9. old.pc = "append"
    BY <1>1 DEF AppendLine
  <1>10. calls' = [calls EXCEPT ![c] = new]
    <2>1. CASE Len(q) = 1
      <3>1. new = [old EXCEPT !.pc = "reload", !.queue = <<>>]
        BY <1>4, <1>6, <2>1
      <3>2. calls' = [calls EXCEPT ![c].pc = "reload", ![c].queue = <<>>]
        BY <1>1, <2>1 DEF AppendLine
      <3> QED
        BY <1>1, <3>1, <3>2
    <2>2. CASE Len(q) # 1
      <3>1. new = [old EXCEPT !.queue = Tail(q)]
        BY <1>2, <1>6, <1>9, <2>2 DEF Call
      <3>2. calls' = [calls EXCEPT ![c].queue = Tail(@)]
        BY <1>1, <2>2 DEF AppendLine
      <3> QED
        BY <1>1, <3>1, <3>2
    <2> QED
      BY <2>1, <2>2
  <1>11. /\ calls' \in [Callers -> Call] /\ Queued'
         /\ calls'[c] = new /\ \A d \in Callers : d # c => calls'[d] = calls[d]
    BY <1>7, <1>8, <1>10, CallsSet
  <1> QED
    BY <1>1, <1>2, <1>3, <1>7, <1>11

\* The event that a caller's guard evaluation goes on with.
LEMMA GoesOnKeeps ==
    ASSUME TypeOK, Queued, NEW c \in Callers,
           NEW to \in {"record", "append"},
           calls[c].pc \in {"evaluate", "record"}, calls' = [calls EXCEPT ![c].pc = to]
    PROVE  /\ calls' \in [Callers -> Call] /\ Queued' /\ calls'[c].queue = calls[c].queue
           /\ calls'[c].pc = to /\ calls'[c].approval = calls[c].approval
           /\ Len(calls[c].queue) = 1
           /\ \A d \in Callers : d # c => calls'[d] = calls[d]
  <1>1. PICK old, new : old = calls[c] /\ new = [old EXCEPT !.pc = to]
    OBVIOUS
  <1>2. old \in Call /\ Fits(c, old) /\ old.pc \in {"evaluate", "record"} /\ to \in {"record", "append"}
    BY <1>1, CallParts DEF Queued
  <1>3. /\ new \in Call /\ new.queue = old.queue /\ new.pc = to /\ new.approval = old.approval
    BY <1>1, <1>2 DEF Call
  <1>4. Len(old.queue) = 1 /\ old.queue # <<>>
    <2>1. Len(<<>>) = 0 /\ Len(old.queue) = 1
      BY <1>2 DEF Fits
    <2> QED
      BY <2>1
  <1>5. Fits(c, new)
    BY <1>2, <1>3, <1>4 DEF Fits
  <1>6. calls' = [calls EXCEPT ![c] = new]
    BY <1>1
  <1>7. /\ calls' \in [Callers -> Call] /\ Queued'
        /\ calls'[c] = new /\ \A d \in Callers : d # c => calls'[d] = calls[d]
    BY <1>3, <1>5, <1>6, CallsSet
  <1> QED
    BY <1>1, <1>3, <1>4, <1>7

\* The steps that leave the file alone, and the rest of what they leave well typed.
LEMMA CallsOnly ==
    ASSUME TypeOK, calls' \in [Callers -> Call], UNCHANGED <<log, unended, named, bank, lease>>,
           status' \in [ApprovalIds -> {"absent", "pending", "approved", "denied"}]
    PROVE  TypeOK'
  BY DEF TypeOK

LEMMA InputTyped ==
    ASSUME NEW input \in Inputs
    PROVE  input.role \in Roles /\ input.payload \in Payload
  BY RuntimeAssumption DEF RuntimeAssumption

LEMMA StepTyped ==
    ASSUME TypeOK, Queued, [Next]_vars
    PROVE  TypeOK' /\ Queued'
  <1>1. status \in [ApprovalIds -> {"absent", "pending", "approved", "denied"}]
    BY DEF TypeOK
  <1>2. ASSUME NEW c \in Callers, CreateRun(c)
        PROVE  TypeOK' /\ Queued'
    BY <1>1, <1>2, BootstrapStarts, CallsOnly DEF CreateRun
  <1>3. ASSUME NEW c \in Callers, NEW stamp \in Stamps(c), NEW input \in Inputs,
               AppendEvent(c, stamp, input)
        PROVE  TypeOK' /\ Queued'
    <2>1. Starts(c, "append", <<NextEvent(RunOf[c], <<c, stamp>>, input)>>, None, stamp)
      BY <1>3 DEF AppendEvent
    <2>2. calls' \in [Callers -> Call] /\ Queued'
      BY <2>1, StampsTyped, InputTyped, OneEventStarts
    <2>3. UNCHANGED <<log, unended, status, named, bank, lease>>
      BY <1>3 DEF AppendEvent
    <2> QED
      BY <1>1, <2>2, <2>3, CallsOnly
  <1>4. ASSUME NEW c \in Callers, NEW stamp \in Stamps(c), NEW input \in Inputs,
               AppendVerifiedCompletion(c, stamp, input)
        PROVE  TypeOK' /\ Queued'
    <2>1. Starts(c, "append", <<NextEvent(RunOf[c], <<c, stamp>>, input)>>, None, stamp)
      BY <1>4 DEF AppendVerifiedCompletion
    <2>2. calls' \in [Callers -> Call] /\ Queued'
      BY <2>1, StampsTyped, InputTyped, OneEventStarts
    <2>3. UNCHANGED <<log, unended, status, named, bank>> /\ lease' = c
      BY <1>4 DEF AppendVerifiedCompletion
    <2> QED
      BY <2>2, <2>3 DEF TypeOK
  <1>5. ASSUME NEW c \in Callers, NEW stamp \in Stamps(c), NEW id \in Asks, StartGuard(c, stamp, id)
        PROVE  TypeOK' /\ Queued'
    <2>1. PICK input : input = [role |-> "coordinator", payload |-> [type |-> "guard"]]
      OBVIOUS
    <2>2. input.role \in Roles /\ input.payload \in Payload
      BY <2>1, GuardPayload
    <2>3. Starts(c, "evaluate", <<NextEvent(RunOf[c], <<c, stamp>>, input)>>, id, stamp)
      BY <1>5, <2>1 DEF StartGuard
    <2>4. id \in ApprovalIds \union {None}
      BY DEF ApprovalIds
    <2>5. calls' \in [Callers -> Call] /\ Queued'
      BY <2>2, <2>3, <2>4, StampsTyped, OneEventStarts
    <2>6. UNCHANGED <<log, unended, status, named, bank, lease>>
      BY <1>5 DEF StartGuard
    <2> QED
      BY <1>1, <2>5, <2>6, CallsOnly
  <1>6. ASSUME NEW c \in Callers, EvaluateGuard(c)
        PROVE  TypeOK' /\ Queued'
    <2>1. status' \in [ApprovalIds -> {"absent", "pending", "approved", "denied"}]
      BY <1>1, <1>6 DEF EvaluateGuard, Approvals!RequestApproval, Approvals!Becomes
    <2>2. calls' \in [Callers -> Call] /\ Queued'
      <3>1. CASE Ends(c, "failed")
        BY <3>1, EndsKeeps
      <3>2. CASE calls' = [calls EXCEPT ![c].pc = "record"]
        <4>1. calls[c].pc = "evaluate"
          BY <1>6 DEF EvaluateGuard
        <4> QED
          BY <3>2, <4>1, GoesOnKeeps
      <3> QED
        BY <1>6, <3>1, <3>2 DEF EvaluateGuard
    <2>3. UNCHANGED <<log, unended, named, bank, lease>>
      BY <1>6 DEF EvaluateGuard
    <2> QED
      BY <2>1, <2>2, <2>3, CallsOnly
  <1>7. ASSUME NEW c \in Callers, RecordGuard(c)
        PROVE  TypeOK' /\ Queued'
    <2>1. calls' \in [Callers -> Call] /\ Queued'
      <3>1. CASE Ends(c, "failed")
        BY <3>1, EndsKeeps
      <3>2. CASE calls' = [calls EXCEPT ![c].pc = "append"]
        <4>1. calls[c].pc = "record"
          BY <1>7 DEF RecordGuard
        <4> QED
          BY <3>2, <4>1, GoesOnKeeps
      <3> QED
        BY <1>7, <3>1, <3>2 DEF RecordGuard
    <2>2. UNCHANGED <<log, unended, status, named, bank, lease>>
      BY <1>7 DEF RecordGuard
    <2> QED
      BY <1>1, <2>1, <2>2, CallsOnly
  <1>8. ASSUME NEW c \in Callers, NowNamed(c) = named' \/ named' = named
        PROVE  named' \subseteq ApprovalIds
    <2>1. named \subseteq ApprovalIds /\ calls[c].approval \in ApprovalIds \union {None}
      BY CallParts DEF TypeOK
    <2> QED
      BY <1>8, <2>1 DEF NowNamed
  <1>9. ASSUME NEW c \in Callers, AppendLine(c)
        PROVE  TypeOK' /\ Queued'
    <2>1. PICK line : line = Head(calls[c].queue)
      OBVIOUS
    <2>2. line \in Lines /\ calls' \in [Callers -> Call] /\ Queued'
      BY <1>9, <2>1, AppendKeeps DEF Lines
    <2>3. log' = Appended(line) /\ unended' = FALSE /\ NowNamed(c) = named' /\ UNCHANGED <<status, bank>>
          /\ lease' \in {lease, None}
      BY <1>9, <2>1 DEF AppendLine, LeaseAfter
    <2>4. log' \in Seq(Lines) /\ log' # <<>>
      BY <2>2, <2>3, AppendedTyped
    <2>5. named' \subseteq ApprovalIds
      BY <1>8, <2>3
    <2> QED
      BY <2>2, <2>3, <2>4, <2>5 DEF TypeOK, Lines
  <1>10. ASSUME NEW c \in Callers, AppendFails(c)
         PROVE  TypeOK' /\ Queued'
    <2>1. calls' \in [Callers -> Call] /\ Queued'
      BY <1>10, EndsKeeps DEF AppendFails
    <2>2. calls[c].queue \in Seq(Event) /\ calls[c].queue # <<>>
      BY <1>10, CallParts DEF AppendFails, Queued, Fits
    <2>3. Head(calls[c].queue) \in Lines /\ Malformed \in Lines
      BY <2>2 DEF Lines
    <2>4. UNCHANGED <<status, bank>> /\ lease' \in {lease, None}
      BY <1>10 DEF AppendFails, LeaseAfter
    <2>5. named' \subseteq ApprovalIds
      BY <1>8, <1>10 DEF AppendFails
    <2>6. /\ log' \in Seq(Lines) /\ unended' \in BOOLEAN /\ (unended' => log' # <<>>)
      <3>1. CASE UNCHANGED <<log, unended, named>>
        BY <3>1 DEF TypeOK, Lines
      <3>2. CASE log' = Appended(Malformed) /\ unended' = TRUE
        BY <2>3, <3>2, AppendedTyped
      <3>3. CASE log' = Appended(Head(calls[c].queue)) /\ unended' \in BOOLEAN
        BY <2>3, <3>3, AppendedTyped
      <3> QED
        BY <1>10, <3>1, <3>2, <3>3 DEF AppendFails
    <2> QED
      BY <2>1, <2>4, <2>5, <2>6 DEF TypeOK, Lines
  <1>11. ASSUME NEW c \in Callers, Reload(c)
         PROVE  TypeOK' /\ Queued'
    <2>1. PICK reply \in {"none", "ok", "failed"} : Ends(c, reply)
      BY <1>11 DEF Reload
    <2>2. UNCHANGED <<log, unended, status, named, bank, lease>>
      BY <1>11 DEF Reload
    <2> QED
      BY <1>1, <2>1, <2>2, EndsKeeps, CallsOnly
  <1>12. ASSUME NEW c \in Callers, Crash(c)
         PROVE  TypeOK' /\ Queued'
    BY <1>1, <1>12, EndsKeeps, CallsOnly DEF Crash
  <1>13. ASSUME NEW id \in ApprovalIds, OwnerDecides(id)
         PROVE  TypeOK' /\ Queued'
    <2>1. status' \in [ApprovalIds -> {"absent", "pending", "approved", "denied"}]
      BY <1>1, <1>13 DEF OwnerDecides, Approvals!Decide, Approvals!Becomes
    <2>2. UNCHANGED <<log, unended, calls, named, bank, lease>>
      BY <1>13 DEF OwnerDecides
    <2> QED
      BY <2>1, <2>2 DEF TypeOK, Queued, Fits
  <1>14. ASSUME NEW run \in Runs, NEW bundle \in Published \union {None}, Project(run, bundle)
         PROVE  TypeOK' /\ Queued'
    <2>1. bundle \in Bundles \union {None}
      BY RuntimeAssumption DEF RuntimeAssumption
    <2> QED
      BY <1>14, <2>1 DEF Project, TypeOK, Queued, Fits
  <1>15. CASE UNCHANGED vars
    BY <1>15 DEF vars, TypeOK, Queued, Fits
  <1> QED
    BY <1>2, <1>3, <1>4, <1>5, <1>6, <1>7, <1>9, <1>10, <1>11, <1>12, <1>13, <1>14, <1>15 DEF Next

LEMMA StartTyped ==
    ASSUME Init
    PROVE  TypeOK /\ Queued
  <1>1. calls \in [Callers -> Call] /\ Queued
    <2>1. ASSUME NEW c \in Callers
          PROVE  calls[c] \in Call /\ Fits(c, calls[c])
      <3>1. (IF RunOf[c] = Planned /\ c = WriterOf(Planned) THEN 4 ELSE 0) \in 0..MaxStamps
        <4>1. RunOf[c] = Planned => 4 <= MaxStamps
          BY RunOfTyped, RuntimeAssumption DEF RuntimeAssumption
        <4>2. MaxStamps \in Nat
          BY RuntimeAssumption DEF RuntimeAssumption
        <4> QED
          BY <4>1, <4>2
      <3>2. calls[c] = Idle(IF RunOf[c] = Planned /\ c = WriterOf(Planned) THEN 4 ELSE 0, "none")
        BY DEF Init
      <3> QED
        BY <3>1, <3>2, IdleTyped
    <2>2. calls = [c \in Callers |-> calls[c]]
      BY DEF Init
    <2> QED
      BY <2>1, <2>2 DEF Queued
  <1>2. log \in Seq(Lines)
    <2>1. CASE Planned = None
      BY <2>1 DEF Init
    <2>2. CASE Planned # None
      <3>1. PICK c \in Callers : RunOf[c] = Planned
        BY <2>2, RuntimeAssumption DEF RuntimeAssumption
      <3>2. WriterOf(Planned) \in Callers /\ Planned \in Runs
        BY <3>1, RunOfTyped DEF WriterOf
      <3>3. 0 \in Nat /\ 0 + 4 <= MaxStamps
        BY <2>2, RuntimeAssumption DEF RuntimeAssumption
      <3>4. Bootstrap(Planned, WriterOf(Planned), 0) \in Seq(Event)
        BY <3>2, <3>3, BootstrapTyped
      <3>5. log = Bootstrap(Planned, WriterOf(Planned), 0)
        BY <2>2 DEF Init
      <3>6. \A s \in Seq(Event) : s \in Seq(Lines)
        BY DEF Lines
      <3> QED
        BY <3>4, <3>5, <3>6
    <2> QED
      BY <2>1, <2>2
  <1> QED
    BY <1>1, <1>2 DEF Init, TypeOK, Lines

\* The state is well typed: the lines, every call's queue of events and what a
\* call holds, the rows of the approvals, the bundles and the lease.
THEOREM TypeCorrect == Spec => []TypeOK
  <1>1. Init => TypeOK /\ Queued
    BY StartTyped
  <1>2. TypeOK /\ Queued /\ [Next]_vars => (TypeOK /\ Queued)'
    BY StepTyped
  <1> QED
    BY <1>1, <1>2, PTL DEF Spec

-----------------------------------------------------------------------------
(* The file.                                                               *)

\* A step leaves the file alone or appends to it, an event or a part of one.
LEMMA FileMoves ==
    ASSUME TypeOK, Queued, [Next]_vars
    PROVE  log' = log \/ \E line \in Lines : log' = Appended(line)
  <1>1. ASSUME NEW c \in Callers, AppendLine(c)
        PROVE  \E line \in Lines : log' = Appended(line)
    BY <1>1, AppendKeeps DEF AppendLine, Lines
  <1>2. ASSUME NEW c \in Callers, AppendFails(c)
        PROVE  log' = log \/ \E line \in Lines : log' = Appended(line)
    <2>1. calls[c].queue \in Seq(Event) /\ calls[c].queue # <<>>
      BY <1>2, CallParts DEF AppendFails, Queued, Fits
    <2>2. Head(calls[c].queue) \in Lines /\ Malformed \in Lines
      BY <2>1 DEF Lines
    <2> QED
      BY <1>2, <2>2 DEF AppendFails
  <1> QED
    BY <1>1, <1>2 DEF Next, vars, CreateRun, AppendEvent, AppendVerifiedCompletion, StartGuard,
       EvaluateGuard, RecordGuard, Reload, Crash, OwnerDecides, Project

\* A file that reads after an append read before it and grew by that event.
LEMMA ReadableGrows ==
    ASSUME TypeOK, NEW line \in Lines, log' = Appended(line), Readable'
    PROVE  Readable /\ line # Malformed /\ log' = Append(log, line)
  <1>1. PICK a : a = Appended(line)
    OBVIOUS
  <1>2. /\ log \in Seq(Lines) /\ a \in Seq(Lines) /\ Malformed \notin Range(a)
    BY <1>1, AppendedTyped DEF TypeOK, Readable, Lines
  <1>3. \A n \in 1..Len(a) : a[n] # Malformed
    <2>1. DOMAIN a = 1..Len(a)
      BY <1>2
    <2> QED
      BY <1>2, <2>1 DEF Range
  <1>4. ~unended
    BY <1>1, <1>3, AppendedTyped
  <1>5. /\ a = Append(log, line) /\ Len(a) = Len(log) + 1 /\ a[Len(log) + 1] = line
        /\ \A n \in 1..Len(log) : a[n] = log[n]
    BY <1>1, <1>4, AppendedTyped
  <1>6. Len(log) \in Nat /\ DOMAIN log = 1..Len(log)
    BY <1>2
  <1>7. line # Malformed
    BY <1>3, <1>5, <1>6
  <1>8. Malformed \notin Range(log)
    BY <1>3, <1>5, <1>6 DEF Range
  <1> QED
    BY <1>1, <1>5, <1>7, <1>8 DEF Readable

\* The streams after an append to a file that still reads.
LEMMA StreamsGrow ==
    ASSUME TypeOK, NEW line \in Lines, log' = Append(log, line), line # Malformed, NEW run
    PROVE  Stream(run)' = IF line.run = run THEN Append(Stream(run), line) ELSE Stream(run)
  <1>1. log \in Seq(Lines)
    BY DEF TypeOK, Lines
  <1>2. EventsOf(run, log') = IF IsOf(run, line) THEN Append(EventsOf(run, log), line)
                              ELSE EventsOf(run, log)
    BY <1>1, EventsAppend
  <1> QED
    BY <1>2 DEF Stream, IsOf

\* A reader of a file that reads never finds less of a run than it found before,
\* whatever was torn, lost or spoiled in between.
THEOREM NothingLostSilently == Spec => NothingIsLostSilently
  <1>1. Init => TypeOK /\ Queued
    BY StartTyped
  <1>2. TypeOK /\ Queued /\ [Next]_vars => (TypeOK /\ Queued)'
    BY StepTyped
  <1>3. TypeOK /\ Queued /\ [Next]_vars =>
          [Readable /\ Readable' => \A run \in Runs : IsPrefix(Stream(run), Stream(run)')]_vars
    <2> SUFFICES ASSUME TypeOK, Queued, [Next]_vars, Readable', NEW run \in Runs
                 PROVE  IsPrefix(Stream(run), Stream(run)')
      OBVIOUS
    <2>1. PICK s : s = Stream(run)
      OBVIOUS
    <2>2. s \in Seq(Event)
      BY <2>1, StreamTyped
    <2>3. Stream(run)' = s \/ \E line \in Lines : Stream(run)' = Append(s, line)
      <3>1. CASE log' = log
        BY <2>1, <3>1 DEF Stream
      <3>2. ASSUME NEW line \in Lines, log' = Appended(line)
            PROVE  Stream(run)' = s \/ Stream(run)' = Append(s, line)
        <4>1. line # Malformed /\ log' = Append(log, line)
          BY <3>2, ReadableGrows
        <4> QED
          BY <2>1, <4>1, StreamsGrow
      <3> QED
        BY <3>1, <3>2, FileMoves
    <2>4. IsPrefix(s, s)
      BY <2>2 DEF IsPrefix
    <2>5. ASSUME NEW line \in Lines
          PROVE  IsPrefix(s, Append(s, line))
      <3>1. s \in Seq(Lines)
        BY <2>2 DEF Lines
      <3>2. PICK t : t = Append(s, line)
        OBVIOUS
      <3>3. /\ t \in Seq(Lines) /\ Len(s) \in Nat /\ Len(t) = Len(s) + 1
            /\ \A n \in 1..Len(s) : t[n] = s[n]
        BY <3>1, <3>2
      <3>4. SubSeq(t, 1, Len(s)) = SubSeq(s, 1, Len(s))
        BY <3>1, <3>3
      <3> QED
        BY <3>2, <3>3, <3>4 DEF IsPrefix
    <2> QED
      BY <2>1, <2>3, <2>4, <2>5
  <1> QED
    BY <1>1, <1>2, <1>3, PTL DEF Spec, NothingIsLostSilently

-----------------------------------------------------------------------------
(* Approvals that were answered too early.                                 *)

\* An approval that its owner answered while no event named it stays unnamed,
\* whichever evaluations of the guard follow.
THEOREM StrandedForGood == Spec => StrandedStaysUnnamed
  <1>1. Init => TypeOK /\ Queued
    BY StartTyped
  <1>2. TypeOK /\ Queued /\ [Next]_vars => (TypeOK /\ Queued)'
    BY StepTyped
  <1>3. TypeOK /\ Queued /\ [Next]_vars =>
          [\A id \in ApprovalIds : Stranded(id) => Stranded(id)']_vars
    <2> SUFFICES ASSUME TypeOK, Queued, [Next]_vars, NEW id \in ApprovalIds, Stranded(id)
                 PROVE  Stranded(id)'
      OBVIOUS
    <2> DEFINE Carries(c) == calls[c].approval = id /\ calls[c].pc \in {"record", "append"}
    <2>1. /\ status[id] \in {"approved", "denied"} /\ id \notin named /\ id # None
          /\ \A c \in Callers : ~Carries(c)
      BY DEF Stranded, CarriedBy, ApprovalIds
    <2>2. SUFFICES /\ status'[id] = status[id] /\ id \notin named'
                   /\ \A c \in Callers : ~Carries(c)'
      BY <2>1 DEF Stranded, CarriedBy
    <2>3. ASSUME NEW c \in Callers, calls[c].pc = "idle", ~Carries(c)',
                 \A d \in Callers : d # c => calls'[d] = calls[d],
                 UNCHANGED <<status, named>>
          PROVE  /\ status'[id] = status[id] /\ id \notin named'
                 /\ \A d \in Callers : ~Carries(d)'
      BY <2>1, <2>3
    <2>4. ASSUME NEW c \in Callers, CreateRun(c)
          PROVE  /\ status'[id] = status[id] /\ id \notin named'
                 /\ \A d \in Callers : ~Carries(d)'
      <3>1. calls'[c].approval = None /\ calls[c].pc = "idle"
            /\ \A d \in Callers : d # c => calls'[d] = calls[d]
        <4>1. PICK call : call = Begun("append", Bootstrap(RunOf[c], c, calls[c].stamps), None,
                                       calls[c].stamps + 4)
          OBVIOUS
        <4>2. calls'[c] = call /\ calls[c].pc = "idle"
              /\ \A d \in Callers : d # c => calls'[d] = calls[d]
          BY <2>4, <4>1, BootstrapStarts
        <4> QED
          BY <4>1, <4>2 DEF Begun
      <3> QED
        BY <2>1, <2>3, <2>4, <3>1 DEF CreateRun
    <2>5. ASSUME NEW c \in Callers, NEW stamp \in Stamps(c), NEW input \in Inputs,
                 AppendEvent(c, stamp, input) \/ AppendVerifiedCompletion(c, stamp, input)
          PROVE  /\ status'[id] = status[id] /\ id \notin named'
                 /\ \A d \in Callers : ~Carries(d)'
      <3>1. Starts(c, "append", <<NextEvent(RunOf[c], <<c, stamp>>, input)>>, None, stamp)
        BY <2>5 DEF AppendEvent, AppendVerifiedCompletion
      <3>2. calls'[c].approval = None /\ calls[c].pc = "idle"
            /\ \A d \in Callers : d # c => calls'[d] = calls[d]
        <4>1. input.role \in Roles /\ input.payload \in Payload /\ None \in ApprovalIds \union {None}
          BY InputTyped
        <4> QED
          BY <3>1, <4>1, OneEventCall
      <3>3. UNCHANGED <<status, named>>
        BY <2>5 DEF AppendEvent, AppendVerifiedCompletion
      <3> QED
        BY <2>1, <2>3, <3>2, <3>3
    <2>6. ASSUME NEW c \in Callers, NEW stamp \in Stamps(c), NEW asked \in Asks,
                 StartGuard(c, stamp, asked)
          PROVE  /\ status'[id] = status[id] /\ id \notin named'
                 /\ \A d \in Callers : ~Carries(d)'
      <3>1. PICK input : input = [role |-> "coordinator", payload |-> [type |-> "guard"]]
        OBVIOUS
      <3>2. input.role \in Roles /\ input.payload \in Payload /\ asked \in ApprovalIds \union {None}
        BY <3>1, GuardPayload DEF ApprovalIds
      <3>3. Starts(c, "evaluate", <<NextEvent(RunOf[c], <<c, stamp>>, input)>>, asked, stamp)
        BY <2>6, <3>1 DEF StartGuard
      <3>4. calls'[c].pc = "evaluate" /\ calls[c].pc = "idle"
            /\ \A d \in Callers : d # c => calls'[d] = calls[d]
        BY <3>2, <3>3, OneEventCall
      <3>5. UNCHANGED <<status, named>>
        BY <2>6 DEF StartGuard
      <3> QED
        BY <2>3, <3>4, <3>5
    <2>7. ASSUME NEW c \in Callers, EvaluateGuard(c)
          PROVE  /\ status'[id] = status[id] /\ id \notin named'
                 /\ \A d \in Callers : ~Carries(d)'
      <3>1. status'[id] = status[id] /\ named' = named
        BY <2>1, <2>7 DEF EvaluateGuard, Approvals!RequestApproval, Approvals!Becomes, TypeOK
      <3>2. CASE Ends(c, "failed")
        BY <2>1, <3>1, <3>2, EndsKeeps
      <3>3. CASE ~Ends(c, "failed")
        <4>1. calls' = [calls EXCEPT ![c].pc = "record"] /\ calls[c].pc = "evaluate"
          BY <2>7, <3>3 DEF EvaluateGuard
        <4>2. calls[c].approval # id
          BY <2>1, <2>7, <3>3 DEF EvaluateGuard, StillPending
        <4>3. calls'[c].approval # id /\ \A d \in Callers : d # c => calls'[d] = calls[d]
          BY <4>1, <4>2, GoesOnKeeps
        <4> QED
          BY <2>1, <3>1, <4>3
      <3> QED
        BY <3>2, <3>3
    <2>8. ASSUME NEW c \in Callers, RecordGuard(c)
          PROVE  /\ status'[id] = status[id] /\ id \notin named'
                 /\ \A d \in Callers : ~Carries(d)'
      <3>1. UNCHANGED <<status, named>> /\ calls[c].pc = "record"
        BY <2>8 DEF RecordGuard
      <3>2. CASE Ends(c, "failed")
        BY <2>1, <3>1, <3>2, EndsKeeps
      <3>3. CASE calls' = [calls EXCEPT ![c].pc = "append"]
        <4>1. calls'[c].approval = calls[c].approval /\ \A d \in Callers : d # c => calls'[d] = calls[d]
          BY <3>1, <3>3, GoesOnKeeps
        <4> QED
          BY <2>1, <3>1, <4>1
      <3> QED
        BY <2>8, <3>2, <3>3 DEF RecordGuard
    <2>9. ASSUME NEW c \in Callers, AppendLine(c)
          PROVE  /\ status'[id] = status[id] /\ id \notin named'
                 /\ \A d \in Callers : ~Carries(d)'
      <3>1. calls[c].pc = "append" /\ UNCHANGED status /\ named' = NowNamed(c)
        BY <2>9 DEF AppendLine
      <3>2. calls[c].approval # id
        BY <2>1, <3>1
      <3>3. calls'[c].approval = calls[c].approval /\ \A d \in Callers : d # c => calls'[d] = calls[d]
        BY <2>9, AppendKeeps
      <3> QED
        BY <2>1, <3>1, <3>2, <3>3 DEF NowNamed
    <2>10. ASSUME NEW c \in Callers, AppendFails(c)
           PROVE  /\ status'[id] = status[id] /\ id \notin named'
                  /\ \A d \in Callers : ~Carries(d)'
      <3>1. calls[c].pc = "append" /\ UNCHANGED status /\ named' \in {named, NowNamed(c)}
        BY <2>10 DEF AppendFails
      <3>2. calls[c].approval # id
        BY <2>1, <3>1
      <3>3. calls'[c].pc = "idle" /\ \A d \in Callers : d # c => calls'[d] = calls[d]
        BY <2>10, EndsKeeps DEF AppendFails
      <3> QED
        BY <2>1, <3>1, <3>2, <3>3 DEF NowNamed
    <2>11. ASSUME NEW c \in Callers, Reload(c) \/ Crash(c)
           PROVE  /\ status'[id] = status[id] /\ id \notin named'
                  /\ \A d \in Callers : ~Carries(d)'
      <3>1. PICK reply \in {"none", "ok", "failed"} : Ends(c, reply)
        BY <2>11 DEF Reload, Crash
      <3>2. calls'[c].pc = "idle" /\ \A d \in Callers : d # c => calls'[d] = calls[d]
        BY <3>1, EndsKeeps
      <3> QED
        BY <2>1, <2>11, <3>2 DEF Reload, Crash
    <2>12. ASSUME NEW other \in ApprovalIds, OwnerDecides(other)
           PROVE  /\ status'[id] = status[id] /\ id \notin named'
                  /\ \A d \in Callers : ~Carries(d)'
      BY <2>1, <2>12 DEF OwnerDecides, Approvals!Decide, Approvals!Becomes, TypeOK
    <2>13. ASSUME NEW run \in Runs, NEW bundle \in Published \union {None}, Project(run, bundle)
           PROVE  /\ status'[id] = status[id] /\ id \notin named'
                  /\ \A d \in Callers : ~Carries(d)'
      BY <2>1, <2>13 DEF Project
    <2>14. CASE UNCHANGED vars
      BY <2>1, <2>14 DEF vars
    <2> HIDE DEF Carries
    <2> QED
      BY <2>2, <2>4, <2>5, <2>6, <2>7, <2>8, <2>9, <2>10, <2>11, <2>12, <2>13, <2>14 DEF Next
  <1> QED
    BY <1>1, <1>2, <1>3, PTL DEF Spec, StrandedStaysUnnamed

-----------------------------------------------------------------------------
(* No event is in the file twice.                                          *)

\* The lines after an append are those before it and the one appended.
LEMMA LinesAfter ==
    ASSUME TypeOK, NEW line \in Lines, NEW i \in 1..Len(Appended(line)),
           Appended(line)[i] # Malformed
    PROVE  \/ i \in 1..Len(log) /\ Appended(line)[i] = log[i]
           \/ i = Len(log) + 1 /\ Appended(line)[i] = line
  <1>1. Len(log) \in Nat
    BY DEF TypeOK
  <1> QED
    BY <1>1, AppendedTyped

\* A caller's stamps are on events of its run only.
Owned ==
    \A i \in 1..Len(log) : \A c \in Callers : \A n \in 0..MaxStamps :
        log[i] # Malformed /\ log[i].id = <<c, n>> => log[i].run = RunOf[c]

Unseen(event) == \A i \in 1..Len(log) : log[i] # Malformed => log[i].id # event.id

\* What a caller is about to append is not in the file.
Fresh(c, call) ==
    call.pc = "append" =>
        /\ \A k \in 1..Len(call.queue) : Unseen(call.queue[k])
        /\ \A j, k \in 1..Len(call.queue) : call.queue[j].id = call.queue[k].id => j = k

IdsInv ==
    /\ Owned
    /\ RetriesAreRecordedOnce
    /\ \A c \in Callers : Fresh(c, calls[c])

LEMMA ReplaysChained ==
    ASSUME NEW s \in Seq(Event), Replays(s)
    PROVE  Chained(s)
  <1>1. PICK view : Views(view, s)
    BY ReplayGoes
  <1> QED
    BY <1>1 DEF Views, Replays

\* A replay with an event that is in the file already refuses it.
LEMMA AdmissibleUnseen ==
    ASSUME TypeOK, Owned, NEW c \in Callers, NEW n \in 0..MaxStamps, NEW e \in Event,
           e.id = <<c, n>>, e.run = RunOf[c], Admissible(e)
    PROVE  Unseen(e)
  <1>1. PICK s, t : s = Stream(RunOf[c]) /\ t = Append(s, e)
    OBVIOUS
  <1>2. /\ s \in Seq(Event) /\ t \in Seq(Event) /\ Len(s) \in Nat /\ Len(t) = Len(s) + 1
        /\ t[Len(s) + 1] = e /\ \A j \in 1..Len(s) : t[j] = s[j]
    BY <1>1, StreamTyped
  <1>3. UniqueIds(t)
    BY <1>1, <1>2, ReplaysChained DEF Admissible, Chained
  <1>4. ASSUME NEW i \in 1..Len(log), log[i] # Malformed, log[i].id = e.id
        PROVE  FALSE
    <2>1. log[i].run = RunOf[c]
      BY <1>4 DEF Owned
    <2>2. IsOf(RunOf[c], log[i]) /\ log \in Seq(Lines)
      BY <1>4, <2>1, StreamTyped DEF IsOf
    <2>3. PICK j \in 1..Len(s) : s[j] = log[i]
      BY <1>1, <2>2, EventsComplete DEF Stream
    <2>4. j \in 1..Len(t) /\ Len(s) + 1 \in 1..Len(t) /\ j # Len(s) + 1
      BY <1>2
    <2>5. t[j].id = t[Len(s) + 1].id
      BY <1>2, <1>4, <2>3
    <2> QED
      BY <1>3, <2>4, <2>5 DEF UniqueIds
  <1> QED
    BY <1>4 DEF Unseen

\* The events of a new run are not in the file.
LEMMA BootstrapUnseen ==
    ASSUME TypeOK, Owned, NEW c \in Callers, Stream(RunOf[c]) = <<>>,
           NEW n \in 0..MaxStamps, NEW e, e.id = <<c, n>>
    PROVE  Unseen(e)
  <1>1. ASSUME NEW i \in 1..Len(log), log[i] # Malformed, log[i].id = e.id
        PROVE  FALSE
    <2>1. log[i].run = RunOf[c]
      BY <1>1 DEF Owned
    <2>2. IsOf(RunOf[c], log[i]) /\ log \in Seq(Lines)
      BY <1>1, <2>1, StreamTyped DEF IsOf
    <2>3. \E j \in 1..Len(<<>>) : <<>>[j] = log[i]
      BY <2>2, EventsComplete DEF Stream
    <2> QED
      BY <2>3
  <1> QED
    BY <1>1 DEF Unseen

\* The lines stay and a call that is about to append has new events.
LEMMA IdsKept ==
    ASSUME IdsInv, log' = log, NEW c \in Callers,
           \A d \in Callers : d # c => calls'[d] = calls[d],
           Fresh(c, calls'[c])
    PROVE  IdsInv'
  <1>1. Owned' /\ RetriesAreRecordedOnce'
    BY DEF IdsInv, Owned, RetriesAreRecordedOnce
  <1>2. \A d \in Callers : Fresh(d, calls'[d])
    BY DEF IdsInv
  <1>3. \A d \in Callers : Fresh(d, calls[d])'
    BY <1>2 DEF Fresh, Unseen
  <1> QED
    BY <1>1, <1>3 DEF IdsInv

\* A line is appended that is no event, or the first of a caller's queue.
LEMMA IdsAppend ==
    ASSUME TypeOK, Queued, IdsInv, NEW c \in Callers, calls[c].pc = "append",
           NEW line \in {Malformed, Head(calls[c].queue)}, log' = Appended(line),
           \A d \in Callers : d # c => calls'[d] = calls[d],
           \/ calls'[c].pc = "idle"
           \/ line = Head(calls[c].queue) /\ calls'[c].queue = Tail(calls[c].queue)
    PROVE  IdsInv'
  <1>1. PICK q, a : q = calls[c].queue /\ a = Appended(line)
    OBVIOUS
  <1>2. /\ q \in Seq(Event) /\ q # <<>> /\ Fits(c, calls[c])
    BY <1>1, CallParts DEF Queued, Fits
  <1>3. /\ Len(q) \in Nat /\ 1 \in 1..Len(q) /\ Head(q) = q[1] /\ q[1] \in Event
        /\ Tail(q) \in Seq(Event) /\ Len(Tail(q)) = Len(q) - 1
        /\ \A k \in 1..Len(Tail(q)) : Tail(q)[k] = q[k + 1] /\ k + 1 \in 1..Len(q)
    BY <1>2
  <1>4. line \in Lines
    BY <1>1, <1>3 DEF Lines
  <1>5. PICK n \in 0..MaxStamps : q[1].id = <<c, n>> /\ q[1].run = RunOf[c]
    BY <1>1, <1>2, <1>3 DEF Fits
  <1>6. \A i \in 1..Len(a) : a[i] # Malformed =>
            \/ i \in 1..Len(log) /\ a[i] = log[i]
            \/ i = Len(log) + 1 /\ a[i] = q[1]
    <2>1. ASSUME NEW i \in 1..Len(a), a[i] # Malformed
          PROVE  \/ i \in 1..Len(log) /\ a[i] = log[i]
                 \/ i = Len(log) + 1 /\ a[i] = q[1]
      <3>1. \/ i \in 1..Len(log) /\ a[i] = log[i]
            \/ i = Len(log) + 1 /\ a[i] = line
        BY <1>1, <1>4, <2>1, LinesAfter
      <3> QED
        BY <1>1, <1>3, <2>1, <3>1
    <2> QED
      BY <2>1
  <1>7. /\ \A k \in 1..Len(q) : Unseen(q[k])
        /\ \A j, k \in 1..Len(q) : q[j].id = q[k].id => j = k
    BY <1>1 DEF IdsInv, Fresh
  <1>8. Owned'
    <2>1. ASSUME NEW i \in 1..Len(a), NEW d \in Callers, NEW m \in 0..MaxStamps,
                 a[i] # Malformed, a[i].id = <<d, m>>
          PROVE  a[i].run = RunOf[d]
      <3>1. CASE i \in 1..Len(log) /\ a[i] = log[i]
        BY <2>1, <3>1 DEF IdsInv, Owned
      <3>2. CASE a[i] = q[1]
        BY <1>5, <2>1, <3>2
      <3> QED
        BY <1>6, <2>1, <3>1, <3>2
    <2> QED
      BY <1>1, <2>1 DEF Owned
  <1>9. RetriesAreRecordedOnce'
    <2>1. ASSUME NEW i \in 1..Len(a), NEW j \in 1..Len(a),
                 a[i] # Malformed, a[j] # Malformed, a[i].id = a[j].id
          PROVE  i = j
      <3>1. CASE i \in 1..Len(log) /\ a[i] = log[i] /\ j \in 1..Len(log) /\ a[j] = log[j]
        BY <2>1, <3>1 DEF IdsInv, RetriesAreRecordedOnce
      <3>2. CASE i \in 1..Len(log) /\ a[i] = log[i] /\ j = Len(log) + 1 /\ a[j] = q[1]
        BY <1>3, <1>7, <2>1, <3>2 DEF Unseen
      <3>3. CASE j \in 1..Len(log) /\ a[j] = log[j] /\ i = Len(log) + 1 /\ a[i] = q[1]
        BY <1>3, <1>7, <2>1, <3>3 DEF Unseen
      <3>4. CASE i = Len(log) + 1 /\ j = Len(log) + 1
        BY <3>4
      <3> QED
        BY <1>6, <2>1, <3>1, <3>2, <3>3, <3>4
    <2> QED
      BY <1>1, <2>1 DEF RetriesAreRecordedOnce
  <1>10. ASSUME NEW d \in Callers, NEW p, p = calls'[d], p.pc = "append"
         PROVE  /\ \A k \in 1..Len(p.queue) : \A i \in 1..Len(a) :
                      a[i] # Malformed => a[i].id # p.queue[k].id
                /\ \A j, k \in 1..Len(p.queue) : p.queue[j].id = p.queue[k].id => j = k
    <2>1. CASE d = c
      <3>1. p.queue = Tail(q)
        BY <1>1, <1>10, <2>1
      <3>2. ASSUME NEW k \in 1..Len(p.queue), NEW i \in 1..Len(a), a[i] # Malformed
            PROVE  a[i].id # p.queue[k].id
        <4>1. p.queue[k] = q[k + 1] /\ k + 1 \in 1..Len(q) /\ k + 1 # 1
          BY <1>3, <3>1
        <4>2. q[1].id # q[k + 1].id /\ Unseen(q[k + 1])
          BY <1>3, <1>7, <4>1
        <4> QED
          BY <1>6, <3>2, <4>1, <4>2 DEF Unseen
      <3>3. ASSUME NEW j \in 1..Len(p.queue), NEW k \in 1..Len(p.queue),
                   p.queue[j].id = p.queue[k].id
            PROVE  j = k
        <4>1. /\ p.queue[k] = q[k + 1] /\ k + 1 \in 1..Len(q)
              /\ p.queue[j] = q[j + 1] /\ j + 1 \in 1..Len(q)
          BY <1>3, <3>1
        <4>2. j + 1 = k + 1
          BY <1>7, <3>3, <4>1
        <4> QED
          BY <4>2
      <3> QED
        BY <3>2, <3>3
    <2>2. CASE d # c
      <3>1. p = calls[d] /\ Fits(d, p)
        BY <1>10, <2>2 DEF Queued
      <3>2. /\ \A k \in 1..Len(p.queue) : Unseen(p.queue[k])
            /\ \A j, k \in 1..Len(p.queue) : p.queue[j].id = p.queue[k].id => j = k
        BY <1>10, <3>1 DEF IdsInv, Fresh
      <3>3. ASSUME NEW k \in 1..Len(p.queue), NEW i \in 1..Len(a), a[i] # Malformed
            PROVE  a[i].id # p.queue[k].id
        <4>1. PICK m \in 0..MaxStamps : p.queue[k].id = <<d, m>>
          BY <3>1 DEF Fits
        <4>2. q[1].id # p.queue[k].id
          BY <1>5, <2>2, <4>1
        <4>3. Unseen(p.queue[k])
          BY <3>2
        <4> QED
          BY <1>6, <3>3, <4>2, <4>3 DEF Unseen
      <3> QED
        BY <3>2, <3>3
    <2> QED
      BY <2>1, <2>2
  <1>11. \A d \in Callers : Fresh(d, calls[d])'
    BY <1>1, <1>10 DEF Fresh, Unseen
  <1> QED
    BY <1>8, <1>9, <1>11 DEF IdsInv

LEMMA StepIds ==
    ASSUME TypeOK, Queued, IdsInv, [Next]_vars
    PROVE  IdsInv'
  <1>1. ASSUME NEW c \in Callers, NEW reply \in {"none", "ok", "failed"}, Ends(c, reply), log' = log
        PROVE  IdsInv'
    <2>1. calls'[c].pc = "idle" /\ \A d \in Callers : d # c => calls'[d] = calls[d]
      BY <1>1, EndsKeeps
    <2>2. Fresh(c, calls'[c])
      BY <2>1 DEF Fresh
    <2> QED
      BY <1>1, <2>1, <2>2, IdsKept
  <1>2. ASSUME NEW c \in Callers, CreateRun(c)
        PROVE  IdsInv'
    <2>1. PICK b, stamp, call :
              /\ stamp = calls[c].stamps /\ b = Bootstrap(RunOf[c], c, stamp)
              /\ call = Begun("append", b, None, stamp + 4)
      OBVIOUS
    <2>2. /\ calls'[c] = call /\ stamp \in Nat /\ stamp + 4 <= MaxStamps
          /\ \A d \in Callers : d # c => calls'[d] = calls[d]
      BY <1>2, <2>1, BootstrapStarts
    <2>3. call.queue = b
      BY <2>1 DEF Begun
    <2>4. Len(b) = 4 /\ \A k \in 1..4 : b[k].id = <<c, stamp + k>>
      <3>1. PICK run : run = RunOf[c] /\ run \in Runs
        BY RunOfTyped
      <3>2. /\ Len(Bootstrap(run, c, stamp)) = 4
            /\ \A n \in 1..4 : Bootstrap(run, c, stamp)[n].id = <<c, stamp + n>>
        BY <2>2, <3>1, BootstrapTyped
      <3> QED
        BY <2>1, <3>1, <3>2
    <2>5. ASSUME NEW k \in 1..4
          PROVE  Unseen(b[k])
      <3>1. stamp + k \in 0..MaxStamps
        BY <2>2, RuntimeAssumption DEF RuntimeAssumption
      <3> QED
        BY <1>2, <2>4, <3>1, BootstrapUnseen DEF CreateRun, IdsInv
    <2>6. \A j, k \in 1..4 : b[j].id = b[k].id => j = k
      <3>1. ASSUME NEW j \in 1..4, NEW k \in 1..4, b[j].id = b[k].id
            PROVE  j = k
        <4>1. <<c, stamp + j>> = <<c, stamp + k>>
          BY <2>4, <3>1
        <4>2. stamp + j = stamp + k
          BY <4>1
        <4> QED
          BY <2>2, <4>2
      <3> QED
        BY <3>1
    <2>7. Fresh(c, call)
      BY <2>3, <2>4, <2>5, <2>6 DEF Fresh
    <2> QED
      BY <1>2, <2>2, <2>7, IdsKept DEF CreateRun
  <1>3. ASSUME NEW c \in Callers, NEW stamp \in Stamps(c), NEW input \in Inputs,
               AppendEvent(c, stamp, input) \/ AppendVerifiedCompletion(c, stamp, input)
        PROVE  IdsInv'
    <2>1. PICK e : e = NextEvent(RunOf[c], <<c, stamp>>, input)
      OBVIOUS
    <2>2. Starts(c, "append", <<e>>, None, stamp) /\ Admissible(e) /\ log' = log
      BY <1>3, <2>1 DEF AppendEvent, AppendVerifiedCompletion
    <2>3. input.role \in Roles /\ input.payload \in Payload /\ None \in ApprovalIds \union {None}
      BY InputTyped
    <2>4. /\ calls'[c].queue = <<e>> /\ \A d \in Callers : d # c => calls'[d] = calls[d]
      BY <2>1, <2>2, <2>3, OneEventCall
    <2>5. stamp \in Nat
      BY StampsTyped
    <2>6. e \in Event /\ e.run = RunOf[c] /\ e.id = <<c, stamp>>
      BY <2>1, <2>2, <2>3, <2>5, OneEventStarts
    <2>7. stamp \in 0..MaxStamps
      BY <2>2, <2>5, RuntimeAssumption DEF Starts, RuntimeAssumption
    <2>8. Unseen(e)
      BY <2>2, <2>6, <2>7, AdmissibleUnseen DEF IdsInv
    <2>9. Fresh(c, calls'[c])
      BY <2>4, <2>8 DEF Fresh
    <2> QED
      BY <2>2, <2>4, <2>9, IdsKept
  <1>4. ASSUME NEW c \in Callers, NEW stamp \in Stamps(c), NEW id \in Asks, StartGuard(c, stamp, id)
        PROVE  IdsInv'
    <2>1. PICK input : input = [role |-> "coordinator", payload |-> [type |-> "guard"]]
      OBVIOUS
    <2>2. input.role \in Roles /\ input.payload \in Payload /\ id \in ApprovalIds \union {None}
      BY <2>1, GuardPayload DEF ApprovalIds
    <2>3. Starts(c, "evaluate", <<NextEvent(RunOf[c], <<c, stamp>>, input)>>, id, stamp) /\ log' = log
      BY <1>4, <2>1 DEF StartGuard
    <2>4. calls'[c].pc = "evaluate" /\ \A d \in Callers : d # c => calls'[d] = calls[d]
      BY <2>2, <2>3, OneEventCall
    <2>5. Fresh(c, calls'[c])
      BY <2>4 DEF Fresh
    <2> QED
      BY <2>3, <2>4, <2>5, IdsKept
  <1>5. ASSUME NEW c \in Callers, EvaluateGuard(c)
        PROVE  IdsInv'
    <2>1. log' = log /\ calls[c].pc = "evaluate"
      BY <1>5 DEF EvaluateGuard
    <2>2. CASE Ends(c, "failed")
      BY <1>1, <2>1, <2>2
    <2>3. CASE calls' = [calls EXCEPT ![c].pc = "record"]
      <3>1. calls'[c].pc = "record" /\ \A d \in Callers : d # c => calls'[d] = calls[d]
        BY <2>1, <2>3, GoesOnKeeps
      <3>2. Fresh(c, calls'[c])
        BY <3>1 DEF Fresh
      <3> QED
        BY <2>1, <3>1, <3>2, IdsKept
    <2> QED
      BY <1>5, <2>2, <2>3 DEF EvaluateGuard
  <1>6. ASSUME NEW c \in Callers, RecordGuard(c)
        PROVE  IdsInv'
    <2>1. log' = log /\ calls[c].pc = "record"
      BY <1>6 DEF RecordGuard
    <2>2. CASE Ends(c, "failed")
      BY <1>1, <2>1, <2>2
    <2>3. CASE ~Ends(c, "failed")
      <3>1. calls' = [calls EXCEPT ![c].pc = "append"] /\ Admissible(calls[c].queue[1])
        BY <1>6, <2>3 DEF RecordGuard
      <3>2. PICK q : q = calls[c].queue
        OBVIOUS
      <3>3. /\ calls'[c].queue = q /\ Len(q) = 1
            /\ \A d \in Callers : d # c => calls'[d] = calls[d]
        BY <2>1, <3>1, <3>2, GoesOnKeeps
      <3>4. q \in Seq(Event) /\ Fits(c, calls[c])
        BY <3>2, CallParts DEF Queued
      <3>5. 1 \in 1..Len(q) /\ q[1] \in Event
        BY <3>3, <3>4
      <3>6. PICK n \in 0..MaxStamps : q[1].run = RunOf[c] /\ q[1].id = <<c, n>>
        BY <3>2, <3>4, <3>5 DEF Fits
      <3>7. Unseen(q[1])
        BY <3>1, <3>2, <3>5, <3>6, AdmissibleUnseen DEF IdsInv
      <3>8. \A k \in 1..Len(q) : k = 1
        BY <3>3
      <3>9. Fresh(c, calls'[c])
        BY <3>3, <3>7, <3>8 DEF Fresh
      <3> QED
        BY <2>1, <3>3, <3>9, IdsKept
    <2> QED
      BY <2>2, <2>3
  <1>7. ASSUME NEW c \in Callers, AppendLine(c)
        PROVE  IdsInv'
    <2>1. PICK line : line = Head(calls[c].queue)
      OBVIOUS
    <2>2. /\ calls'[c].queue = Tail(calls[c].queue)
          /\ \A d \in Callers : d # c => calls'[d] = calls[d]
      BY <1>7, AppendKeeps
    <2>3. calls[c].pc = "append" /\ log' = Appended(line)
      BY <1>7, <2>1 DEF AppendLine
    <2>4. line \in {Malformed, Head(calls[c].queue)}
      BY <2>1
    <2> QED
      BY <2>1, <2>2, <2>3, <2>4, IdsAppend
  <1>8. ASSUME NEW c \in Callers, AppendFails(c)
        PROVE  IdsInv'
    <2>1. Ends(c, "failed") /\ calls[c].pc = "append"
      BY <1>8 DEF AppendFails
    <2>2. calls'[c].pc = "idle" /\ \A d \in Callers : d # c => calls'[d] = calls[d]
      BY <2>1, EndsKeeps
    <2>3. CASE log' = log
      BY <1>1, <2>1, <2>3
    <2>4. ASSUME NEW line \in {Malformed, Head(calls[c].queue)}, log' = Appended(line)
          PROVE  IdsInv'
      BY <2>1, <2>2, <2>4, IdsAppend
    <2> QED
      BY <1>8, <2>3, <2>4 DEF AppendFails
  <1>9. ASSUME NEW c \in Callers, Reload(c) \/ Crash(c)
        PROVE  IdsInv'
    <2>1. PICK reply \in {"none", "ok", "failed"} : Ends(c, reply)
      BY <1>9 DEF Reload, Crash
    <2>2. log' = log
      BY <1>9 DEF Reload, Crash
    <2> QED
      BY <1>1, <2>1, <2>2
  <1>10. ASSUME UNCHANGED <<log, calls>>
         PROVE  IdsInv'
    BY <1>10 DEF IdsInv, Owned, RetriesAreRecordedOnce, Fresh, Unseen
  <1>11. ASSUME NEW id \in ApprovalIds, OwnerDecides(id)
         PROVE  UNCHANGED <<log, calls>>
    BY <1>11 DEF OwnerDecides
  <1>12. ASSUME NEW run \in Runs, NEW bundle \in Published \union {None}, Project(run, bundle)
         PROVE  UNCHANGED <<log, calls>>
    BY <1>12 DEF Project
  <1>13. CASE UNCHANGED vars
    BY <1>10, <1>13 DEF vars
  <1> QED
    BY <1>2, <1>3, <1>4, <1>5, <1>6, <1>7, <1>8, <1>9, <1>10, <1>11, <1>12, <1>13 DEF Next

LEMMA StartIds ==
    ASSUME Init
    PROVE  IdsInv
  <1>1. \A c \in Callers : Fresh(c, calls[c])
    BY DEF Init, Idle, Fresh
  <1>2. CASE Planned = None
    <2>1. log = <<>> /\ 1..Len(log) = {}
      BY <1>2 DEF Init
    <2> QED
      BY <1>1, <2>1 DEF IdsInv, Owned, RetriesAreRecordedOnce
  <1>3. CASE Planned # None
    <2>1. PICK w : w = WriterOf(Planned)
      OBVIOUS
    <2>2. w \in Callers /\ RunOf[w] = Planned /\ Planned \in Runs /\ 0 + 4 <= MaxStamps /\ 0 \in Nat
      <3>1. \E c \in Callers : RunOf[c] = Planned
        BY <1>3, RuntimeAssumption DEF RuntimeAssumption
      <3>2. w \in Callers /\ RunOf[w] = Planned
        BY <2>1, <3>1 DEF WriterOf
      <3> QED
        BY <1>3, <3>2, RunOfTyped, RuntimeAssumption DEF RuntimeAssumption
    <2>3. log = Bootstrap(Planned, w, 0)
      BY <1>3, <2>1 DEF Init
    <2>4. /\ Len(log) = 4
          /\ \A n \in 1..4 : log[n].id = <<w, 0 + n>> /\ log[n].run = Planned
      BY <2>2, <2>3, BootstrapTyped
    <2>5. Owned
      BY <2>2, <2>4 DEF Owned
    <2>6. RetriesAreRecordedOnce
      <3>1. ASSUME NEW i \in 1..4, NEW j \in 1..4, log[i].id = log[j].id
            PROVE  i = j
        <4>1. <<w, 0 + i>> = <<w, 0 + j>>
          BY <2>4, <3>1
        <4>2. 0 + i = 0 + j
          BY <4>1
        <4> QED
          BY <4>2
      <3> QED
        BY <2>4, <3>1 DEF RetriesAreRecordedOnce
    <2> QED
      BY <1>1, <2>5, <2>6 DEF IdsInv
  <1> QED
    BY <1>2, <1>3

\* However often callers retry with a stamp whose first answer was lost, and
\* whoever else writes to their run, each event is in the file once.
THEOREM RecordedOnce == Spec => []RetriesAreRecordedOnce
  <1>1. Init => TypeOK /\ Queued /\ IdsInv
    BY StartTyped, StartIds
  <1>2. TypeOK /\ Queued /\ IdsInv /\ [Next]_vars => (TypeOK /\ Queued /\ IdsInv)'
    BY StepTyped, StepIds
  <1>3. IdsInv => RetriesAreRecordedOnce
    BY DEF IdsInv
  <1> QED
    BY <1>1, <1>2, <1>3, PTL DEF Spec

-----------------------------------------------------------------------------
(* What replays, and what a completed run has to show for it.              *)

\* A run that the file tells to be completed was completed with the evidence it
\* names attached, and with every review and audit asked for recorded as passed.
THEOREM CompletedIsEarned == Spec => []CompletionIsEarned
  <1>1. Init => TypeOK /\ Queued
    BY StartTyped
  <1>2. TypeOK /\ Queued /\ [Next]_vars => (TypeOK /\ Queued)'
    BY StepTyped
  <1>3. TypeOK => CompletionIsEarned
    <2> SUFFICES ASSUME TypeOK, NEW run \in Runs, StatusOf(Stream(run)) = "completed"
                 PROVE  \E i \in 1..Len(Stream(run)) : EarnedAt(Stream(run), i)
      BY DEF CompletionIsEarned
    <2>1. PICK s : s = Stream(run)
      OBVIOUS
    <2>2. s \in Seq(Event) /\ StatusOf(s) = "completed"
      BY <2>1, StreamTyped
    <2>3. \E i \in 1..Len(s) : EarnedAt(s, i)
      BY <2>2, ReplayEarned
    <2> QED
      BY <2>1, <2>3
  <1> QED
    BY <1>1, <1>2, <1>3, PTL DEF Spec

LEMMA StatusAndPlanAfter ==
    ASSUME NEW v \in View, NEW p, NEW w, w = After(v, p)
    PROVE  /\ w.status = IF p.type = "status" THEN p.to ELSE v.status
           /\ p.type # "plan" => w.plan = v.plan
  BY AfterFields

\* What a new run stands for after each of its first events.
LEMMA BootstrapReplays ==
    ASSUME NEW run \in Runs, NEW c \in Callers, NEW stamp \in Nat, stamp + 4 <= MaxStamps,
           NEW t \in Seq(Event), Len(t) \in 1..4,
           \A i \in 1..Len(t) : t[i] = Bootstrap(run, c, stamp)[i]
    PROVE  Replays(t)
  <1>1. PICK es : BootstrapEvents(run, c, stamp, es)
    BY BootstrapGoes
  <1>2. PICK N : N = Len(t) /\ N \in 1..4 /\ \A i \in 1..N : i \in 1..4
    <2>1. \A i \in 1..Len(t) : i \in 1..4
      OBVIOUS
    <2> QED
      BY <2>1
  <1>3. \A i \in 1..N : t[i] = es[i]
    <2>1. PICK b : b = Bootstrap(run, c, stamp) /\ \A i \in 1..N : t[i] = b[i]
      BY <1>2
    <2>2. b = <<es[1], es[2], es[3], es[4]>>
      BY <1>1, <2>1 DEF BootstrapEvents
    <2>3. \A i \in 1..4 : b[i] = es[i]
      BY <2>2
    <2> QED
      BY <1>2, <2>1, <2>3
  <1>4. Chained(t)
    <2>1. t # <<>>
      <3>1. Len(<<>>) = 0
        OBVIOUS
      <3> QED
        BY <1>2, <3>1
    <2>2. ASSUME NEW i \in 1..N
          PROVE  /\ t[i].sequence = i - 1
                 /\ t[i].previous = IF i = 1 THEN None ELSE t[i - 1].id
                 /\ t[i].payload.type = "created" <=> i = 1
      <3>1. i \in 1..4 /\ (i # 1 => i - 1 \in 1..N) /\ t[i] = es[i]
        BY <1>2, <1>3
      <3>2. i # 1 => t[i - 1] = es[i - 1]
        BY <1>3, <3>1
      <3>3. es[i].payload.type = "created" <=> i = 1
        <4>1. i = 1 \/ i = 2 \/ i = 3 \/ i = 4
          BY <3>1
        <4>2. /\ es[1].payload.type = "created" /\ es[2].payload.type = "status"
              /\ es[3].payload.type = "plan" /\ es[4].payload.type = "status"
          BY <1>1 DEF BootstrapEvents
        <4> QED
          BY <4>1, <4>2
      <3> QED
        BY <1>1, <3>1, <3>2, <3>3 DEF BootstrapEvents
    <2>3. UniqueIds(t)
      <3>1. ASSUME NEW i \in 1..N, NEW j \in 1..N, t[i].id = t[j].id
            PROVE  i = j
        <4>1. i \in 1..4 /\ j \in 1..4 /\ t[i] = es[i] /\ t[j] = es[j]
          BY <1>2, <1>3
        <4>2. <<c, stamp + i>> = <<c, stamp + j>>
          BY <1>1, <3>1, <4>1 DEF BootstrapEvents
        <4>3. stamp + i = stamp + j
          BY <4>2
        <4> QED
          BY <4>1, <4>3
      <3> QED
        BY <1>2, <3>1 DEF UniqueIds
    <2> QED
      BY <1>2, <2>1, <2>2, <2>3 DEF Chained
  <1>5. PICK view : Views(view, t)
    BY ReplayGoes
  <1>6. \A n \in 1..N : n - 1 \in 0..N /\ n \in 0..N
    BY <1>2
  <1>7. ASSUME NEW n \in 1..N, view[n - 1] \in View, Accepts(view[n - 1], t[n])
        PROVE  view[n] = After(view[n - 1], t[n].payload) /\ view[n] \in View
    <2>1. view[n - 1] # None
      BY <1>7, ReplayAssumption DEF ReplayAssumption
    <2>2. view[n] = After(view[n - 1], t[n].payload)
      BY <1>2, <1>5, <1>7, <2>1 DEF Views
    <2>3. t[n].payload \in Payload
      <3>1. t[n] \in Event
        BY <1>2
      <3> QED
        BY <3>1 DEF Event
    <2>4. After(view[n - 1], t[n].payload) \in View
      BY <1>7, <2>3, AfterTyped
    <2> QED
      BY <2>2, <2>4
  <1>8. view[0] \in View /\ view[0].status = "draft" /\ ~view[0].plan
    BY <1>5, NewViewTyped DEF Views, NewView
  <1>9. 1 \in 1..N /\ view[1] \in View /\ view[1].status = "draft" /\ ~view[1].plan
    <2>1. 1 \in 1..N /\ 1 - 1 = 0 /\ t[1].payload = [type |-> "created"]
      BY <1>1, <1>2, <1>3 DEF BootstrapEvents
    <2>2. Accepts(view[0], t[1])
      BY <2>1 DEF Accepts
    <2>3. view[1] = After(view[0], t[1].payload) /\ view[1] \in View
      BY <1>7, <1>8, <2>1, <2>2
    <2>4. PICK p : p = t[1].payload /\ p.type = "created"
      BY <2>1
    <2>5. view[1].status = view[0].status /\ view[1].plan = view[0].plan
      <3>1. view[1] = After(view[0], p)
        BY <2>3, <2>4
      <3> QED
        BY <1>8, <2>4, <3>1, StatusAndPlanAfter
    <2> QED
      BY <1>8, <2>1, <2>3, <2>5
  <1>10. 2 \in 1..N => view[2] \in View /\ view[2].status = "accepted" /\ ~view[2].plan
    <2> SUFFICES ASSUME 2 \in 1..N
                 PROVE  view[2] \in View /\ view[2].status = "accepted" /\ ~view[2].plan
      OBVIOUS
    <2>1. 2 - 1 = 1 /\ t[2].payload = [type |-> "status", from |-> "draft", to |-> "accepted"]
      BY <1>1, <1>3 DEF BootstrapEvents
    <2>2. PICK p : p = t[2].payload /\ p.type = "status" /\ p.from = "draft" /\ p.to = "accepted"
      BY <2>1
    <2>3. <<"draft", "accepted">> \in StatusTable
      BY DEF StatusTable
    <2>4. Accepts(view[1], t[2])
      BY <1>9, <2>2, <2>3 DEF Accepts, MovesFrom
    <2>5. view[2] = After(view[1], t[2].payload) /\ view[2] \in View
      BY <1>7, <1>9, <2>1, <2>4
    <2>6. view[2].status = "accepted" /\ view[2].plan = view[1].plan
      <3>1. view[2] = After(view[1], p)
        BY <2>2, <2>5
      <3> QED
        BY <1>9, <2>2, <3>1, StatusAndPlanAfter
    <2> QED
      BY <1>9, <2>5, <2>6
  <1>11. 3 \in 1..N => view[3] \in View /\ view[3].status = "accepted"
    <2> SUFFICES ASSUME 3 \in 1..N
                 PROVE  view[3] \in View /\ view[3].status = "accepted"
      OBVIOUS
    <2>1. 3 - 1 = 2 /\ 2 \in 1..N /\ t[3].payload = [type |-> "plan"]
      BY <1>1, <1>2, <1>3 DEF BootstrapEvents
    <2>2. PICK p : p = t[3].payload /\ p.type = "plan"
      BY <2>1
    <2>3. Accepts(view[2], t[3])
      BY <1>10, <2>1, <2>2 DEF Accepts
    <2>4. view[3] = After(view[2], t[3].payload) /\ view[3] \in View
      BY <1>7, <1>10, <2>1, <2>3
    <2>5. view[3].status = view[2].status
      <3>1. view[3] = After(view[2], p) /\ view[2] \in View
        BY <1>10, <2>1, <2>2, <2>4
      <3> QED
        BY <2>2, <3>1, StatusAndPlanAfter
    <2> QED
      BY <1>10, <2>1, <2>4, <2>5
  <1>12. 4 \in 1..N => view[4] \in View
    <2> SUFFICES ASSUME 4 \in 1..N
                 PROVE  view[4] \in View
      OBVIOUS
    <2>1. 4 - 1 = 3 /\ 3 \in 1..N
          /\ t[4].payload = [type |-> "status", from |-> "accepted", to |-> "planned"]
      BY <1>1, <1>2, <1>3 DEF BootstrapEvents
    <2>2. PICK p : p = t[4].payload /\ p.type = "status" /\ p.from = "accepted" /\ p.to = "planned"
      BY <2>1
    <2>3. <<"accepted", "planned">> \in StatusTable
      BY DEF StatusTable
    <2>4. Accepts(view[3], t[4])
      BY <1>11, <2>1, <2>2, <2>3 DEF Accepts, MovesFrom
    <2> QED
      BY <1>7, <1>11, <2>1, <2>4
  <1>13. view[N] \in View
    <2>1. N \in 1..N /\ (N = 1 \/ N = 2 \/ N = 3 \/ N = 4)
      BY <1>2
    <2> QED
      BY <1>9, <1>10, <1>11, <1>12, <2>1
  <1>14. Replay(t) = view[N]
    BY <1>2, <1>4, <1>5 DEF Views
  <1> QED
    BY <1>13, <1>14, ReplayAssumption DEF Replays, ReplayAssumption

\* What a caller is about to append goes on with the run it is for: the event
\* that was replayed with it, or the rest of a new run.
Onward(c, call) ==
    call.pc = "append" =>
        \/ Len(call.queue) = 1 /\ Replays(Append(Stream(RunOf[c]), call.queue[1]))
        \/ \E stamp \in Nat :
              stamp + 4 <= MaxStamps /\ Stream(RunOf[c]) \o call.queue = Bootstrap(RunOf[c], c, stamp)

ReplayInv ==
    Readable => /\ \A run \in Runs : Stream(run) # <<>> => Replays(Stream(run))
                /\ \A c \in Callers : Onward(c, calls[c])

\* What the documentation asks of the callers of a run.
OneWriter == \A c \in Callers : \A d \in Callers : RunOf[c] = RunOf[d] => c = d

LEMMA OnwardReplays ==
    ASSUME TypeOK, Queued, NEW c \in Callers, calls[c].pc = "append", Onward(c, calls[c])
    PROVE  Replays(Append(Stream(RunOf[c]), Head(calls[c].queue)))
  <1>1. PICK s, q : s = Stream(RunOf[c]) /\ q = calls[c].queue
    OBVIOUS
  <1>2. s \in Seq(Event) /\ q \in Seq(Event) /\ q # <<>>
    BY <1>1, StreamTyped, CallParts DEF Queued, Fits
  <1>3. Head(q) = q[1] /\ Head(q) \in Event
    BY <1>2
  <1>4. CASE Len(q) = 1 /\ Replays(Append(s, q[1]))
    BY <1>1, <1>3, <1>4
  <1>5. ASSUME NEW stamp \in Nat, stamp + 4 <= MaxStamps, s \o q = Bootstrap(RunOf[c], c, stamp)
        PROVE  Replays(Append(s, Head(q)))
    <2>1. PICK run, b, t : run = RunOf[c] /\ b = Bootstrap(run, c, stamp) /\ t = Append(s, Head(q))
      OBVIOUS
    <2>2. run \in Runs /\ b = s \o q
      BY <1>5, <2>1, RunOfTyped
    <2>3. Len(b) = 4
      <3>1. Len(Bootstrap(run, c, stamp)) = 4
        BY <1>5, <2>2, BootstrapTyped
      <3> QED
        BY <2>1, <3>1
    <2>4. /\ Len(s) \in Nat /\ Len(q) \in Nat /\ Len(q) # 0 /\ Len(s \o q) = Len(s) + Len(q)
          /\ \A i \in 1..Len(s) : (s \o q)[i] = s[i]
          /\ (s \o q)[Len(s) + 1] = q[1]
      BY <1>2
    <2>5. /\ t \in Seq(Event) /\ Len(t) = Len(s) + 1 /\ t[Len(s) + 1] = q[1]
          /\ \A i \in 1..Len(s) : t[i] = s[i]
      BY <1>2, <1>3, <2>1
    <2>6. Len(t) \in 1..4
      BY <2>2, <2>3, <2>4, <2>5
    <2>7. \A i \in 1..Len(t) : t[i] = b[i]
      <3>1. \A i \in 1..Len(t) : i \in 1..Len(s) \/ i = Len(s) + 1
        BY <2>4, <2>5
      <3> QED
        BY <2>2, <2>4, <2>5, <3>1
    <2>8. Replays(t)
      <3>1. \A i \in 1..Len(t) : t[i] = Bootstrap(run, c, stamp)[i]
        BY <2>1, <2>7
      <3> QED
        BY <1>5, <2>2, <2>5, <2>6, <3>1, BootstrapReplays
    <2> QED
      BY <2>1, <2>8
  <1> QED
    BY <1>1, <1>4, <1>5 DEF Onward

\* The head of one list becomes the last of another.
LEMMA HeadMoves ==
    ASSUME NEW S, NEW s \in Seq(S), NEW q \in Seq(S), q # <<>>
    PROVE  Append(s, Head(q)) \o Tail(q) = s \o q
  <1>1. PICK t, u, h : t = Append(s, h) /\ u = Tail(q) /\ h = Head(q)
    OBVIOUS
  <1>2. h \in S /\ h = q[1] /\ Len(q) \in Nat /\ Len(q) # 0 /\ Len(s) \in Nat
    BY <1>1
  <1>3. /\ t \in Seq(S) /\ Len(t) = Len(s) + 1 /\ t[Len(s) + 1] = h
        /\ \A i \in 1..Len(s) : t[i] = s[i]
    BY <1>1, <1>2, AppendProperties
  <1>4. u \in Seq(S) /\ Len(u) = Len(q) - 1 /\ \A i \in 1..Len(u) : u[i] = q[i + 1]
    BY <1>1, HeadTailProperties
  <1>5. PICK x, y : x = t \o u /\ y = s \o q
    OBVIOUS
  <1>6. /\ x \in Seq(S) /\ Len(x) = Len(t) + Len(u)
        /\ \A i \in 1..(Len(t) + Len(u)) : x[i] = IF i <= Len(t) THEN t[i] ELSE u[i - Len(t)]
    BY <1>3, <1>4, <1>5, ConcatProperties
  <1>7. /\ y \in Seq(S) /\ Len(y) = Len(s) + Len(q)
        /\ \A i \in 1..(Len(s) + Len(q)) : y[i] = IF i <= Len(s) THEN s[i] ELSE q[i - Len(s)]
    BY <1>5, ConcatProperties
  <1>8. Len(t) + Len(u) = Len(s) + Len(q)
    BY <1>2, <1>3, <1>4
  <1>9. ASSUME NEW i \in 1..(Len(s) + Len(q))
        PROVE  x[i] = y[i]
    <2>1. /\ x[i] = IF i <= Len(t) THEN t[i] ELSE u[i - Len(t)]
          /\ y[i] = IF i <= Len(s) THEN s[i] ELSE q[i - Len(s)]
      BY <1>6, <1>7, <1>8
    <2>2. CASE i <= Len(s)
      <3>1. i \in 1..Len(s) /\ i <= Len(t)
        BY <1>2, <1>3, <2>2
      <3> QED
        BY <1>3, <2>1, <3>1
    <2>3. CASE i = Len(s) + 1
      <3>1. i <= Len(t) /\ ~(i <= Len(s)) /\ i - Len(s) = 1
        BY <1>2, <1>3, <2>3
      <3> QED
        BY <1>2, <1>3, <2>1, <2>3, <3>1
    <2>4. CASE i > Len(s) + 1
      <3>1. /\ i - Len(t) \in 1..Len(u) /\ i - Len(t) + 1 = i - Len(s)
            /\ ~(i <= Len(t)) /\ ~(i <= Len(s))
        BY <1>2, <1>3, <1>4, <2>4
      <3> QED
        BY <1>4, <2>1, <3>1
    <2> QED
      BY <1>2, <2>2, <2>3, <2>4
  <1>10. x = y
    BY <1>6, <1>7, <1>8, <1>9, SeqEqual
  <1> QED
    BY <1>1, <1>5, <1>10

\* The lines stay and a call that is about to append goes on with its run.
LEMMA ReplayKept ==
    ASSUME ReplayInv, log' = log, NEW c \in Callers,
           \A d \in Callers : d # c => calls'[d] = calls[d],
           Readable => Onward(c, calls'[c])
    PROVE  ReplayInv'
  <1>1. Readable' = Readable /\ \A run : Stream(run)' = Stream(run)
    BY DEF Readable, Stream
  <1>2. Readable => \A d \in Callers : Onward(d, calls'[d])
    BY DEF ReplayInv
  <1>3. ASSUME Readable, NEW d \in Callers
        PROVE  Onward(d, calls[d])'
    BY <1>1, <1>2, <1>3 DEF Onward
  <1>4. ASSUME Readable, NEW run \in Runs, Stream(run)' # <<>>
        PROVE  Replays(Stream(run)')
    BY <1>1, <1>4 DEF ReplayInv
  <1> QED
    BY <1>1, <1>3, <1>4 DEF ReplayInv

\* A line is appended that is no event, or the first of a caller's queue.
LEMMA ReplayAppend ==
    ASSUME TypeOK, Queued, ReplayInv, OneWriter, NEW c \in Callers, calls[c].pc = "append",
           NEW line \in {Malformed, Head(calls[c].queue)}, log' = Appended(line),
           \A d \in Callers : d # c => calls'[d] = calls[d],
           \/ calls'[c].pc \in {"idle", "reload"}
           \/ line = Head(calls[c].queue) /\ calls'[c].queue = Tail(calls[c].queue)
              /\ Len(calls[c].queue) # 1
    PROVE  ReplayInv'
  <1> SUFFICES ASSUME Readable'
               PROVE  /\ \A run \in Runs : Stream(run)' # <<>> => Replays(Stream(run)')
                      /\ \A d \in Callers : Onward(d, calls[d])'
    BY DEF ReplayInv
  <1>1. PICK r, s, q : r = RunOf[c] /\ s = Stream(r) /\ q = calls[c].queue
    OBVIOUS
  <1>2. s \in Seq(Event) /\ q \in Seq(Event) /\ q # <<>> /\ Fits(c, calls[c])
    BY <1>1, StreamTyped, CallParts DEF Queued, Fits
  <1>3. /\ Len(q) \in Nat /\ 1 \in 1..Len(q) /\ Head(q) = q[1] /\ q[1] \in Event
        /\ q[1].run = r
    <2>1. Len(q) \in Nat /\ 1 \in 1..Len(q) /\ Head(q) = q[1] /\ q[1] \in Event
      BY <1>2
    <2> QED
      BY <1>1, <1>2, <2>1 DEF Fits
  <1>4. line \in Lines
    BY <1>1, <1>3 DEF Lines
  <1>5. Readable /\ line # Malformed /\ log' = Append(log, line)
    BY <1>4, ReadableGrows
  <1>6. line = Head(q)
    BY <1>1, <1>5
  <1>7. \A run : Stream(run)' = IF r = run THEN Append(Stream(run), line) ELSE Stream(run)
    BY <1>3, <1>4, <1>5, <1>6, StreamsGrow
  <1>8. Replays(Append(s, line))
    BY <1>1, <1>5, <1>6, OnwardReplays DEF ReplayInv
  <1>9. ASSUME NEW run \in Runs, Stream(run)' # <<>>
        PROVE  Replays(Stream(run)')
    BY <1>1, <1>5, <1>7, <1>8, <1>9 DEF ReplayInv
  <1>10. ASSUME NEW d \in Callers
         PROVE  Onward(d, calls[d])'
    <2>1. CASE d # c
      <3>1. RunOf[d] # r /\ calls'[d] = calls[d]
        BY <1>1, <2>1 DEF OneWriter
      <3>2. Stream(RunOf[d])' = Stream(RunOf[d])
        BY <1>7, <3>1
      <3> QED
        BY <1>5, <3>1, <3>2 DEF Onward, ReplayInv
    <2>2. CASE d = c /\ calls'[c].pc \in {"idle", "reload"}
      BY <2>2 DEF Onward
    <2>3. CASE d = c /\ calls'[c].queue = Tail(q) /\ Len(q) # 1
      <3>1. Onward(c, calls[c])
        BY <1>5 DEF ReplayInv
      <3>2. PICK stamp \in Nat : stamp + 4 <= MaxStamps /\ s \o q = Bootstrap(r, c, stamp)
        BY <1>1, <2>3, <3>1 DEF Onward
      <3>3. PICK b : b = Bootstrap(r, c, stamp)
        OBVIOUS
      <3>4. Append(s, Head(q)) \o Tail(q) = s \o q
        BY <1>2, HeadMoves
      <3>5. Stream(r)' = Append(s, Head(q))
        BY <1>1, <1>6, <1>7
      <3>6. Stream(RunOf[c])' \o calls'[c].queue = Bootstrap(RunOf[c], c, stamp)
        BY <1>1, <2>3, <3>2, <3>4, <3>5
      <3> QED
        BY <2>3, <3>2, <3>6 DEF Onward
    <2> QED
      BY <1>1, <2>1, <2>2, <2>3
  <1> QED
    BY <1>9, <1>10

LEMMA StepReplays ==
    ASSUME TypeOK, Queued, ReplayInv, OneWriter, [Next]_vars
    PROVE  ReplayInv'
  <1>1. ASSUME NEW c \in Callers, NEW reply \in {"none", "ok", "failed"}, Ends(c, reply), log' = log
        PROVE  ReplayInv'
    <2>1. calls'[c].pc = "idle" /\ \A d \in Callers : d # c => calls'[d] = calls[d]
      BY <1>1, EndsKeeps
    <2>2. Onward(c, calls'[c])
      BY <2>1 DEF Onward
    <2> QED
      BY <1>1, <2>1, <2>2, ReplayKept
  <1>2. ASSUME NEW c \in Callers, CreateRun(c)
        PROVE  ReplayInv'
    <2>1. PICK r, b, stamp, call :
              /\ stamp = calls[c].stamps /\ r = RunOf[c] /\ b = Bootstrap(r, c, stamp)
              /\ call = Begun("append", b, None, stamp + 4)
      OBVIOUS
    <2>2. /\ calls'[c] = call /\ stamp \in Nat /\ stamp + 4 <= MaxStamps
          /\ \A d \in Callers : d # c => calls'[d] = calls[d]
      BY <1>2, <2>1, BootstrapStarts
    <2>3. call.queue = b
      BY <2>1 DEF Begun
    <2>4. b \in Seq(Event)
      <3>1. Bootstrap(r, c, stamp) \in Seq(Event)
        BY <2>1, <2>2, RunOfTyped, BootstrapTyped
      <3> QED
        BY <2>1, <3>1
    <2>5. Stream(r) \o b = b
      <3>1. Stream(r) = <<>>
        BY <1>2, <2>1 DEF CreateRun
      <3> QED
        BY <2>4, <3>1
    <2>6. Onward(c, call)
      BY <2>1, <2>2, <2>3, <2>5 DEF Onward
    <2> QED
      BY <1>2, <2>2, <2>6, ReplayKept DEF CreateRun
  <1>3. ASSUME NEW c \in Callers, NEW stamp \in Stamps(c), NEW input \in Inputs,
               AppendEvent(c, stamp, input) \/ AppendVerifiedCompletion(c, stamp, input)
        PROVE  ReplayInv'
    <2>1. PICK e : e = NextEvent(RunOf[c], <<c, stamp>>, input)
      OBVIOUS
    <2>2. Starts(c, "append", <<e>>, None, stamp) /\ Admissible(e) /\ log' = log
      BY <1>3, <2>1 DEF AppendEvent, AppendVerifiedCompletion
    <2>3. input.role \in Roles /\ input.payload \in Payload /\ None \in ApprovalIds \union {None}
      BY InputTyped
    <2>4. /\ calls'[c].queue = <<e>> /\ \A d \in Callers : d # c => calls'[d] = calls[d]
      BY <2>1, <2>2, <2>3, OneEventCall
    <2>5. stamp \in Nat
      BY StampsTyped
    <2>6. e.run = RunOf[c]
      BY <2>1, <2>2, <2>3, <2>5, OneEventStarts
    <2>7. Replays(Append(Stream(RunOf[c]), e))
      BY <2>2, <2>6 DEF Admissible
    <2>8. Onward(c, calls'[c])
      BY <2>4, <2>7 DEF Onward
    <2> QED
      BY <2>2, <2>4, <2>8, ReplayKept
  <1>4. ASSUME NEW c \in Callers, NEW stamp \in Stamps(c), NEW id \in Asks, StartGuard(c, stamp, id)
        PROVE  ReplayInv'
    <2>1. PICK input : input = [role |-> "coordinator", payload |-> [type |-> "guard"]]
      OBVIOUS
    <2>2. input.role \in Roles /\ input.payload \in Payload /\ id \in ApprovalIds \union {None}
      BY <2>1, GuardPayload DEF ApprovalIds
    <2>3. Starts(c, "evaluate", <<NextEvent(RunOf[c], <<c, stamp>>, input)>>, id, stamp) /\ log' = log
      BY <1>4, <2>1 DEF StartGuard
    <2>4. calls'[c].pc = "evaluate" /\ \A d \in Callers : d # c => calls'[d] = calls[d]
      BY <2>2, <2>3, OneEventCall
    <2>5. Onward(c, calls'[c])
      BY <2>4 DEF Onward
    <2> QED
      BY <2>3, <2>4, <2>5, ReplayKept
  <1>5. ASSUME NEW c \in Callers, EvaluateGuard(c)
        PROVE  ReplayInv'
    <2>1. log' = log /\ calls[c].pc = "evaluate"
      BY <1>5 DEF EvaluateGuard
    <2>2. CASE Ends(c, "failed")
      BY <1>1, <2>1, <2>2
    <2>3. CASE calls' = [calls EXCEPT ![c].pc = "record"]
      <3>1. calls'[c].pc = "record" /\ \A d \in Callers : d # c => calls'[d] = calls[d]
        BY <2>1, <2>3, GoesOnKeeps
      <3>2. Onward(c, calls'[c])
        BY <3>1 DEF Onward
      <3> QED
        BY <2>1, <3>1, <3>2, ReplayKept
    <2> QED
      BY <1>5, <2>2, <2>3 DEF EvaluateGuard
  <1>6. ASSUME NEW c \in Callers, RecordGuard(c)
        PROVE  ReplayInv'
    <2>1. log' = log /\ calls[c].pc = "record"
      BY <1>6 DEF RecordGuard
    <2>2. CASE Ends(c, "failed")
      BY <1>1, <2>1, <2>2
    <2>3. CASE ~Ends(c, "failed")
      <3>1. calls' = [calls EXCEPT ![c].pc = "append"] /\ Admissible(calls[c].queue[1])
        BY <1>6, <2>3 DEF RecordGuard
      <3>2. PICK q : q = calls[c].queue
        OBVIOUS
      <3>3. /\ calls'[c].queue = q /\ Len(q) = 1
            /\ \A d \in Callers : d # c => calls'[d] = calls[d]
        BY <2>1, <3>1, <3>2, GoesOnKeeps
      <3>4. Fits(c, calls[c]) /\ 1 \in 1..Len(q)
        BY <3>3 DEF Queued
      <3>5. q[1].run = RunOf[c]
        BY <3>2, <3>4 DEF Fits
      <3>6. Replays(Append(Stream(RunOf[c]), q[1]))
        BY <3>1, <3>2, <3>5 DEF Admissible
      <3>7. Onward(c, calls'[c])
        BY <3>3, <3>6 DEF Onward
      <3> QED
        BY <2>1, <3>3, <3>7, ReplayKept
    <2> QED
      BY <2>2, <2>3
  <1>7. ASSUME NEW c \in Callers, AppendLine(c)
        PROVE  ReplayInv'
    <2>1. PICK line : line = Head(calls[c].queue)
      OBVIOUS
    <2>2. /\ calls'[c].queue = Tail(calls[c].queue)
          /\ calls'[c].pc = IF Len(calls[c].queue) = 1 THEN "reload" ELSE "append"
          /\ \A d \in Callers : d # c => calls'[d] = calls[d]
      BY <1>7, AppendKeeps
    <2>3. calls[c].pc = "append" /\ log' = Appended(line)
      BY <1>7, <2>1 DEF AppendLine
    <2>4. line \in {Malformed, Head(calls[c].queue)}
      BY <2>1
    <2>5. \/ calls'[c].pc \in {"idle", "reload"}
          \/ line = Head(calls[c].queue) /\ calls'[c].queue = Tail(calls[c].queue)
             /\ Len(calls[c].queue) # 1
      BY <2>1, <2>2
    <2> QED
      BY <2>2, <2>3, <2>4, <2>5, ReplayAppend
  <1>8. ASSUME NEW c \in Callers, AppendFails(c)
        PROVE  ReplayInv'
    <2>1. Ends(c, "failed") /\ calls[c].pc = "append"
      BY <1>8 DEF AppendFails
    <2>2. calls'[c].pc = "idle" /\ \A d \in Callers : d # c => calls'[d] = calls[d]
      BY <2>1, EndsKeeps
    <2>3. CASE log' = log
      BY <1>1, <2>1, <2>3
    <2>4. ASSUME NEW line \in {Malformed, Head(calls[c].queue)}, log' = Appended(line)
          PROVE  ReplayInv'
      BY <2>1, <2>2, <2>4, ReplayAppend
    <2> QED
      BY <1>8, <2>3, <2>4 DEF AppendFails
  <1>9. ASSUME NEW c \in Callers, Reload(c) \/ Crash(c)
        PROVE  ReplayInv'
    <2>1. PICK reply \in {"none", "ok", "failed"} : Ends(c, reply)
      BY <1>9 DEF Reload, Crash
    <2>2. log' = log
      BY <1>9 DEF Reload, Crash
    <2> QED
      BY <1>1, <2>1, <2>2
  <1>10. ASSUME UNCHANGED <<log, calls>>
         PROVE  ReplayInv'
    <2>1. Readable' = Readable /\ \A run : Stream(run)' = Stream(run)
      BY <1>10 DEF Readable, Stream
    <2> QED
      BY <1>10, <2>1 DEF ReplayInv, Onward
  <1>11. ASSUME NEW id \in ApprovalIds, OwnerDecides(id)
         PROVE  UNCHANGED <<log, calls>>
    BY <1>11 DEF OwnerDecides
  <1>12. ASSUME NEW run \in Runs, NEW bundle \in Published \union {None}, Project(run, bundle)
         PROVE  UNCHANGED <<log, calls>>
    BY <1>12 DEF Project
  <1>13. CASE UNCHANGED vars
    BY <1>10, <1>13 DEF vars
  <1> QED
    BY <1>2, <1>3, <1>4, <1>5, <1>6, <1>7, <1>8, <1>9, <1>10, <1>11, <1>12, <1>13 DEF Next

\* The streams of a file that holds a new run and nothing else.
LEMMA StreamsOfNewRun ==
    ASSUME NEW r \in Runs, NEW c \in Callers, 4 <= MaxStamps, NEW run \in Runs,
           EventsOf(run, Bootstrap(r, c, 0)) # <<>>
    PROVE  Replays(EventsOf(run, Bootstrap(r, c, 0)))
  <1>1. 0 \in Nat /\ 0 + 4 <= MaxStamps
    OBVIOUS
  <1>2. PICK es : BootstrapEvents(r, c, 0, es)
    BY <1>1, BootstrapGoes
  <1>3. PICK e1, e2, e3, e4 : e1 = es[1] /\ e2 = es[2] /\ e3 = es[3] /\ e4 = es[4]
    OBVIOUS
  <1>4. /\ e1 \in Event /\ e2 \in Event /\ e3 \in Event /\ e4 \in Event
        /\ e1.run = r /\ e2.run = r /\ e3.run = r /\ e4.run = r
        /\ e1 # Malformed /\ e2 # Malformed /\ e3 # Malformed /\ e4 # Malformed
    <2>1. 1 \in 1..4 /\ 2 \in 1..4 /\ 3 \in 1..4 /\ 4 \in 1..4 /\ Malformed \notin Event
      BY RuntimeAssumption DEF RuntimeAssumption
    <2> QED
      BY <1>2, <1>3, <2>1 DEF BootstrapEvents
  <1>5. PICK l0, l1, l2, l3, l4 :
            /\ l0 = <<>> /\ l1 = Append(l0, e1) /\ l2 = Append(l1, e2)
            /\ l3 = Append(l2, e3) /\ l4 = Append(l3, e4)
    OBVIOUS
  <1>6. /\ l1 \in Seq(Event) /\ Len(l1) = 1 /\ l1[1] = e1
        /\ l2 \in Seq(Event) /\ Len(l2) = 2 /\ l2[1] = e1 /\ l2[2] = e2
        /\ l3 \in Seq(Event) /\ Len(l3) = 3 /\ l3[1] = e1 /\ l3[2] = e2 /\ l3[3] = e3
        /\ l4 \in Seq(Event) /\ Len(l4) = 4 /\ l4[1] = e1 /\ l4[2] = e2 /\ l4[3] = e3 /\ l4[4] = e4
    <2>1. l1 \in Seq(Event) /\ Len(l1) = 1 /\ l1[1] = e1
      BY <1>4, <1>5
    <2>2. l2 \in Seq(Event) /\ Len(l2) = 2 /\ l2[1] = e1 /\ l2[2] = e2
      BY <1>4, <1>5, <2>1
    <2>3. l3 \in Seq(Event) /\ Len(l3) = 3 /\ l3[1] = e1 /\ l3[2] = e2 /\ l3[3] = e3
      BY <1>4, <1>5, <2>2
    <2>4. l4 \in Seq(Event) /\ Len(l4) = 4 /\ l4[1] = e1 /\ l4[2] = e2 /\ l4[3] = e3 /\ l4[4] = e4
      BY <1>4, <1>5, <2>3
    <2> QED
      BY <2>1, <2>2, <2>3, <2>4
  <1>7. e1 \in Lines /\ e2 \in Lines /\ e3 \in Lines /\ e4 \in Lines
    BY <1>4 DEF Lines
  <1>8. l0 \in Seq(Lines) /\ l1 \in Seq(Lines) /\ l2 \in Seq(Lines) /\ l3 \in Seq(Lines)
    <2>1. \A l \in Seq(Event) : l \in Seq(Lines)
      BY DEF Lines
    <2>2. l0 \in Seq(Lines)
      BY <1>5
    <2> QED
      BY <1>6, <2>1, <2>2
  <1>9. l4 = Bootstrap(r, c, 0)
    <2>1. PICK x : x = Bootstrap(r, c, 0)
      OBVIOUS
    <2>2. x = <<e1, e2, e3, e4>>
      BY <1>2, <1>3, <2>1 DEF BootstrapEvents
    <2>3. x \in Seq(Event) /\ Len(x) = 4 /\ x[1] = e1 /\ x[2] = e2 /\ x[3] = e3 /\ x[4] = e4
      BY <1>4, <2>2
    <2>4. \A i \in 1..4 : i = 1 \/ i = 2 \/ i = 3 \/ i = 4
      OBVIOUS
    <2>5. \A i \in 1..Len(x) : x[i] = l4[i]
      BY <1>6, <2>3, <2>4
    <2>6. x = l4
      BY <1>6, <2>3, <2>5, SeqEqual
    <2> QED
      BY <2>1, <2>6
  <1>10. EventsOf(run, l0) = <<>>
    BY <1>5, EventsOfNothing
  <1>11. ASSUME NEW lines \in Seq(Lines), NEW e \in Lines, e.run = r, e # Malformed
         PROVE  EventsOf(run, Append(lines, e)) = IF run = r THEN Append(EventsOf(run, lines), e)
                                                  ELSE EventsOf(run, lines)
    BY <1>11, EventsAppend DEF IsOf
  <1>12. CASE run # r
    <2>1. EventsOf(run, l1) = <<>>
      BY <1>4, <1>5, <1>7, <1>8, <1>10, <1>11, <1>12
    <2>2. EventsOf(run, l2) = <<>>
      BY <1>4, <1>5, <1>7, <1>8, <1>11, <1>12, <2>1
    <2>3. EventsOf(run, l3) = <<>>
      BY <1>4, <1>5, <1>7, <1>8, <1>11, <1>12, <2>2
    <2>4. EventsOf(run, l4) = <<>>
      BY <1>4, <1>5, <1>7, <1>8, <1>11, <1>12, <2>3
    <2> QED
      BY <1>9, <2>4
  <1>13. CASE run = r
    <2>1. EventsOf(run, l1) = l1
      <3>1. EventsOf(run, l0) = l0
        BY <1>5, <1>10
      <3>2. EventsOf(run, Append(l0, e1)) = Append(EventsOf(run, l0), e1)
        BY <1>4, <1>7, <1>8, <1>11, <1>13
      <3> QED
        BY <1>5, <3>1, <3>2
    <2>2. EventsOf(run, l2) = l2
      <3>1. EventsOf(run, Append(l1, e2)) = Append(EventsOf(run, l1), e2)
        BY <1>4, <1>7, <1>8, <1>11, <1>13
      <3> QED
        BY <1>5, <2>1, <3>1
    <2>3. EventsOf(run, l3) = l3
      <3>1. EventsOf(run, Append(l2, e3)) = Append(EventsOf(run, l2), e3)
        BY <1>4, <1>7, <1>8, <1>11, <1>13
      <3> QED
        BY <1>5, <2>2, <3>1
    <2>4. EventsOf(run, l4) = l4
      <3>1. EventsOf(run, Append(l3, e4)) = Append(EventsOf(run, l3), e4)
        BY <1>4, <1>7, <1>8, <1>11, <1>13
      <3> QED
        BY <1>5, <2>3, <3>1
    <2>5. l4 \in Seq(Event) /\ Len(l4) = 4
      BY <1>6
    <2>6. \A i \in 1..Len(l4) : l4[i] = Bootstrap(r, c, 0)[i]
      BY <1>9
    <2>7. Len(l4) \in 1..4
      BY <2>5
    <2>8. Replays(l4)
      BY <1>1, <2>5, <2>6, <2>7, BootstrapReplays
    <2> QED
      BY <1>9, <2>4, <2>8
  <1> QED
    BY <1>12, <1>13

LEMMA StartReplays ==
    ASSUME Init
    PROVE  ReplayInv
  <1>1. \A c \in Callers : Onward(c, calls[c])
    BY DEF Init, Idle, Onward
  <1>2. ASSUME NEW run \in Runs, Stream(run) # <<>>
        PROVE  Replays(Stream(run))
    <2>1. CASE Planned = None
      <3>1. Stream(run) = <<>>
        BY <2>1, EventsOfNothing DEF Init, Stream
      <3> QED
        BY <1>2, <3>1
    <2>2. CASE Planned # None
      <3>1. WriterOf(Planned) \in Callers /\ Planned \in Runs /\ 4 <= MaxStamps
        <4>1. PICK c \in Callers : RunOf[c] = Planned
          BY <2>2, RuntimeAssumption DEF RuntimeAssumption
        <4> QED
          BY <2>2, <4>1, RunOfTyped, RuntimeAssumption DEF WriterOf, RuntimeAssumption
      <3>2. Stream(run) = EventsOf(run, Bootstrap(Planned, WriterOf(Planned), 0))
        BY <2>2 DEF Init, Stream
      <3> QED
        BY <1>2, <3>1, <3>2, StreamsOfNewRun
    <2> QED
      BY <2>1, <2>2
  <1> QED
    BY <1>1, <1>2 DEF ReplayInv

\* With one writer per run, whatever the writers of other runs do and wherever a
\* call dies, every run in a file that reads replays.
THEOREM OneWriterReplays ==
    ASSUME OneWriter
    PROVE  Spec => []StreamsReplay
  <1>1. Init => TypeOK /\ Queued /\ ReplayInv
    BY StartTyped, StartReplays
  <1>2. TypeOK /\ Queued /\ ReplayInv /\ [Next]_vars => (TypeOK /\ Queued /\ ReplayInv)'
    BY OneWriter, StepTyped, StepReplays
  <1>3. ReplayInv => StreamsReplay
    BY DEF ReplayInv, StreamsReplay
  <1> QED
    BY <1>1, <1>2, <1>3, PTL DEF Spec
=============================================================================
