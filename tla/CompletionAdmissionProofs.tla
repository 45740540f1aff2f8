--------------------- MODULE CompletionAdmissionProofs ---------------------
(***************************************************************************)
(* Theorems about the selection of a rerun and the completion of a goal,   *)
(* for any registry, manifest, tasks and policies: the loops of the        *)
(* selection compute what is reachable in the graph of dependencies, and   *)
(* a completed goal was verified as a whole.                               *)
(***************************************************************************)
EXTENDS CompletionAdmission, FiniteSetTheorems, SequenceTheorems, TLAPS

-----------------------------------------------------------------------------
(* Loops and least numbers.                                                *)

\* A set of numbers that is not empty has a least one.
LEMMA Least ==
    ASSUME NEW S, S \subseteq Nat, S # {}
    PROVE  \E m \in S : \A k \in S : m <= k
  <1>1. PICK m \in S : \A k \in S : ~(<<k, m>> \in OpToRel(<, Nat))
    BY NatLessThanWellFounded, WFMin
  <1>2. ASSUME NEW k \in S PROVE m <= k
    <2>1. k \in Nat /\ m \in Nat
      OBVIOUS
    <2>2. ~(k < m)
      BY <1>1, <2>1 DEF OpToRel
    <2> QED
      BY <2>1, <2>2
  <1> QED
    BY <1>2

\* What is said of zero and goes on from each number is said of all up to N; the
\* numbers of which it is said are a set.
LEMMA UpTo ==
    ASSUME NEW N \in Nat, NEW S, 0 \in S,
           \A n \in 1..N : n - 1 \in S => n \in S
    PROVE  0..N \subseteq S
  <1> SUFFICES ASSUME 0..N \ S # {}
               PROVE  FALSE
    OBVIOUS
  <1>1. PICK m \in 0..N \ S : \A k \in 0..N \ S : m <= k
    <2>1. 0..N \ S \subseteq Nat
      OBVIOUS
    <2> QED
      BY <2>1, Least
  <1>2. m # 0 /\ m \in 1..N /\ m - 1 \in 0..N /\ ~(m <= m - 1)
    <2>1. m \in 0..N /\ m # 0
      BY <1>1
    <2> QED
      BY <2>1
  <1> QED
    BY <1>1, <1>2

\* The values that a loop goes through.
GoesThrough(g, N, D, d, step) ==
    /\ g = [n \in 0..N |-> g[n]] /\ g[0] = d
    /\ \A n \in 1..N : g[n] = step[g[n - 1]]
    /\ \A n \in 0..N : g[n] \in D

LEMMA Rounds ==
    ASSUME NEW N \in Nat, NEW D, NEW d \in D, NEW step, \A x \in D : step[x] \in D
    PROVE  \E g : GoesThrough(g, N, D, d, step)
  <1> DEFINE Goes(m, g) == GoesThrough(g, m, D, d, step)
             Good == {m \in 0..N : \E g : Goes(m, g)}
  <1> USE DEF GoesThrough
  <1>1. 0 \in Good
    <2>1. PICK g : g = [n \in 0..0 |-> d]
      OBVIOUS
    <2>2. Goes(0, g)
      BY <2>1
    <2> QED
      BY <2>2
  <1>2. ASSUME NEW m \in 1..N, m - 1 \in Good
        PROVE  m \in Good
    <2>1. PICK g : Goes(m - 1, g)
      BY <1>2
    <2>2. PICK h : h = [n \in 0..m |-> IF n = 0 THEN d ELSE step[g[n - 1]]]
      OBVIOUS
    <2>3. \A n \in 1..m : n \in 0..m /\ n # 0 /\ n - 1 \in 0..(m - 1) /\ n - 1 \in 0..m
      OBVIOUS
    <2>4. h[0] = d /\ \A n \in 1..m : h[n] = step[g[n - 1]]
      BY <2>2, <2>3
    <2>5. ASSUME NEW n \in 0..(m - 1)
          PROVE  h[n] = g[n]
      <3>1. CASE n = 0
        BY <2>1, <2>4, <3>1
      <3>2. CASE n # 0
        <4>1. n \in 1..m /\ n \in 1..(m - 1)
          BY <3>2
        <4> QED
          BY <2>1, <2>4, <4>1
      <3> QED
        BY <3>1, <3>2
    <2>6. \A n \in 1..m : h[n] = step[h[n - 1]] /\ h[n] \in D
      BY <2>1, <2>3, <2>4, <2>5
    <2>7. \A n \in 0..m : n = 0 \/ n \in 1..m
      OBVIOUS
    <2>8. h = [n \in 0..m |-> h[n]]
      BY <2>2
    <2>9. Goes(m, h)
      BY <2>4, <2>6, <2>7, <2>8
    <2>10. m \in 0..N
      OBVIOUS
    <2> QED
      BY <2>9, <2>10
  <1>3. N \in Good
    <2>1. 0..N \subseteq Good
      <3> HIDE DEF Good
      <3> QED
        BY <1>1, <1>2, UpTo
    <2> QED
      BY <2>1
  <1> QED
    BY <1>3

\* The rounds of the loops, from the first to the one whose outcome is taken.
SettledGoes(registry, C, N, f) ==
    /\ f[0] = {}
    /\ \A n \in 1..N : f[n] = {c \in C : DependenciesOf(registry, c) \subseteq f[n - 1]}
    /\ Settled(registry) = f[N]

ImpactedGoes(registry, direct, C, N, f) ==
    /\ f[0] = direct
    /\ \A n \in 1..N :
         f[n] = f[n - 1] \cup {c \in C : DependenciesOf(registry, c) \cap f[n - 1] # {}}
    /\ Impacted(registry, direct) = f[N]

NeededGoes(registry, wanted, N, f) ==
    /\ f[0] = wanted
    /\ \A n \in 1..N :
         f[n] = f[n - 1] \cup UNION {DependenciesOf(registry, c) : c \in f[n - 1]}
    /\ Needed(registry, wanted) = f[N]

\* Each loop computes what its last round has.
LEMMA SettledRounds ==
    ASSUME NEW registry, NEW C, C = Chosen(registry), NEW N \in Nat, N = Cardinality(C)
    PROVE  \E f : SettledGoes(registry, C, N, f)
  <1> DEFINE Body(f, n) == IF n = 0 THEN {}
                           ELSE {c \in C : DependenciesOf(registry, c) \subseteq f[n - 1]}
             Is(f) == f = [n \in 0..N |-> Body(f, n)]
  <1>1. PICK D, d, step :
            /\ D = SUBSET C /\ d = {}
            /\ step = [B \in D |-> {c \in C : DependenciesOf(registry, c) \subseteq B}]
    OBVIOUS
  <1>2. d \in D /\ \A x \in D : step[x] \in D
    BY <1>1
  <1>3. PICK g : GoesThrough(g, N, D, d, step)
    BY <1>2, Rounds
  <1>4. Is(g)
    <2>1. ASSUME NEW n \in 0..N
          PROVE  g[n] = Body(g, n)
      <3>1. CASE n = 0
        BY <1>1, <1>3, <3>1 DEF GoesThrough
      <3>2. CASE n # 0
        <4>1. n \in 1..N /\ n - 1 \in 0..N
          BY <3>2
        <4> QED
          BY <1>1, <1>3, <3>2, <4>1 DEF GoesThrough
      <3> QED
        BY <3>1, <3>2
    <2> HIDE DEF Body
    <2> QED
      BY <1>3, <2>1 DEF GoesThrough
  <1>5. PICK f : f = CHOOSE h : Is(h)
    OBVIOUS
  <1>6. Is(f)
    <2> HIDE DEF Is
    <2> QED
      BY <1>4, <1>5
  <1>7. Settled(registry) = f[N]
    BY <1>5 DEF Settled
  <1>8. ASSUME NEW n \in 0..N
        PROVE  f[n] = Body(f, n)
    <2> HIDE DEF Body
    <2> QED
      BY <1>6
  <1>9. f[0] = {} /\ \A n \in 1..N : f[n] = {c \in C : DependenciesOf(registry, c) \subseteq f[n - 1]}
    <2>1. 0 \in 0..N /\ \A n \in 1..N : n \in 0..N /\ n # 0
      OBVIOUS
    <2> QED
      BY <1>8, <2>1
  <1>10. SettledGoes(registry, C, N, f)
    BY <1>7, <1>9 DEF SettledGoes
  <1> QED
    BY <1>10

LEMMA ImpactedRounds ==
    ASSUME NEW registry, NEW C, C = Chosen(registry), NEW N \in Nat, N = Cardinality(C),
           NEW direct \in SUBSET C
    PROVE  \E f : ImpactedGoes(registry, direct, C, N, f)
  <1> DEFINE Body(f, n) == IF n = 0 THEN direct
                           ELSE f[n - 1] \cup {c \in C : DependenciesOf(registry, c) \cap f[n - 1] # {}}
             Is(f) == f = [n \in 0..N |-> Body(f, n)]
  <1>1. PICK D, d, step :
            /\ D = SUBSET C /\ d = direct
            /\ step = [B \in D |-> B \cup {c \in C : DependenciesOf(registry, c) \cap B # {}}]
    OBVIOUS
  <1>2. d \in D /\ \A x \in D : step[x] \in D
    BY <1>1
  <1>3. PICK g : GoesThrough(g, N, D, d, step)
    BY <1>2, Rounds
  <1>4. Is(g)
    <2>1. ASSUME NEW n \in 0..N
          PROVE  g[n] = Body(g, n)
      <3>1. CASE n = 0
        BY <1>1, <1>3, <3>1 DEF GoesThrough
      <3>2. CASE n # 0
        <4>1. n \in 1..N /\ n - 1 \in 0..N
          BY <3>2
        <4> QED
          BY <1>1, <1>3, <3>2, <4>1 DEF GoesThrough
      <3> QED
        BY <3>1, <3>2
    <2> HIDE DEF Body
    <2> QED
      BY <1>3, <2>1 DEF GoesThrough
  <1>5. PICK f : f = CHOOSE h : Is(h)
    OBVIOUS
  <1>6. Is(f)
    <2> HIDE DEF Is
    <2> QED
      BY <1>4, <1>5
  <1>7. Impacted(registry, direct) = f[N]
    BY <1>5 DEF Impacted
  <1>8. ASSUME NEW n \in 0..N
        PROVE  f[n] = Body(f, n)
    <2> HIDE DEF Body
    <2> QED
      BY <1>6
  <1>9. f[0] = direct /\ \A n \in 1..N : f[n] = f[n - 1] \cup {c \in C : DependenciesOf(registry, c) \cap f[n - 1] # {}}
    <2>1. 0 \in 0..N /\ \A n \in 1..N : n \in 0..N /\ n # 0
      OBVIOUS
    <2> QED
      BY <1>8, <2>1
  <1>10. ImpactedGoes(registry, direct, C, N, f)
    BY <1>7, <1>9 DEF ImpactedGoes
  <1> QED
    BY <1>10

LEMMA NeededRounds ==
    ASSUME NEW registry, NEW C, C = Chosen(registry), NEW N \in Nat, N = Cardinality(C),
           DependenciesChosen(registry), NEW wanted \in SUBSET C
    PROVE  \E f : NeededGoes(registry, wanted, N, f)
  <1> DEFINE Body(f, n) == IF n = 0 THEN wanted
                           ELSE f[n - 1] \cup UNION {DependenciesOf(registry, c) : c \in f[n - 1]}
             Is(f) == f = [n \in 0..N |-> Body(f, n)]
  <1>1. PICK D, d, step :
            /\ D = SUBSET C /\ d = wanted
            /\ step = [B \in D |-> B \cup UNION {DependenciesOf(registry, c) : c \in B}]
    OBVIOUS
  <1>2. d \in D /\ \A x \in D : step[x] \in D
    <2>1. \A c \in C : DependenciesOf(registry, c) \subseteq C
      BY DEF DependenciesChosen, DependenciesOf
    <2> QED
      BY <1>1, <2>1
  <1>3. PICK g : GoesThrough(g, N, D, d, step)
    BY <1>2, Rounds
  <1>4. Is(g)
    <2>1. ASSUME NEW n \in 0..N
          PROVE  g[n] = Body(g, n)
      <3>1. CASE n = 0
        BY <1>1, <1>3, <3>1 DEF GoesThrough
      <3>2. CASE n # 0
        <4>1. n \in 1..N /\ n - 1 \in 0..N
          BY <3>2
        <4> QED
          BY <1>1, <1>3, <3>2, <4>1 DEF GoesThrough
      <3> QED
        BY <3>1, <3>2
    <2> HIDE DEF Body
    <2> QED
      BY <1>3, <2>1 DEF GoesThrough
  <1>5. PICK f : f = CHOOSE h : Is(h)
    OBVIOUS
  <1>6. Is(f)
    <2> HIDE DEF Is
    <2> QED
      BY <1>4, <1>5
  <1>7. Needed(registry, wanted) = f[N]
    BY <1>5 DEF Needed
  <1>8. ASSUME NEW n \in 0..N
        PROVE  f[n] = Body(f, n)
    <2> HIDE DEF Body
    <2> QED
      BY <1>6
  <1>9. f[0] = wanted /\ \A n \in 1..N : f[n] = f[n - 1] \cup UNION {DependenciesOf(registry, c) : c \in f[n - 1]}
    <2>1. 0 \in 0..N /\ \A n \in 1..N : n \in 0..N /\ n # 0
      OBVIOUS
    <2> QED
      BY <1>8, <2>1
  <1>10. NeededGoes(registry, wanted, N, f)
    BY <1>7, <1>9 DEF NeededGoes
  <1> QED
    BY <1>10

-----------------------------------------------------------------------------
(* Walks along the dependencies, of any length.                            *)

Walk(registry, w, n) ==
    /\ n \in Nat \ {0} /\ w = [i \in 1..n |-> w[i]]
    /\ \A i \in 1..n : w[i] \in Chosen(registry)
    /\ \A i \in 1..(n - 1) : w[i + 1] \in DependenciesOf(registry, w[i])

\* A walk goes from c to d.
Leads(registry, w, n, c, d) == Walk(registry, w, n) /\ w[1] = c /\ w[n] = d

Comes(registry, c, d) == \E n, w : Leads(registry, w, n, c, d)

\* A function on the first numbers is a sequence of their length.
LEMMA LengthOf ==
    ASSUME NEW C, NEW n \in Nat, NEW w \in [1..n -> C]
    PROVE  Len(w) = n
  <1>1. w \in Seq(C)
    BY SeqDef
  <1>2. Len(w) \in Nat /\ 1..Len(w) = 1..n
    BY <1>1
  <1> QED
    BY <1>2

\* The ways are the walks that are no longer than the registry.
LEMMA WaysAreWalks ==
    ASSUME NEW registry, NEW N \in Nat, N = Cardinality(Chosen(registry)), NEW w
    PROVE  /\ w \in Ways(registry) => Walk(registry, w, Len(w)) /\ Len(w) <= N
           /\ \A n \in 1..N : Walk(registry, w, n) => w \in Ways(registry) /\ Len(w) = n
  <1>1. ASSUME w \in Ways(registry)
        PROVE  Walk(registry, w, Len(w)) /\ Len(w) <= N
    <2>1. PICK n \in 1..N : w \in [1..n -> Chosen(registry)]
      BY <1>1 DEF Ways
    <2>2. Len(w) = n
      BY <2>1, LengthOf
    <2>3. \A i \in 1..(n - 1) : w[i + 1] \in DependenciesOf(registry, w[i])
      BY <1>1, <2>2 DEF Ways
    <2> QED
      BY <2>1, <2>2, <2>3 DEF Walk
  <1>2. ASSUME NEW n \in 1..N, Walk(registry, w, n)
        PROVE  w \in Ways(registry) /\ Len(w) = n
    <2>1. w \in [1..n -> Chosen(registry)]
      BY <1>2 DEF Walk
    <2>2. Len(w) = n
      BY <2>1, LengthOf
    <2> QED
      BY <1>2, <2>1, <2>2 DEF Walk, Ways
  <1> QED
    BY <1>1, <1>2

\* A walk that meets itself can be cut.
LEMMA CutWalk ==
    ASSUME NEW registry, NEW w, NEW n, NEW c, NEW d, Leads(registry, w, n, c, d),
           NEW i \in 1..n, NEW j \in 1..n, i < j, w[i] = w[j]
    PROVE  \E v : Leads(registry, v, n - (j - i), c, d)
  <1>1. PICK k \in Nat, m \in Nat : k = j - i /\ m = n - k /\ k >= 1 /\ m >= 1 /\ i <= m
                                  /\ n \in Nat /\ i \in Nat /\ j \in Nat /\ n = m + k
    BY DEF Leads, Walk
  <1>2. PICK v : v = [l \in 1..m |-> IF l <= i THEN w[l] ELSE w[l + k]]
    OBVIOUS
  <1>3. \A l \in 1..m : /\ v[l] = IF l <= i THEN w[l] ELSE w[l + k]
                        /\ l \in 1..n /\ l + k \in 1..n
    <2>1. \A l \in 1..m : l \in 1..n /\ l + k \in 1..n
      BY <1>1
    <2> QED
      BY <1>2, <2>1
  <1>4. v = [l \in 1..m |-> v[l]] /\ \A l \in 1..m : v[l] \in Chosen(registry)
    BY <1>2, <1>3 DEF Leads, Walk
  <1>5. ASSUME NEW l \in 1..(m - 1)
        PROVE  v[l + 1] \in DependenciesOf(registry, v[l])
    <2>1. l \in 1..m /\ l + 1 \in 1..m /\ l \in Nat
      BY <1>1
    <2>2. CASE l < i
      <3>1. v[l] = w[l] /\ v[l + 1] = w[l + 1] /\ l \in 1..(n - 1)
        BY <1>1, <1>3, <2>1, <2>2
      <3> QED
        BY <3>1 DEF Leads, Walk
    <2>3. CASE l = i
      <3>1. v[l] = w[j] /\ v[l + 1] = w[l + 1 + k] /\ l + 1 + k = j + 1 /\ j \in 1..(n - 1)
        BY <1>1, <1>3, <2>1, <2>3
      <3> QED
        BY <3>1 DEF Leads, Walk
    <2>4. CASE l > i
      <3>1. v[l] = w[l + k] /\ v[l + 1] = w[l + k + 1] /\ l + k \in 1..(n - 1)
        <4>1. l + 1 + k = l + k + 1 /\ ~(l <= i) /\ ~(l + 1 <= i)
          BY <1>1, <2>4
        <4> QED
          BY <1>1, <1>3, <2>1, <4>1
      <3> QED
        BY <3>1 DEF Leads, Walk
    <2> QED
      BY <2>2, <2>3, <2>4
  <1>6. v[1] = c /\ v[m] = d
    <2>1. 1 \in 1..m /\ m \in 1..m /\ m + k = n /\ n \in Nat
      BY <1>1 DEF Leads, Walk
    <2>2. v[1] = w[1]
      BY <1>3, <2>1
    <2>3. CASE m <= i
      <3>1. m = i /\ j = n
        BY <1>1, <2>1, <2>3
      <3> QED
        BY <1>3, <2>1, <2>2, <3>1 DEF Leads
    <2>4. CASE ~(m <= i)
      BY <1>3, <2>1, <2>2, <2>4 DEF Leads
    <2> QED
      BY <2>3, <2>4
  <1>7. Leads(registry, v, m, c, d)
    <2>1. m \in Nat \ {0}
      BY <1>1
    <2>2. Walk(registry, v, m)
      BY <1>4, <1>5, <2>1 DEF Walk
    <2> QED
      BY <1>6, <2>2 DEF Leads
  <1> QED
    BY <1>1, <1>7

\* Whatever comes to d comes to it on a way: the shortest walk does not meet
\* itself, so it is no longer than the registry.
LEMMA ShortWalk ==
    ASSUME NEW registry, IsFiniteSet(Chosen(registry)), NEW c, NEW d
    PROVE  Comes(registry, c, d) <=> Relies(registry, c, d)
  <1> DEFINE N == Cardinality(Chosen(registry))
  <1>1. N \in Nat
    BY FS_CardinalityType
  <1>2. ASSUME Relies(registry, c, d) PROVE Comes(registry, c, d)
    BY <1>1, <1>2, WaysAreWalks DEF Relies, Comes, Leads
  <1>3. ASSUME Comes(registry, c, d) PROVE Relies(registry, c, d)
    <2> DEFINE Lengths == {n \in Nat : \E w : Leads(registry, w, n, c, d)}
    <2>1. Lengths # {} /\ Lengths \subseteq Nat
      BY <1>3 DEF Comes, Leads, Walk
    <2>2. PICK n \in Lengths : \A k \in Lengths : n <= k
      <3> HIDE DEF Lengths
      <3> QED
        BY <2>1, Least
    <2>3. PICK w : Leads(registry, w, n, c, d)
      BY <2>2
    <2>4. n \in Nat \ {0} /\ w \in [1..n -> Chosen(registry)]
      BY <2>3 DEF Leads, Walk
    <2>5. ASSUME NEW i \in 1..n, NEW j \in 1..n, i < j, w[i] = w[j]
          PROVE  FALSE
      <3>1. n - (j - i) \in Nat /\ ~(n <= n - (j - i))
        BY <2>4, <2>5
      <3>2. n - (j - i) \in Lengths
        BY <2>3, <2>5, <3>1, CutWalk
      <3> QED
        BY <2>2, <3>1, <3>2
    <2>6. \A i, j \in 1..n : w[i] = w[j] => i = j
      BY <2>4, <2>5
    <2>7. w \in Injection(1..n, Chosen(registry))
      BY <2>4, <2>6 DEF Injection, IsInjective
    <2>8. Cardinality(1..n) <= N /\ Cardinality(1..n) = n
      BY <2>4, <2>7, FS_Injection, FS_Interval
    <2>9. n \in 1..N
      BY <1>1, <2>4, <2>8
    <2>10. w \in Ways(registry) /\ Len(w) = n
      BY <1>1, <2>3, <2>9, WaysAreWalks DEF Leads
    <2> QED
      BY <2>3, <2>10 DEF Relies, Leads
  <1> QED
    BY <1>2, <1>3

\* A walk that begins one step earlier.
LEMMA LongerWalk ==
    ASSUME NEW registry, NEW w, NEW n, NEW c, NEW d, Leads(registry, w, n, c, d),
           NEW e \in Chosen(registry), c \in DependenciesOf(registry, e)
    PROVE  \E v : Leads(registry, v, n + 1, e, d)
  <1>1. n \in Nat \ {0}
    BY DEF Leads, Walk
  <1>2. PICK v : v = [i \in 1..(n + 1) |-> IF i = 1 THEN e ELSE w[i - 1]]
    OBVIOUS
  <1>3. /\ v = [i \in 1..(n + 1) |-> v[i]] /\ v[1] = e
        /\ \A i \in 1..n : v[i + 1] = w[i]
    <2>1. \A i \in 1..n : i + 1 \in 1..(n + 1) /\ i + 1 # 1 /\ (i + 1) - 1 = i
      BY <1>1
    <2>2. 1 \in 1..(n + 1)
      BY <1>1
    <2> QED
      BY <1>2, <2>1, <2>2
  <1>4. \A i \in 1..(n + 1) : i = 1 \/ (i - 1 \in 1..n /\ (i - 1) + 1 = i)
    BY <1>1
  <1>5. \A i \in 1..(n + 1) : v[i] \in Chosen(registry)
    <2> SUFFICES ASSUME NEW i \in 1..(n + 1), i # 1
                 PROVE  v[i] \in Chosen(registry)
      BY <1>3
    <2>1. PICK k \in 1..n : i = k + 1
      BY <1>4
    <2> QED
      BY <1>3, <2>1 DEF Leads, Walk
  <1>6. \A i \in 1..n : v[i + 1] \in DependenciesOf(registry, v[i])
    <2> SUFFICES ASSUME NEW i \in 1..n
                 PROVE  v[i + 1] \in DependenciesOf(registry, v[i])
      OBVIOUS
    <2>1. v[i + 1] = w[i]
      BY <1>3
    <2>2. CASE i = 1
      BY <1>3, <2>1, <2>2 DEF Leads
    <2>3. CASE i # 1
      <3>1. PICK k \in 1..(n - 1) : i = k + 1 /\ k \in 1..n
        BY <1>1, <2>3
      <3> QED
        BY <1>3, <2>1, <3>1 DEF Leads, Walk
    <2> QED
      BY <2>2, <2>3
  <1>7. n + 1 \in Nat \ {0} /\ (n + 1) - 1 = n /\ n \in 1..n
    BY <1>1
  <1>8. Walk(registry, v, n + 1)
    BY <1>3, <1>5, <1>6, <1>7 DEF Walk
  <1>9. Leads(registry, v, n + 1, e, d)
    BY <1>3, <1>7, <1>8 DEF Leads
  <1> QED
    BY <1>9

\* One stays, one goes a step further, one comes a step earlier.
LEMMA ComesSteps ==
    ASSUME NEW registry, NEW C, C = Chosen(registry)
    PROVE  /\ \A c \in C : Comes(registry, c, c)
           /\ \A c, d \in C : \A e \in C : Comes(registry, c, d)
                /\ e \in DependenciesOf(registry, d) => Comes(registry, c, e)
           /\ \A c, d \in C : \A e \in C : Comes(registry, c, d)
                /\ c \in DependenciesOf(registry, e) => Comes(registry, e, d)
  <1>1. ASSUME NEW c \in C PROVE Comes(registry, c, c)
    <2>1. PICK w : w = [i \in 1..1 |-> c]
      OBVIOUS
    <2>2. Leads(registry, w, 1, c, c)
      BY <2>1 DEF Leads, Walk
    <2> QED
      BY <2>2 DEF Comes
  <1>2. ASSUME NEW c \in C, NEW d \in C, NEW e \in C, Comes(registry, c, d),
               e \in DependenciesOf(registry, d)
        PROVE  Comes(registry, c, e)
    <2>1. PICK n, w : Leads(registry, w, n, c, d)
      BY <1>2 DEF Comes
    <2>2. n \in Nat \ {0}
      BY <2>1 DEF Leads, Walk
    <2>3. PICK v : v = [i \in 1..(n + 1) |-> IF i <= n THEN w[i] ELSE e]
      OBVIOUS
    <2>4. /\ v = [i \in 1..(n + 1) |-> v[i]] /\ v[n + 1] = e
          /\ \A i \in 1..n : v[i] = w[i]
      BY <2>2, <2>3
    <2>5. \A i \in 1..(n + 1) : v[i] \in C
      <3>1. \A i \in 1..(n + 1) : i \in 1..n \/ i = n + 1
        BY <2>2
      <3> QED
        BY <2>1, <2>4, <3>1 DEF Leads, Walk
    <2>6. \A i \in 1..n : v[i + 1] \in DependenciesOf(registry, v[i])
      <3>1. \A i \in 1..n : i = n \/ (i \in 1..(n - 1) /\ i + 1 \in 1..n)
        BY <2>2
      <3> QED
        BY <1>2, <2>1, <2>4, <3>1 DEF Leads, Walk
    <2>7. n + 1 \in Nat \ {0} /\ (n + 1) - 1 = n /\ 1 \in 1..n
      BY <2>2
    <2>8. Walk(registry, v, n + 1)
      BY <2>4, <2>5, <2>6, <2>7 DEF Walk
    <2>9. Leads(registry, v, n + 1, c, e)
      BY <2>1, <2>4, <2>7, <2>8 DEF Leads
    <2> QED
      BY <2>9 DEF Comes
  <1>3. ASSUME NEW c \in C, NEW d \in C, NEW e \in C, Comes(registry, c, d),
               c \in DependenciesOf(registry, e)
        PROVE  Comes(registry, e, d)
    <2>1. PICK n, w : Leads(registry, w, n, c, d)
      BY <1>3 DEF Comes
    <2>2. PICK v : Leads(registry, v, n + 1, e, d)
      BY <1>3, <2>1, LongerWalk
    <2> QED
      BY <2>2 DEF Comes
  <1> QED
    BY <1>1, <1>2, <1>3

-----------------------------------------------------------------------------
(* What the loops compute.                                                 *)

\* What only grows is at the end whatever it was before.
LEMMA Grows ==
    ASSUME NEW N \in Nat, NEW f, \A n \in 1..N : f[n - 1] \subseteq f[n],
           NEW k \in 0..N
    PROVE  f[k] \subseteq f[N]
  <1>1. PICK S : S = {j \in 0..(N - k) : f[k] \subseteq f[k + j]}
    OBVIOUS
  <1>2. k \in Nat /\ N - k \in Nat /\ k + (N - k) = N /\ k + 0 = k
    OBVIOUS
  <1>3. 0 \in S
    BY <1>1, <1>2
  <1>4. ASSUME NEW n \in 1..(N - k), n - 1 \in S
        PROVE  n \in S
    <2>1. k + n \in 1..N /\ (k + n) - 1 = k + (n - 1) /\ n \in 0..(N - k)
      BY <1>2
    <2>2. f[k] \subseteq f[k + (n - 1)] /\ f[k + (n - 1)] \subseteq f[k + n]
      BY <1>1, <1>4, <2>1
    <2> QED
      BY <1>1, <2>1, <2>2
  <1>5. 0..(N - k) \subseteq S
    BY <1>2, <1>3, <1>4, UpTo
  <1>6. N - k \in S
    BY <1>2, <1>5
  <1> QED
    BY <1>1, <1>2, <1>6

\* The first loop finds what comes to something that is hit.
LEMMA ImpactedIs ==
    ASSUME NEW registry, NEW C, C = Chosen(registry), IsFiniteSet(C),
           NEW direct \in SUBSET C
    PROVE  Impacted(registry, direct) = {c \in C : \E d \in direct : Comes(registry, c, d)}
  <1>1. PICK N \in Nat : N = Cardinality(C)
    BY FS_CardinalityType
  <1>0. PICK f : ImpactedGoes(registry, direct, C, N, f)
    BY <1>1, ImpactedRounds
  <1>2. /\ f[0] = direct
        /\ \A n \in 1..N :
             f[n] = f[n - 1] \cup {c \in C : DependenciesOf(registry, c) \cap f[n - 1] # {}}
        /\ Impacted(registry, direct) = f[N]
    BY <1>0 DEF ImpactedGoes
  <1>3. PICK T : T = {c \in C : \E d \in direct : Comes(registry, c, d)}
    OBVIOUS
  <1>4. f[N] \subseteq T
    <2>1. PICK S : S = {n \in 0..N : f[n] \subseteq T}
      OBVIOUS
    <2>2. 0 \in S
      BY <1>2, <1>3, <2>1, ComesSteps
    <2>3. ASSUME NEW n \in 1..N, n - 1 \in S
          PROVE  n \in S
      <3>1. f[n - 1] \subseteq T /\ n \in 0..N
        BY <2>1, <2>3
      <3>2. ASSUME NEW c \in C, DependenciesOf(registry, c) \cap f[n - 1] # {}
            PROVE  c \in T
        <4>1. PICK e \in DependenciesOf(registry, c) : e \in T
          BY <3>1, <3>2
        <4>2. PICK d \in direct : Comes(registry, e, d)
          BY <1>3, <4>1
        <4>3. Comes(registry, c, d)
          BY <1>3, <4>1, <4>2, ComesSteps
        <4> QED
          BY <1>3, <4>3
      <3> QED
        BY <1>2, <2>1, <3>1, <3>2
    <2>4. 0..N \subseteq S
      BY <2>2, <2>3, UpTo
    <2> QED
      BY <2>1, <2>4
  <1>5. ASSUME NEW c \in T
        PROVE  c \in f[N]
    <2>1. PICK d \in direct : Relies(registry, c, d)
      BY <1>3, ShortWalk
    <2>2. PICK w \in Ways(registry) : w[1] = c /\ w[Len(w)] = d
      BY <2>1 DEF Relies
    <2>3. PICK m \in 1..N : m = Len(w) /\ Walk(registry, w, m)
      <3>1. Walk(registry, w, Len(w)) /\ Len(w) <= N
        BY <1>1, <2>2, WaysAreWalks
      <3>2. Len(w) \in 1..N
        BY <3>1 DEF Walk
      <3> QED
        BY <3>1, <3>2
    <2>4. PICK S : S = {k \in 0..(m - 1) : w[m - k] \in f[k]}
      OBVIOUS
    <2>5. m - 1 \in Nat /\ m - 1 \in 0..N /\ m - 0 = m /\ m - (m - 1) = 1
      OBVIOUS
    <2>6. 0 \in S
      BY <1>2, <2>2, <2>3, <2>4, <2>5
    <2>7. ASSUME NEW k \in 1..(m - 1), k - 1 \in S
          PROVE  k \in S
      <3>1. /\ m - k \in 1..(m - 1) /\ m - k \in 1..m /\ (m - k) + 1 = m - (k - 1)
            /\ k \in 1..N /\ k \in 0..(m - 1)
        BY <2>5
      <3>2. w[m - (k - 1)] \in f[k - 1]
        BY <2>4, <2>7
      <3>3. w[m - k] \in C /\ w[m - (k - 1)] \in DependenciesOf(registry, w[m - k])
        BY <2>3, <3>1 DEF Walk
      <3>4. w[m - k] \in f[k]
        BY <1>2, <3>1, <3>2, <3>3
      <3> QED
        BY <2>4, <3>1, <3>4
    <2>8. 0..(m - 1) \subseteq S
      BY <2>5, <2>6, <2>7, UpTo
    <2>9. m - 1 \in S
      BY <2>5, <2>8
    <2>10. c \in f[m - 1]
      BY <2>2, <2>4, <2>5, <2>9
    <2>11. \A n \in 1..N : f[n - 1] \subseteq f[n]
      BY <1>2
    <2> QED
      BY <2>5, <2>10, <2>11, Grows
  <1> QED
    BY <1>2, <1>3, <1>4, <1>5

\* The second loop finds what something wanted comes to.
LEMMA NeededIs ==
    ASSUME NEW registry, NEW C, C = Chosen(registry), IsFiniteSet(C),
           DependenciesChosen(registry), NEW wanted \in SUBSET C
    PROVE  Needed(registry, wanted) = {d \in C : \E c \in wanted : Comes(registry, c, d)}
  <1>1. PICK N \in Nat : N = Cardinality(C)
    BY FS_CardinalityType
  <1>0. PICK f : NeededGoes(registry, wanted, N, f)
    BY <1>1, NeededRounds
  <1>2. /\ f[0] = wanted
        /\ \A n \in 1..N :
             f[n] = f[n - 1] \cup UNION {DependenciesOf(registry, c) : c \in f[n - 1]}
        /\ Needed(registry, wanted) = f[N]
    BY <1>0 DEF NeededGoes
  <1>3. PICK T : T = {d \in C : \E c \in wanted : Comes(registry, c, d)}
    OBVIOUS
  <1>4. \A c \in C : DependenciesOf(registry, c) \subseteq C
    BY DEF DependenciesChosen, DependenciesOf
  <1>5. f[N] \subseteq T
    <2>1. PICK S : S = {n \in 0..N : f[n] \subseteq T}
      OBVIOUS
    <2>2. 0 \in S
      BY <1>2, <1>3, <2>1, ComesSteps
    <2>3. ASSUME NEW n \in 1..N, n - 1 \in S
          PROVE  n \in S
      <3>1. f[n - 1] \subseteq T /\ n \in 0..N
        BY <2>1, <2>3
      <3>2. ASSUME NEW d \in f[n - 1], NEW e \in DependenciesOf(registry, d)
            PROVE  e \in T
        <4>1. PICK c \in wanted : Comes(registry, c, d)
          BY <1>3, <3>1
        <4>2. e \in C /\ d \in C
          BY <1>3, <1>4, <3>1
        <4>3. Comes(registry, c, e)
          BY <4>1, <4>2, ComesSteps
        <4> QED
          BY <1>3, <4>2, <4>3
      <3> QED
        BY <1>2, <2>1, <3>1, <3>2
    <2>4. 0..N \subseteq S
      BY <2>2, <2>3, UpTo
    <2> QED
      BY <2>1, <2>4
  <1>6. ASSUME NEW d \in T
        PROVE  d \in f[N]
    <2>1. PICK c \in wanted : Relies(registry, c, d)
      BY <1>3, ShortWalk
    <2>2. PICK w \in Ways(registry) : w[1] = c /\ w[Len(w)] = d
      BY <2>1 DEF Relies
    <2>3. PICK m \in 1..N : m = Len(w) /\ Walk(registry, w, m)
      <3>1. Walk(registry, w, Len(w)) /\ Len(w) <= N
        BY <1>1, <2>2, WaysAreWalks
      <3>2. Len(w) \in 1..N
        BY <3>1 DEF Walk
      <3> QED
        BY <3>1, <3>2
    <2>4. PICK S : S = {k \in 0..(m - 1) : w[k + 1] \in f[k]}
      OBVIOUS
    <2>5. m - 1 \in Nat /\ m - 1 \in 0..N /\ (m - 1) + 1 = m
      OBVIOUS
    <2>6. 0 \in S
      BY <1>2, <2>2, <2>4, <2>5
    <2>7. ASSUME NEW k \in 1..(m - 1), k - 1 \in S
          PROVE  k \in S
      <3>1. /\ k \in 1..m /\ (k - 1) + 1 = k /\ k \in 1..N /\ k \in 0..(m - 1)
        BY <2>5
      <3>2. w[k] \in f[k - 1]
        BY <2>4, <2>7, <3>1
      <3>3. w[k + 1] \in DependenciesOf(registry, w[k])
        BY <2>3, <3>1 DEF Walk
      <3>4. w[k + 1] \in f[k]
        BY <1>2, <3>1, <3>2, <3>3
      <3> QED
        BY <2>4, <3>1, <3>4
    <2>8. 0..(m - 1) \subseteq S
      BY <2>5, <2>6, <2>7, UpTo
    <2>9. m - 1 \in S
      BY <2>5, <2>8
    <2>10. d \in f[m - 1]
      BY <2>2, <2>3, <2>4, <2>5, <2>9
    <2>11. \A n \in 1..N : f[n - 1] \subseteq f[n]
      BY <1>2
    <2> QED
      BY <2>5, <2>10, <2>11, Grows
  <1> QED
    BY <1>2, <1>3, <1>5, <1>6

\* What a search leaves has a walk of any length before it.
LEMMA LeftBehind ==
    ASSUME NEW registry, NEW C, C = Chosen(registry), DependenciesChosen(registry),
           NEW N \in Nat, NEW f, SettledGoes(registry, C, N, f),
           NEW n \in 0..N, NEW c \in C \ f[n]
    PROVE  \E w, d : Leads(registry, w, n + 1, c, d)
  <1>1. PICK S : S = {k \in 0..N : \A b \in C \ f[k] :
                                      \E w, d : Leads(registry, w, k + 1, b, d)}
    OBVIOUS
  <1>2. 0 \in S
    <2>1. ASSUME NEW b \in C
          PROVE  \E w, d : Leads(registry, w, 0 + 1, b, d)
      <3>1. PICK w : w = [i \in 1..1 |-> b]
        OBVIOUS
      <3>2. Leads(registry, w, 1, b, b) /\ 0 + 1 = 1
        BY <3>1 DEF Leads, Walk
      <3> QED
        BY <3>2
    <2> QED
      BY <1>1, <2>1
  <1>3. ASSUME NEW k \in 1..N, k - 1 \in S
        PROVE  k \in S
    <2>1. ASSUME NEW b \in C \ f[k]
          PROVE  \E w, d : Leads(registry, w, k + 1, b, d)
      <3>1. PICK e \in DependenciesOf(registry, b) : e \notin f[k - 1]
        BY DEF SettledGoes
      <3>2. e \in C \ f[k - 1]
        BY <3>1 DEF DependenciesChosen, DependenciesOf
      <3>3. PICK w, d : Leads(registry, w, (k - 1) + 1, e, d)
        BY <1>1, <1>3, <3>2
      <3>4. (k - 1) + 1 = k
        OBVIOUS
      <3>5. PICK v : Leads(registry, v, k + 1, b, d)
        BY <3>1, <3>3, <3>4, LongerWalk
      <3> QED
        BY <3>5
    <2>2. k \in 0..N
      OBVIOUS
    <2> QED
      BY <1>1, <2>1, <2>2
  <1>4. 0..N \subseteq S
    BY <1>2, <1>3, UpTo
  <1> QED
    BY <1>1, <1>4

\* A walk that is longer than the registry comes back to itself.
LEMMA LongWalkTurns ==
    ASSUME NEW registry, NEW N \in Nat, N = Cardinality(Chosen(registry)),
           IsFiniteSet(Chosen(registry)),
           NEW w, Walk(registry, w, N + 1)
    PROVE  Circular(registry)
  <1>1. N + 1 \in Nat /\ Cardinality(1..(N + 1)) = N + 1 /\ IsFiniteSet(1..(N + 1))
    <2>1. 1 \in Int /\ N + 1 \in Int /\ N + 1 \in Nat /\ ~(1 > N + 1) /\ (N + 1) - 1 + 1 = N + 1
      OBVIOUS
    <2>2. /\ IsFiniteSet(1..(N + 1))
          /\ Cardinality(1..(N + 1)) = IF 1 > N + 1 THEN 0 ELSE (N + 1) - 1 + 1
      BY <2>1, FS_Interval
    <2> QED
      BY <2>1, <2>2
  <1>2. w \in [1..(N + 1) -> Chosen(registry)]
    BY DEF Walk
  <1>3. PICK i \in 1..(N + 1), j \in 1..(N + 1) : i # j /\ w[i] = w[j]
    BY <1>1, <1>2, FS_PigeonHole
  <1>4. PICK a \in 1..(N + 1), b \in 1..(N + 1) : a < b /\ w[a] = w[b]
    <2>1. CASE i < j
      BY <1>3, <2>1
    <2>2. CASE j < i
      BY <1>3, <2>2
    <2> QED
      BY <1>3, <2>1, <2>2
  <1>5. PICK m \in 1..N : m = b - a /\ b = a + m /\ a \in Nat /\ b \in Nat
    BY <1>4
  <1>6. PICK v : v = [l \in 1..m |-> w[a + l - 1]]
    OBVIOUS
  <1>7. \A l \in 1..m : v[l] = w[a + l - 1] /\ a + l - 1 \in 1..N /\ a + l - 1 \in 1..(N + 1)
    BY <1>4, <1>5, <1>6
  <1>8. v = [l \in 1..m |-> v[l]] /\ \A l \in 1..m : v[l] \in Chosen(registry)
    BY <1>2, <1>6, <1>7
  <1>9. \A l \in 1..N : w[l + 1] \in DependenciesOf(registry, w[l])
    <2>1. (N + 1) - 1 = N
      OBVIOUS
    <2> QED
      BY <2>1 DEF Walk
  <1>10. ASSUME NEW l \in 1..(m - 1)
         PROVE  v[l + 1] \in DependenciesOf(registry, v[l])
    <2>1. l \in 1..m /\ l + 1 \in 1..m /\ a + (l + 1) - 1 = (a + l - 1) + 1
      BY <1>5
    <2> QED
      BY <1>7, <1>9, <2>1
  <1>11. Walk(registry, v, m)
    <2>1. m \in Nat \ {0}
      OBVIOUS
    <2> QED
      BY <1>8, <1>10, <2>1 DEF Walk
  <1>12. v \in Ways(registry) /\ Len(v) = m
    BY <1>11, WaysAreWalks
  <1>13. v[1] = w[a] /\ v[m] = w[b - 1] /\ b - 1 \in 1..N /\ (b - 1) + 1 = b
    <2>1. 1 \in 1..m /\ m \in 1..m /\ a + 1 - 1 = a /\ a + m - 1 = b - 1
      BY <1>5
    <2> QED
      BY <1>5, <1>7, <2>1
  <1>14. v[1] \in DependenciesOf(registry, v[m])
    BY <1>4, <1>9, <1>13
  <1> QED
    BY <1>12, <1>14 DEF Circular

\* The search meets itself just when a capability comes back to itself.
LEMMA CycleIs ==
    ASSUME NEW registry, IsFiniteSet(Chosen(registry)), DependenciesChosen(registry)
    PROVE  HasCycle(registry) <=> Circular(registry)
  <1>1. PICK C : C = Chosen(registry)
    OBVIOUS
  <1>2. PICK N \in Nat : N = Cardinality(C)
    BY <1>1, FS_CardinalityType
  <1>3. PICK f : SettledGoes(registry, C, N, f)
    BY <1>1, <1>2, SettledRounds
  <1>4. ASSUME HasCycle(registry) PROVE Circular(registry)
    <2>1. f[N] # C
      BY <1>1, <1>3, <1>4 DEF SettledGoes, HasCycle
    <2>2. f[N] \subseteq C
      <3>1. N = 0 \/ N \in 1..N
        OBVIOUS
      <3> QED
        BY <1>3, <3>1 DEF SettledGoes
    <2>3. PICK c \in C : c \notin f[N]
      BY <2>1, <2>2
    <2>4. N \in 0..N
      OBVIOUS
    <2>5. PICK w, d : Leads(registry, w, N + 1, c, d)
      BY <1>1, <1>3, <2>3, <2>4, LeftBehind
    <2> QED
      BY <1>1, <1>2, <2>5, LongWalkTurns DEF Leads
  <1>5. ASSUME Circular(registry) PROVE HasCycle(registry)
    <2>1. PICK w \in Ways(registry) : w[1] \in DependenciesOf(registry, w[Len(w)])
      BY <1>5 DEF Circular
    <2>2. PICK m : m = Len(w) /\ Walk(registry, w, m)
      BY <1>1, <1>2, <2>1, WaysAreWalks
    <2>3. m \in Nat \ {0} /\ 1 \in 1..m
      BY <2>2 DEF Walk
    <2>4. \A i \in 1..m : \E k \in 1..m : w[k] \in DependenciesOf(registry, w[i])
      <3> TAKE i \in 1..m
      <3>1. CASE i = m
        BY <2>1, <2>2, <2>3, <3>1
      <3>2. CASE i # m
        <4>1. i \in 1..(m - 1) /\ i + 1 \in 1..m
          BY <2>3, <3>2
        <4> QED
          BY <2>2, <4>1 DEF Walk
      <3> QED
        BY <3>1, <3>2
    <2>5. PICK S : S = {n \in 0..N : \A i \in 1..m : w[i] \notin f[n]}
      OBVIOUS
    <2>6. 0 \in S
      BY <1>3, <2>5 DEF SettledGoes
    <2>7. ASSUME NEW n \in 1..N, n - 1 \in S
          PROVE  n \in S
      <3>1. ASSUME NEW i \in 1..m, w[i] \in f[n]
            PROVE  FALSE
        <4>1. PICK k \in 1..m : w[k] \in DependenciesOf(registry, w[i])
          BY <2>4
        <4>2. w[k] \in f[n - 1]
          BY <1>3, <3>1, <4>1 DEF SettledGoes
        <4> QED
          BY <2>5, <2>7, <4>2
      <3>2. n \in 0..N
        OBVIOUS
      <3> QED
        BY <2>5, <3>1, <3>2
    <2>8. 0..N \subseteq S
      BY <2>6, <2>7, UpTo
    <2>9. w[1] \notin f[N]
      BY <2>3, <2>5, <2>8
    <2>10. w[1] \in Chosen(registry)
      BY <2>2, <2>3 DEF Walk
    <2> QED
      BY <1>3, <2>9, <2>10 DEF SettledGoes, HasCycle
  <1> QED
    BY <1>4, <1>5

-----------------------------------------------------------------------------
(* What is selected.                                                       *)

\* The closure of a selection is what the change can affect and what that
\* relies on.
LEMMA ClosureIs ==
    ASSUME NEW registry, IsFiniteSet(Chosen(registry)), DependenciesChosen(registry),
           NEW paths
    PROVE  SelectionClosure(registry, DirectMatches(registry, paths)) =
              {d \in Chosen(registry) :
                  \E c \in Affected(registry, paths) : Relies(registry, c, d)}
  <1>1. PICK direct \in SUBSET Chosen(registry) : direct = DirectMatches(registry, paths)
    BY DEF DirectMatches
  <1>2. Impacted(registry, direct) = Affected(registry, paths)
    <2>1. \A c \in Chosen(registry) :
            (\E d \in direct : Comes(registry, c, d)) <=> (\E d \in direct : Relies(registry, c, d))
      BY ShortWalk
    <2>2. Impacted(registry, direct)
            = {c \in Chosen(registry) : \E d \in direct : Comes(registry, c, d)}
      BY ImpactedIs
    <2> QED
      BY <1>1, <2>1, <2>2 DEF Affected
  <1>3. PICK wanted \in SUBSET Chosen(registry) : wanted = Affected(registry, paths)
    BY DEF Affected
  <1>4. Needed(registry, wanted)
          = {d \in Chosen(registry) : \E c \in wanted : Comes(registry, c, d)}
    BY NeededIs
  <1>5. \A d \in Chosen(registry) :
          (\E c \in wanted : Comes(registry, c, d)) <=> (\E c \in wanted : Relies(registry, c, d))
    BY ShortWalk
  <1> QED
    BY <1>1, <1>2, <1>3, <1>4, <1>5 DEF SelectionClosure

\* When something is selected, and what.
ExactFor(registry, request, outcome, paths, known) ==
    /\ Selected(outcome) <=>
         /\ DependenciesChosen(registry) /\ ~Circular(registry)
         /\ paths # {} /\ Chosen(registry) # {}
         /\ known \/ request.unknown = "FullSafe"
    /\ Selected(outcome) =>
         outcome.capabilities =
             {registry[e].definition : e \in
                 {d \in Chosen(registry) :
                     ~known \/ \E c \in Affected(registry, paths) : Relies(registry, c, d)}}

LEMMA SelectionIs ==
    ASSUME NEW registry, IsFiniteSet(Chosen(registry)), NEW request,
           NEW outcome, outcome = SelectTargetedRerun(registry, request),
           NEW paths, paths = LogicalPaths(request.manifest),
           NEW known, known = (UnknownPaths(registry, paths) = {})
    PROVE  ExactFor(registry, request, outcome, paths, known)
  <1> USE DEF ExactFor
  <1>1. CASE ~DependenciesChosen(registry)
    <2>1. outcome.code = "MissingDependency"
      BY <1>1 DEF SelectTargetedRerun, Outcome
    <2> QED
      BY <1>1, <2>1 DEF Selected
  <1>2. CASE DependenciesChosen(registry) /\ HasCycle(registry)
    <2>1. outcome.code = "DependencyCycle"
      BY <1>2 DEF SelectTargetedRerun, Outcome
    <2>2. Circular(registry)
      BY <1>2, CycleIs
    <2> QED
      BY <2>1, <2>2 DEF Selected
  <1>3. CASE DependenciesChosen(registry) /\ ~HasCycle(registry)
    <2>1. ~Circular(registry)
      BY <1>3, CycleIs
    <2>2. CASE paths = {} \/ Chosen(registry) = {}
      <3>1. outcome.code \in {"ZeroChangedPaths", "EmptyRegistry", "UnknownPath"}
        BY <1>3, <2>2 DEF SelectTargetedRerun, Outcome
      <3> QED
        BY <2>2, <3>1 DEF Selected
    <2>3. CASE paths # {} /\ Chosen(registry) # {} /\ known
      <3>1. outcome = Outcome("Targeted",
                        SelectionClosure(registry, DirectMatches(registry, paths)), registry)
        BY <1>3, <2>3 DEF SelectTargetedRerun
      <3>2. outcome.code = "Targeted" /\ outcome.capabilities = {registry[e].definition : e \in
                        SelectionClosure(registry, DirectMatches(registry, paths))}
        BY <3>1 DEF Outcome
      <3>3. SelectionClosure(registry, DirectMatches(registry, paths)) =
              {d \in Chosen(registry) :
                  ~known \/ \E c \in Affected(registry, paths) : Relies(registry, c, d)}
        BY <1>3, <2>3, ClosureIs
      <3> QED
        BY <1>3, <2>1, <2>3, <3>2, <3>3 DEF Selected
    <2>4. CASE paths # {} /\ Chosen(registry) # {} /\ ~known /\ request.unknown = "FullSafe"
      <3>1. outcome = Outcome("FullSafe", Chosen(registry), registry)
        BY <1>3, <2>4 DEF SelectTargetedRerun
      <3>2. outcome.code = "FullSafe"
            /\ outcome.capabilities = {registry[e].definition : e \in Chosen(registry)}
        BY <3>1 DEF Outcome
      <3>3. Chosen(registry) =
              {d \in Chosen(registry) :
                  ~known \/ \E c \in Affected(registry, paths) : Relies(registry, c, d)}
        BY <2>4
      <3> QED
        BY <1>3, <2>1, <2>4, <3>2, <3>3 DEF Selected
    <2>5. CASE paths # {} /\ Chosen(registry) # {} /\ ~known /\ request.unknown # "FullSafe"
      <3>1. outcome.code = "UnknownPath"
        BY <1>3, <2>5 DEF SelectTargetedRerun, Outcome
      <3> QED
        BY <2>5, <3>1 DEF Selected
    <2> QED
      BY <2>2, <2>3, <2>4, <2>5
  <1> QED
    BY <1>1, <1>2, <1>3

LEMMA ChosenIsFinite ==
    ASSUME NEW registry, DOMAIN registry = CapabilityIds
    PROVE  IsFiniteSet(Chosen(registry))
  BY RegistryAssumption, FS_Subset DEF Chosen

\* The loops and the search of a selection compute what is said of them without
\* loops, for every registry and every request (select_targeted_rerun,
\* validate_dependency_graph, selection_closure).
THEOREM SelectionsAreExact == EverySelectionIsExact
  <1>1. \A registry \in Registries : \A request \in RerunRequests :
          ExactFor(registry, request, SelectTargetedRerun(registry, request),
                   LogicalPaths(request.manifest),
                   UnknownPaths(registry, LogicalPaths(request.manifest)) = {})
    <2> TAKE registry \in Registries
    <2> TAKE request \in RerunRequests
    <2>1. IsFiniteSet(Chosen(registry))
      BY ChosenIsFinite DEF Registries
    <2>2. PICK outcome, paths : /\ outcome = SelectTargetedRerun(registry, request)
                                /\ paths = LogicalPaths(request.manifest)
      OBVIOUS
    <2>3. PICK known \in BOOLEAN : known = (UnknownPaths(registry, paths) = {})
      OBVIOUS
    <2>4. ExactFor(registry, request, outcome, paths, known)
      BY <2>1, <2>2, <2>3, SelectionIs
    <2> QED
      BY <2>2, <2>3, <2>4
  <1> QED
    BY <1>1, Zenon DEF EverySelectionIsExact, ExactFor

THEOREM SelectionStaysExact == AdmissionSpec => []SelectionIsExact
  <1>1. SelectionIsExact
    BY SelectionsAreExact DEF SelectionIsExact
  <1> QED
    BY <1>1, PTL

-----------------------------------------------------------------------------
(***************************************************************************)
(* What a completed goal was verified by.  The reservation keeps the bank  *)
(* as it was when the completion began, no policy is changed meanwhile and *)
(* a review that was passed stays: so what was admitted still holds when   *)
(* the line is written, whatever becomes of the source.                    *)
(***************************************************************************)

\* A selection is what was selected from its registry for its manifest.
Made(selection, request) ==
    LET outcome == SelectTargetedRerun(selection.registry, request)
    IN /\ Selected(outcome)
       /\ selection.manifest = request.manifest
       /\ selection.capabilities = outcome.capabilities

BankPart ==
    /\ DOMAIN capability = CapabilityIds
    /\ evidence = [k \in Keys |-> evidence[k]]
    /\ \A k \in Keys : evidence[k] # None => evidence[k].bundle \in Offered

PolicyPart ==
    policy # None => \A t \in Tasks : \E request \in RerunRequests : Made(policy[t], request)

CallPart ==
    /\ call.pc # "idle" => lease = Completer /\ policy # None
    /\ call.pc = "append" =>
        /\ completions = << >> /\ ReviewHolds
        /\ \E observed \in Prints :
              observed["source"] = call.source /\ MaterialAdmitted(observed)

SharesHelpers(done) ==
    \A t, u \in Tasks : t # u =>
        \A d \in done.policy[t].capabilities \cap done.policy[u].capabilities :
            d.criteria = {}

LogPart ==
    completions = << >> \/
        /\ completions = <<completions[1]>>
        /\ Covered(completions[1]) /\ SharesHelpers(completions[1])

AdmissionIInv == world \in Prints /\ BankPart /\ PolicyPart /\ CallPart /\ LogPart

\* What the declared change of a task can affect is in the task's selection.
LEMMA SelectionCovers ==
    ASSUME NEW selection, NEW request \in RerunRequests, Made(selection, request),
           DOMAIN selection.registry = CapabilityIds,
           NEW c \in Affected(selection.registry, LogicalPaths(selection.manifest))
    PROVE  selection.registry[c].definition \in selection.capabilities
  <1>1. PICK registry, outcome, paths :
            /\ registry = selection.registry
            /\ outcome = SelectTargetedRerun(registry, request)
            /\ paths = LogicalPaths(request.manifest)
    OBVIOUS
  <1>2. PICK known \in BOOLEAN : known = (UnknownPaths(registry, paths) = {})
    OBVIOUS
  <1>3. IsFiniteSet(Chosen(registry))
    BY <1>1, ChosenIsFinite
  <1>4. ExactFor(registry, request, outcome, paths, known)
    BY <1>1, <1>2, <1>3, SelectionIs
  <1>5. Selected(outcome) /\ selection.capabilities = outcome.capabilities
          /\ c \in Affected(registry, paths)
    BY <1>1 DEF Made
  <1>6. c \in Chosen(registry)
    BY <1>5 DEF Affected
  <1>7. Relies(registry, c, c)
    BY <1>3, <1>6, ComesSteps, ShortWalk
  <1> QED
    BY <1>1, <1>4, <1>5, <1>6, <1>7 DEF ExactFor

\* What is about to be written is covered.
LEMMA ReadyIsCovered ==
    ASSUME AdmissionIInv, call.pc = "append"
    PROVE  Covered(Completion) /\ SharesHelpers(Completion)
  <1>1. PICK observed \in Prints :
            observed["source"] = call.source /\ MaterialAdmitted(observed)
    BY DEF AdmissionIInv, CallPart
  <1>2. PICK done : done = Completion
    OBVIOUS
  <1>3. /\ done.registry = capability /\ done.source = call.source
        /\ done.policy = policy /\ done.review = review
        /\ \A t \in Tasks : done.rows[t] = evidence[t]
    BY <1>2 DEF Completion
  <1>4. policy # None /\ ReviewHolds
    BY DEF AdmissionIInv, CallPart
  <1>5. Tasks \subseteq Keys
    BY AdmissionAssumption
  <1>6. ASSUME NEW t \in Tasks
        PROVE  /\ Admissible(t) /\ RegistryUnchanged(policy[t])
               /\ BundleAdmitted(t, evidence[t].bundle, policy[t], observed)
               /\ BundleValid(evidence[t].bundle)
    <2>1. TaskAdmitted(t, observed)
      BY <1>1 DEF MaterialAdmitted
    <2>2. evidence[t].bundle \in Offered
      BY <1>5, <2>1 DEF AdmissionIInv, BankPart, TaskAdmitted, Admissible
    <2> QED
      BY <2>1, <2>2, OfferedValid DEF TaskAdmitted
  <1>7. ASSUME NEW x \in Goal
        PROVE  \E t \in Tasks : x \in DOMAIN done.rows[t].bundle.results
                                  /\ done.rows[t].bundle.results[x] = "Pass"
    <2>1. PICK t \in Tasks : x \in DOMAIN Behavior[t]
      BY <1>1 DEF MaterialAdmitted, GoalCovered
    <2> QED
      BY <1>3, <1>6, <2>1 DEF BundleAdmitted, BundleValid
  <1>8. ASSUME NEW t \in Tasks
        PROVE  /\ done.rows[t] # None /\ done.rows[t].causes = {}
               /\ done.rows[t].bundle.prints["source"] = done.source
               /\ \A c \in Affected(done.registry, LogicalPaths(done.policy[t].manifest)) :
                       done.registry[c].definition \in done.rows[t].bundle.capabilities
    <2>1. done.rows[t] # None /\ done.rows[t].causes = {}
      BY <1>3, <1>6 DEF Admissible
    <2>2. done.rows[t].bundle.prints["source"] = done.source
      BY <1>1, <1>3, <1>6 DEF BundleAdmitted
    <2>3. PICK request \in RerunRequests : Made(policy[t], request)
      BY <1>4 DEF AdmissionIInv, PolicyPart
    <2>4. policy[t].registry = capability /\ DOMAIN policy[t].registry = CapabilityIds
      BY <1>6 DEF RegistryUnchanged, AdmissionIInv, BankPart
    <2>5. \A c \in Affected(policy[t].registry, LogicalPaths(policy[t].manifest)) :
              policy[t].registry[c].definition \in policy[t].capabilities
      BY <2>3, <2>4, SelectionCovers
    <2>6. evidence[t].bundle.capabilities = policy[t].capabilities
      BY <1>6 DEF BundleAdmitted
    <2> QED
      BY <1>3, <2>1, <2>2, <2>4, <2>5, <2>6
  <1>9. Reviewed # None => done.review = done.rows[Reviewed]
    BY <1>3, <1>4, AdmissionAssumption DEF ReviewHolds
  <1>10. Covered(done)
    BY <1>7, <1>8, <1>9 DEF Covered
  <1>11. SharesHelpers(done)
    <2> SUFFICES ASSUME NEW t \in Tasks, NEW u \in Tasks, t # u,
                        NEW d \in policy[t].capabilities, d \in policy[u].capabilities
                 PROVE  d.criteria = {}
      BY <1>3 DEF SharesHelpers
    <2>1. d.criteria \subseteq DOMAIN Behavior[t] /\ d.criteria \subseteq DOMAIN Behavior[u]
      BY <1>6 DEF BundleAdmitted, NoForeignCriteria
    <2>2. DOMAIN Behavior[t] \cap DOMAIN Behavior[u] = {}
      BY <1>1 DEF MaterialAdmitted, GoalCovered
    <2> QED
      BY <2>1, <2>2
  <1> QED
    BY <1>2, <1>10, <1>11

LEMMA AdmissionInitially == AdmissionInit => AdmissionIInv
  <1> SUFFICES ASSUME AdmissionInit
               PROVE  AdmissionIInv
    OBVIOUS
  <1>1. world \in Prints /\ policy = None /\ completions = << >>
    BY DEF AdmissionInit
  <1>2. BankPart
    BY DEF AdmissionInit, BankPart, Nothing
  <1>3. call.pc = "idle"
    BY DEF AdmissionInit, NoCall
  <1> QED
    BY <1>1, <1>2, <1>3 DEF AdmissionIInv, PolicyPart, CallPart, LogPart

\* While the completer is idle nothing is asked of its call, and a step that
\* leaves the runtime and its log alone keeps what is said of them.
LEMMA IdleCall ==
    ASSUME AdmissionIInv, world' \in Prints, BankPart', call'.pc = "idle",
           PolicyPart', UNCHANGED completions
    PROVE  AdmissionIInv'
  BY DEF AdmissionIInv, CallPart, LogPart, Covered, SharesHelpers

\* A write of the bank finds no reservation, so no completion is under way.
LEMMA BankWriteKeeps ==
    ASSUME AdmissionIInv, lease = None, UNCHANGED <<logVars, runtimeVars>>, BankPart'
    PROVE  AdmissionIInv'
  <1>1. call.pc = "idle" /\ call' = call
    BY AdmissionAssumption DEF AdmissionIInv, CallPart, runtimeVars
  <1>2. world' \in Prints /\ PolicyPart' /\ UNCHANGED completions
    BY DEF AdmissionIInv, PolicyPart, logVars, runtimeVars, Made
  <1> QED
    BY <1>1, <1>2, IdleCall

\* A row that is bound to a key, for a bundle that a caller may come with.
LEMMA BindKeeps ==
    ASSUME BankPart, NEW k \in Keys, NEW row, BindEvidence(k, row),
           row.bundle \in Offered, UNCHANGED capability
    PROVE  BankPart'
  <1>1. evidence' = [evidence EXCEPT ![k] = row]
    BY DEF BindEvidence
  <1>2. /\ evidence' = [j \in Keys |-> evidence'[j]] /\ evidence'[k] = row
        /\ \A j \in Keys : j # k => evidence'[j] = evidence[j]
    BY <1>1 DEF BankPart
  <1> QED
    BY <1>2 DEF BankPart

LEMMA RegisterKeeps ==
    ASSUME AdmissionIInv, NEW d \in Registered, Register(d)
    PROVE  AdmissionIInv'
  <1>1. lease = None /\ UNCHANGED <<logVars, runtimeVars>> /\ UNCHANGED evidence
    BY DEF Register, CasCapability
  <1>2. PICK row : capability' = [capability EXCEPT ![d.id] = row]
    BY DEF Register, CasCapability
  <1>3. BankPart'
    BY <1>1, <1>2 DEF AdmissionIInv, BankPart
  <1> QED
    BY <1>1, <1>3, BankWriteKeeps

LEMMA ChooseKeeps ==
    ASSUME AdmissionIInv, NEW b \in Offered, Choose(b)
    PROVE  AdmissionIInv'
  <1>1. lease = None /\ UNCHANGED <<logVars, runtimeVars>> /\ UNCHANGED capability
    BY DEF Choose, CasEvidence
  <1>2. PICK row : row = NextEvidence(b.key, b, {}) /\ BindEvidence(b.key, row)
    BY DEF Choose, CasEvidence, ApplyBundleCas
  <1>3. row.bundle \in Offered /\ b.key \in Keys
    BY <1>2, BankAssumption DEF NextEvidence
  <1>4. BankPart'
    BY <1>1, <1>2, <1>3, BindKeeps DEF AdmissionIInv
  <1> QED
    BY <1>1, <1>4, BankWriteKeeps

LEMMA StaleKeeps ==
    ASSUME AdmissionIInv, NEW t \in Tasks, GoesStale(t)
    PROVE  AdmissionIInv'
  <1>1. PICK causes \in SUBSET Aspects : MarkStale(t, evidence[t], causes)
    BY DEF GoesStale
  <1>2. lease = None /\ UNCHANGED <<logVars, runtimeVars>> /\ UNCHANGED capability
    BY <1>1 DEF GoesStale, MarkStale
  <1>3. PICK row :
            /\ row = NextEvidence(t, evidence[t].bundle, evidence[t].causes \cup causes)
            /\ BindEvidence(t, row)
    BY <1>1 DEF MarkStale
  <1>4. t \in Keys /\ evidence[t] # None
    BY <1>1, AdmissionAssumption DEF MarkStale
  <1>5. row.bundle \in Offered
    BY <1>3, <1>4 DEF NextEvidence, AdmissionIInv, BankPart
  <1>6. BankPart'
    BY <1>2, <1>3, <1>4, <1>5, BindKeeps DEF AdmissionIInv
  <1> QED
    BY <1>2, <1>6, BankWriteKeeps

\* Neither the source nor a review takes back what was admitted.
LEMMA WorldKeeps ==
    ASSUME AdmissionIInv, EditWorld \/ PassReview
    PROVE  AdmissionIInv'
  <1>1. UNCHANGED <<policy, material, call, attempts, logVars, bankVars>> /\ world' \in Prints
    BY DEF EditWorld, PassReview, AdmissionIInv
  <1>2. BankPart' /\ PolicyPart' /\ LogPart'
    BY <1>1 DEF AdmissionIInv, BankPart, PolicyPart, LogPart, bankVars, logVars, Made,
                Covered, SharesHelpers
  <1>3. CASE call.pc # "append"
    BY <1>1, <1>2, <1>3 DEF AdmissionIInv, CallPart, bankVars
  <1>4. CASE call.pc = "append"
    <2>1. PICK observed \in Prints :
              observed["source"] = call.source /\ MaterialAdmitted(observed)
      BY <1>4 DEF AdmissionIInv, CallPart
    <2>2. MaterialAdmitted(observed)'
      BY <1>1, <2>1 DEF MaterialAdmitted, TaskAdmitted, RegistryUnchanged, Admissible, bankVars
    <2>3. ReviewHolds'
      <3>1. CASE EditWorld
        BY <1>1, <1>4, <3>1 DEF EditWorld, AdmissionIInv, CallPart, ReviewHolds, bankVars
      <3>2. CASE PassReview
        BY <1>4, <3>2 DEF PassReview, AdmissionIInv, CallPart, ReviewHolds
      <3> QED
        BY <3>1, <3>2
    <2>4. lease' = Completer /\ policy' # None /\ completions' = << >> /\ call' = call
      BY <1>1, <1>4 DEF AdmissionIInv, CallPart, bankVars, logVars
    <2>5. CallPart'
      BY <2>1, <2>2, <2>3, <2>4 DEF CallPart
    <2> QED
      BY <1>1, <1>2, <2>5 DEF AdmissionIInv
  <1> QED
    BY <1>3, <1>4

\* A new policy is what was selected now.
LEMMA OpenKeeps ==
    ASSUME AdmissionIInv, NEW requests \in Requested, OpenRuntime(requests)
    PROVE  AdmissionIInv'
  <1>1. /\ call' = call /\ call.pc = "idle" /\ UNCHANGED <<world, logVars, bankVars>>
        /\ \A t \in Tasks : Selected(SelectTargetedRerun(capability, requests[t]))
    BY DEF OpenRuntime
  <1>2. ASSUME NEW t \in Tasks
        PROVE  \E request \in RerunRequests : Made(policy'[t], request)
    <2>1. PICK request \in RerunRequests : request = requests[t]
      BY AdmissionAssumption
    <2>2. PICK outcome : outcome = SelectTargetedRerun(capability, request)
      OBVIOUS
    <2>3. policy'[t] = [manifest |-> request.manifest, registry |-> capability,
                        source |-> world["source"], capabilities |-> outcome.capabilities]
      BY <2>1, <2>2 DEF OpenRuntime
    <2>4. Selected(outcome)
      BY <1>1, <2>1, <2>2
    <2>5. Made(policy'[t], request)
      BY <2>2, <2>3, <2>4 DEF Made
    <2> QED
      BY <2>5
  <1>3. PolicyPart'
    BY <1>2 DEF PolicyPart, Made
  <1>4. BankPart' /\ world' \in Prints /\ UNCHANGED completions
    BY <1>1 DEF AdmissionIInv, BankPart, bankVars, logVars
  <1> QED
    BY <1>1, <1>3, <1>4, IdleCall

\* What the completer does between two completions.
LEMMA QuietKeeps ==
    ASSUME AdmissionIInv, Prepare \/ AttachReferences \/ RecordEvidence \/ Reconcile
    PROVE  AdmissionIInv'
  <1>1. UNCHANGED <<world, policy, completions, bankVars>> /\ call'.pc = "idle"
    BY DEF Prepare, AttachReferences, RecordEvidence, Reconcile, Steps, runtimeVars, logVars
  <1>2. BankPart' /\ PolicyPart' /\ world' \in Prints
    BY <1>1 DEF AdmissionIInv, BankPart, PolicyPart, bankVars, Made
  <1> QED
    BY <1>1, <1>2, IdleCall

\* The reservation is taken and the source is looked at.
LEMMA BeginKeeps ==
    ASSUME AdmissionIInv, BeginCompletion \/ FreezeSource
    PROVE  AdmissionIInv'
  <1>1. /\ UNCHANGED <<world, policy, completions, capability, evidence>>
        /\ lease' = Completer /\ policy # None /\ call'.pc \in {"reserved", "frozen"}
    BY DEF BeginCompletion, FreezeSource, Reserve, TakeLease, Steps, logVars, bankVars,
           AdmissionIInv, CallPart
  <1>2. BankPart' /\ PolicyPart' /\ world' \in Prints /\ LogPart'
    BY <1>1 DEF AdmissionIInv, BankPart, PolicyPart, LogPart, Made, Covered, SharesHelpers
  <1>3. CallPart'
    BY <1>1 DEF CallPart
  <1> QED
    BY <1>2, <1>3 DEF AdmissionIInv

\* The reservation ends, whoever has it.
LEMMA EndKeeps ==
    ASSUME EndReservation
    PROVE  UNCHANGED <<capability, evidence>>
  BY DEF EndReservation, ReleaseLease, bankVars

LEMMA AdmitKeeps ==
    ASSUME AdmissionIInv, Admit
    PROVE  AdmissionIInv'
  <1>1. /\ UNCHANGED <<world, policy, review, completions>>
        /\ call.pc = "frozen" /\ lease = Completer /\ policy # None
    BY DEF Admit, logVars, AdmissionIInv, CallPart
  <1>2. CASE CompletionFits
    <2>1. call'.pc = "append" /\ call'.source = call.source /\ UNCHANGED bankVars
      BY <1>2 DEF Admit, Steps
    <2>2. BankPart' /\ PolicyPart' /\ world' \in Prints /\ LogPart'
      BY <1>1, <2>1 DEF AdmissionIInv, BankPart, PolicyPart, LogPart, bankVars, Made,
                        Covered, SharesHelpers
    <2>3. world["source"] = call'.source /\ MaterialAdmitted(world)' /\ ReviewHolds'
            /\ completions' = << >> /\ world' = world
      BY <1>1, <1>2, <2>1 DEF CompletionFits, CompletionReplays, MaterialAdmitted, TaskAdmitted,
                              RegistryUnchanged, Admissible, ReviewHolds, bankVars
    <2>4. CallPart'
      BY <1>1, <2>1, <2>2, <2>3 DEF CallPart, bankVars
    <2> QED
      BY <2>2, <2>4 DEF AdmissionIInv
  <1>3. CASE ~CompletionFits
    <2>1. call'.pc = "idle" /\ UNCHANGED <<capability, evidence>>
      BY <1>3, EndKeeps DEF Admit, Steps
    <2>2. BankPart' /\ PolicyPart' /\ world' \in Prints
      BY <1>1, <2>1 DEF AdmissionIInv, BankPart, PolicyPart, Made
    <2> QED
      BY <1>1, <2>1, <2>2, IdleCall
  <1> QED
    BY <1>2, <1>3

\* What was admitted is what is written.
LEMMA CompleteKeeps ==
    ASSUME AdmissionIInv, Complete \/ CompleteUnanswered
    PROVE  AdmissionIInv'
  <1>1. /\ UNCHANGED <<world, policy, review, capability, evidence>>
        /\ call.pc = "append" /\ call'.pc = "idle"
    BY EndKeeps DEF Complete, CompleteUnanswered, AppendCompletion, Steps
  <1>2. BankPart' /\ PolicyPart' /\ world' \in Prints
    BY <1>1 DEF AdmissionIInv, BankPart, PolicyPart, Made
  <1>3. CASE UNCHANGED completions
    BY <1>1, <1>2, <1>3, IdleCall
  <1>4. CASE completions' = Append(completions, Completion)
    <2>1. PICK done, S : done = Completion /\ S = {done}
      OBVIOUS
    <2>2. completions = << >> /\ << >> \in Seq(S) /\ done \in S
      BY <1>1, <2>1 DEF AdmissionIInv, CallPart
    <2>3. completions' = <<done>> /\ completions'[1] = done
      BY <1>4, <2>1, <2>2
    <2>4. Covered(done) /\ SharesHelpers(done)
      BY <1>1, <2>1, ReadyIsCovered
    <2>5. LogPart'
      BY <2>3, <2>4 DEF LogPart, Covered, SharesHelpers
    <2>6. CallPart'
      BY <1>1 DEF CallPart
    <2> QED
      BY <1>2, <2>5, <2>6 DEF AdmissionIInv
  <1> QED
    BY <1>3, <1>4 DEF Complete, CompleteUnanswered, AppendCompletion

LEMMA AdmissionStep == AdmissionIInv /\ [AdmissionNext]_admissionVars => AdmissionIInv'
  <1> SUFFICES ASSUME AdmissionIInv, [AdmissionNext]_admissionVars
               PROVE  AdmissionIInv'
    OBVIOUS
  <1>1. CASE Meanwhile
    BY <1>1, WorldKeeps, RegisterKeeps, ChooseKeeps, StaleKeeps DEF Meanwhile
  <1>2. CASE CompleterStep
    BY <1>2, OpenKeeps, QuietKeeps, BeginKeeps, AdmitKeeps, CompleteKeeps DEF CompleterStep
  <1>3. CASE UNCHANGED admissionVars
    BY <1>3 DEF admissionVars, logVars, runtimeVars, bankVars, AdmissionIInv, BankPart,
                PolicyPart, CallPart, LogPart, Made, Covered, SharesHelpers, ReviewHolds,
                MaterialAdmitted, TaskAdmitted, RegistryUnchanged, Admissible
  <1> QED
    BY <1>1, <1>2, <1>3 DEF AdmissionNext

\* Whatever happens meanwhile, what is admitted is still so when it is written.
THEOREM AdmissionIsInductive == AdmissionSpec => []AdmissionIInv
  BY AdmissionInitially, AdmissionStep, PTL DEF AdmissionSpec

\* A goal that is completed was verified as a whole, at one state of the source,
\* by bundles that were current, fresh and wide enough when the completion was
\* appended (append_verified_completion, aggregate_completion_evidence,
\* admit_local_verification_completion).
THEOREM CompletionsAreCovered == AdmissionSpec => []CompletionIsCovered
  <1>1. AdmissionIInv => CompletionIsCovered
    <2> SUFFICES ASSUME AdmissionIInv, NEW i \in DOMAIN completions
                 PROVE  Covered(completions[i])
      BY DEF CompletionIsCovered
    <2>1. i = 1 /\ Covered(completions[1])
      BY DEF AdmissionIInv, LogPart
    <2> QED
      BY <2>1
  <1> QED
    BY <1>1, AdmissionIsInductive, PTL

\* Two tasks of a completed goal share no capability that serves a criterion
\* (admit_current_pass_bundle, aggregate_completion_evidence).
THEOREM TasksOnlyShareHelpers == AdmissionSpec => []TasksShareOnlyHelpers
  <1>1. AdmissionIInv => TasksShareOnlyHelpers
    <2> SUFFICES ASSUME AdmissionIInv, NEW i \in DOMAIN completions
                 PROVE  SharesHelpers(completions[i])
      BY DEF TasksShareOnlyHelpers, SharesHelpers
    <2>1. i = 1 /\ SharesHelpers(completions[1])
      BY DEF AdmissionIInv, LogPart
    <2> QED
      BY <2>1
  <1> QED
    BY <1>1, AdmissionIsInductive, PTL
=============================================================================
