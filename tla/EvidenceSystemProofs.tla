------------------------ MODULE EvidenceSystemProofs ------------------------
(***************************************************************************)
(* Theorems about the evidence system, for any keys, runs, drivers,        *)
(* requests, commands and failures: what the parts promise, they promise   *)
(* beside the others.  First the review by itself and the bank by itself;  *)
(* then the review, the classification, the commands and the verification  *)
(* in the system; and last the bank again, which all of them write to.     *)
(***************************************************************************)
EXTENDS EvidenceSystem, SequenceTheorems, WellFoundedInduction, TLAPS

-----------------------------------------------------------------------------
(***************************************************************************)
(* The independent review, for any number of drivers, any chain of repairs *)
(* and everything that others do to the evidence bank: each role is called *)
(* once, a pass stands on the admitted evidence, a successor is reviewed   *)
(* after a directive only, and the loop never asks for a step that the     *)
(* rules of the row refuse.                                                *)
(***************************************************************************)

(* The chain.                                                              *)

\* The cycle of a run is its place in the chain.
LEMMA CycleIsPlace ==
    ASSUME NEW k \in Runs
    PROVE  /\ Cycle(k) \in DOMAIN Chain /\ Chain[Cycle(k)] = k
           /\ Cycle(k) \in 1..MaxCycle /\ MaxCycle \in Nat
  <1>1. PICK i \in DOMAIN Chain : Chain[i] = k
    BY DEF Runs
  <1>2. Cycle(k) \in DOMAIN Chain /\ Chain[Cycle(k)] = k
    BY <1>1 DEF Cycle
  <1> QED
    BY <1>2, ReviewAssumption DEF MaxCycle

\* A run that is not the first repairs one that is in the chain.
LEMMA PriorIsRun ==
    ASSUME NEW k \in Runs, Cycle(k) > 1
    PROVE  Chain[Cycle(k) - 1] \in Runs
  <1>1. Cycle(k) - 1 \in DOMAIN Chain
    BY CycleIsPlace, ReviewAssumption DEF MaxCycle
  <1> QED
    BY <1>1 DEF Runs

\* No run stands in the chain twice, so that a place is a cycle.
LEMMA PlaceIsCycle ==
    ASSUME NEW i \in DOMAIN Chain
    PROVE  Chain[i] \in Runs /\ Cycle(Chain[i]) = i
  <1>1. Chain[i] \in Runs
    BY DEF Runs
  <1>2. Cycle(Chain[i]) \in DOMAIN Chain /\ Chain[Cycle(Chain[i])] = Chain[i]
    BY <1>1, CycleIsPlace
  <1> QED
    BY <1>1, <1>2, ReviewAssumption

-----------------------------------------------------------------------------
(* What the rules of the row accept.                                       *)

\* Runs are evidence keys, and none of them is None.
LEMMA RunsAreKeys == Runs \subseteq Keys /\ None \notin Runs
  BY ReviewAssumption DEF Runs

\* The row that a drive installs is accepted (install).
LEMMA InitialFits ==
    ASSUME NEW k \in Runs
    PROVE  /\ InitialReview \in Reviews /\ ReviewFits(k, InitialReview)
           /\ InitialReview.phase = "Reviewing"
           /\ ReviewAccepted(k, None, InitialReview)
  BY ReviewAssumption
     DEF InitialReview, Reviews, ReviewFits, ReviewAccepted, Phases, CallStates, CallOutcomes

\* A copy that was changed in its calls and its phase.
LEMMA AskReviewer ==
    ASSUME NEW k \in Runs, NEW c \in Reviews, ReviewFits(k, c),
           c.phase = "Reviewing", c.review = "NotStarted",
           NEW n, n = [c EXCEPT !.review = "Started"]
    PROVE  n \in Reviews /\ ReviewAccepted(k, c, n) /\ n.phase = "Reviewing" /\ n.review = "Started"
  <1>1. n \in Reviews /\ n.review = "Started" /\ n.phase = c.phase /\ n.audit = c.audit
           /\ n.auditor = c.auditor /\ n.resolution = c.resolution
    BY DEF Reviews, CallStates, CallOutcomes
  <1>2. ReviewFits(k, n)
    BY <1>1 DEF ReviewFits, Valid
  <1>3. ReviewSucceeds(c, n)
    BY <1>1 DEF ReviewSucceeds, ReviewFits, CallAdvances, TerminalPhases
  <1> QED
    BY <1>1, <1>2, <1>3, ReviewAssumption DEF ReviewAccepted

\* The same for the auditor.
LEMMA AskAuditor ==
    ASSUME NEW k \in Runs, NEW c \in Reviews, ReviewFits(k, c),
           c.phase = "Auditing", c.audit = "NotStarted",
           NEW n, n = [c EXCEPT !.audit = "Started"]
    PROVE  n \in Reviews /\ ReviewAccepted(k, c, n) /\ n.phase = "Auditing" /\ n.audit = "Started"
  <1>1. n \in Reviews /\ n.review = c.review /\ n.phase = c.phase /\ n.audit = "Started"
           /\ n.auditor = c.auditor /\ n.resolution = c.resolution
    BY DEF Reviews, CallStates, CallOutcomes
  <1>2. ReviewFits(k, n)
    BY <1>1, ReviewAssumption DEF ReviewFits, Valid, CallStates
  <1>3. ReviewSucceeds(c, n)
    BY <1>1 DEF ReviewSucceeds, ReviewFits, CallAdvances, TerminalPhases
  <1> QED
    BY <1>1, <1>2, <1>3, ReviewAssumption DEF ReviewAccepted

\* The answer of the reviewer, whatever it is, is accepted (record).
LEMMA RecordReviewer ==
    ASSUME NEW k \in Runs, NEW c \in Reviews, ReviewFits(k, c), NEW x \in CallOutcomes,
           c.phase = "Reviewing", c.review = "Started",
           NEW n, n = [c EXCEPT !.review = x]
    PROVE  n \in Reviews /\ ReviewAccepted(k, c, n) /\ n.phase = c.phase
  <1>1. n \in Reviews /\ n.review = x /\ n.phase = c.phase /\ n.audit = c.audit
           /\ n.auditor = c.auditor /\ n.resolution = c.resolution
    BY DEF Reviews, CallStates
  <1>2. ReviewFits(k, n)
    BY <1>1 DEF ReviewFits, Valid
  <1>3. ReviewSucceeds(c, n)
    BY <1>1 DEF ReviewSucceeds, ReviewFits, CallAdvances, TerminalPhases, Recorded
  <1> QED
    BY <1>1, <1>2, <1>3, ReviewAssumption DEF ReviewAccepted

\* The same for the auditor.
LEMMA RecordAuditor ==
    ASSUME NEW k \in Runs, NEW c \in Reviews, ReviewFits(k, c), NEW x \in CallOutcomes,
           c.phase = "Auditing", c.audit = "Started",
           NEW n, n = [c EXCEPT !.audit = x]
    PROVE  n \in Reviews /\ ReviewAccepted(k, c, n) /\ n.phase = c.phase
  <1>1. n \in Reviews /\ n.review = c.review /\ n.phase = c.phase /\ n.audit = x
           /\ n.auditor = c.auditor /\ n.resolution = c.resolution
    BY DEF Reviews, CallStates
  <1>2. ReviewFits(k, n)
    BY <1>1, ReviewAssumption DEF ReviewFits, Valid, CallStates
  <1>3. ReviewSucceeds(c, n)
    BY <1>1 DEF ReviewSucceeds, ReviewFits, CallAdvances, TerminalPhases, Recorded
  <1> QED
    BY <1>1, <1>2, <1>3, ReviewAssumption DEF ReviewAccepted

\* After a valid review the row goes to the auditor.
LEMMA HandToAuditor ==
    ASSUME NEW k \in Runs, NEW c \in Reviews, ReviewFits(k, c), NEW a \in Auditors,
           c.phase = "Reviewing", Valid(c.review),
           NEW n, n = [c EXCEPT !.phase = "Auditing", !.audit = "NotStarted", !.auditor = a]
    PROVE  n \in Reviews /\ ReviewAccepted(k, c, n) /\ n.phase = "Auditing"
  <1>1. n \in Reviews /\ n.review = c.review /\ n.phase = "Auditing" /\ n.audit = "NotStarted"
           /\ n.auditor = a /\ n.resolution = c.resolution
    BY DEF Reviews, CallStates, Phases
  <1>2. ReviewFits(k, n)
    BY <1>1, ReviewAssumption DEF ReviewFits, CallStates
  <1>3. ReviewSucceeds(c, n)
    BY <1>1 DEF ReviewSucceeds, ReviewFits, TerminalPhases, Recorded, Valid, CallOutcomes
  <1> QED
    BY <1>1, <1>2, <1>3, ReviewAssumption DEF ReviewAccepted

\* Two verdicts of pass resolve the row as passed.
LEMMA PassResolves ==
    ASSUME NEW k \in Runs, NEW c \in Reviews, ReviewFits(k, c), c.phase = "Auditing",
           c.review = "pass", c.audit = "pass",
           NEW n, n = [c EXCEPT !.phase = "ResolvedPass", !.resolution = "Pass"]
    PROVE  n \in Reviews /\ ReviewAccepted(k, c, n) /\ n.phase = "ResolvedPass"
  <1>1. n \in Reviews /\ n.review = c.review /\ n.phase = "ResolvedPass" /\ n.audit = c.audit
           /\ n.auditor = c.auditor /\ n.resolution = "Pass"
    BY DEF Reviews, ReviewResolutions, Phases
  <1>2. ReviewFits(k, n)
    BY <1>1 DEF ReviewFits, Valid
  <1>3. ReviewSucceeds(c, n)
    BY <1>1 DEF ReviewSucceeds, TerminalPhases
  <1> QED
    BY <1>1, <1>2, <1>3, ReviewAssumption DEF ReviewAccepted

\* Two verdicts of fail direct a repair while the budget lasts.
LEMMA RepairResolves ==
    ASSUME NEW k \in Runs, NEW c \in Reviews, ReviewFits(k, c), c.phase = "Auditing",
           c.review = "fail", c.audit = "fail", Cycle(k) # MaxCycle,
           NEW n, n = [c EXCEPT !.phase = "RepairDirected", !.resolution = "Repair"]
    PROVE  n \in Reviews /\ ReviewAccepted(k, c, n) /\ n.phase = "RepairDirected"
  <1>1. n \in Reviews /\ n.review = c.review /\ n.phase = "RepairDirected"
           /\ n.audit = c.audit /\ n.auditor = c.auditor /\ n.resolution = "Repair"
    BY DEF Reviews, ReviewResolutions, Phases
  <1>2. Cycle(k) < MaxCycle
    BY CycleIsPlace
  <1>3. ReviewFits(k, n)
    BY <1>1, <1>2 DEF ReviewFits, Valid
  <1>4. ReviewSucceeds(c, n)
    BY <1>1 DEF ReviewSucceeds, TerminalPhases
  <1> QED
    BY <1>1, <1>3, <1>4, ReviewAssumption DEF ReviewAccepted

\* The reasons with which the loop escalates, each where it does.
Escalable(k, c, reason) ==
    \/ c.phase = "Reviewing" /\ c.review = "NotStarted" /\ reason = "EvidenceInvalid"
    \/ c.phase = "Reviewing" /\ c.review = "Started" /\ reason = "ReviewerOutcomeUnknown"
    \/ c.phase = "Reviewing" /\ c.review = "failed" /\ reason = "ReviewerExecutionFailed"
    \/ c.phase = "Reviewing" /\ c.review = "invalid" /\ reason = "EvidenceInvalid"
    \/ /\ c.phase = "Auditing"
       /\ \/ c.audit = "NotStarted" /\ reason = "EvidenceInvalid"
          \/ c.audit = "Started" /\ reason = "AuditorOutcomeUnknown"
          \/ c.audit = "failed" /\ reason = "AuditorExecutionFailed"
          \/ c.audit = "invalid" /\ reason = "EvidenceInvalid"
          \/ c.review = "pass" /\ c.audit = "pass" /\ reason = "EvidenceInvalid"
          \/ /\ Valid(c.review) /\ Valid(c.audit) /\ c.review # c.audit
             /\ reason = "VerdictDisagreement"
          \/ /\ c.review = "fail" /\ c.audit = "fail" /\ Cycle(k) = MaxCycle
             /\ reason = "RepairBudgetExhausted"

\* An escalation for one of these reasons is accepted.
LEMMA EscalateFits ==
    ASSUME NEW k \in Runs, NEW c \in Reviews, ReviewFits(k, c), NEW reason,
           Escalable(k, c, reason),
           NEW n, n = Escalated(c, reason)
    PROVE  n \in Reviews /\ ReviewAccepted(k, c, n) /\ n.phase = "OwnerEscalated"
  <1>0. reason \in Reasons
    BY DEF Escalable, Reasons
  <1>1. n \in Reviews /\ n.review = c.review /\ n.phase = "OwnerEscalated" /\ n.audit = c.audit
           /\ n.auditor = c.auditor /\ n.resolution = reason
    BY <1>0 DEF Escalated, Reviews, ReviewResolutions, Phases
  <1>2. EscalationFits(k, n)
    BY <1>1, ReviewAssumption DEF EscalationFits, Escalable, ReviewFits, CallStates
  <1>3. ReviewFits(k, n)
    BY <1>0, <1>1, <1>2 DEF ReviewFits
  <1>4. ReviewSucceeds(c, n)
    BY <1>1, ReviewAssumption
       DEF ReviewSucceeds, Escalable, TerminalPhases, ReviewFits, Valid, CallStates
  <1> QED
    BY <1>1, <1>3, <1>4, ReviewAssumption DEF ReviewAccepted

-----------------------------------------------------------------------------
(* The inductive invariant: of a driver, by its place; of the copies that  *)
(* are current; of the lease; and of the calls that are under way.         *)

Asking(c) ==
    \/ c.phase = "Reviewing" /\ c.review = "Started"
    \/ c.phase = "Auditing" /\ c.audit = "Started"

DriverRecords ==
    [at : DriverPlaces, run : Runs \cup {None}, copy : Reviews \cup {None},
     auditor : Auditors \cup {None}, outcome : CallOutcomes \cup {None}, seen : Nat,
     refused : BOOLEAN]

\* What the copy of a driver is where the driver is.
Stands(x) ==
    /\ x.at # "idle" => x.run \in Runs /\ x.auditor \in Auditors
    /\ x.at = "installing" => x.copy = None
    /\ x.at \notin {"idle", "installing"} => x.copy \in Reviews /\ ReviewFits(x.run, x.copy)
    /\ x.at \in {"review", "locked review"} =>
         x.copy.phase = "Reviewing" /\ x.copy.review = "NotStarted"
    /\ x.at \in {"audit", "locked audit"} =>
         x.copy.phase = "Auditing" /\ x.copy.audit = "NotStarted"
    /\ x.at \in {"resolve", "locked resolve"} =>
         x.copy.phase = "Auditing" /\ x.copy.review = "pass" /\ x.copy.audit = "pass"
    /\ x.at \in {"calling", "recording"} => Asking(x.copy)
    /\ x.at = "committing" => Asking(x.copy) \/ x.copy.phase = "ResolvedPass"
    /\ x.at = "recording" => x.outcome \in CallOutcomes
    /\ x.at \in {"project", "logging"} => x.copy.phase = "ResolvedPass"
    /\ ~x.refused

\* What it found of the chain still holds.
Follows(x) == x.at # "idle" => RepairChainFits(x.run)

LoopTyped ==
    /\ reviews \in [Runs -> Reviews \cup {None}]
    /\ driver \in [Drivers -> DriverRecords]
    /\ fresh \subseteq Drivers

RowInv ==
    /\ LoopTyped
    /\ \A k \in Runs : reviews[k] # None => ReviewFits(k, reviews[k]) /\ RepairChainFits(k)
    /\ \A d \in Drivers : Stands(driver[d]) /\ Follows(driver[d])
    /\ \A d \in fresh : driver[d].at # "idle" /\ driver[d].copy = reviews[driver[d].run]

\* A step of one driver that leaves the rows alone.
LEMMA QuietKeeps ==
    ASSUME RowInv, NEW d \in Drivers, NEW x \in DriverRecords, Stands(x), Follows(x),
           reviews' = reviews, driver' = [driver EXCEPT ![d] = x],
           fresh' \subseteq fresh \cup {d},
           d \in fresh' => x.at # "idle" /\ x.copy = reviews[x.run]
    PROVE  RowInv'
  <1>1. LoopTyped'
    BY DEF RowInv, LoopTyped
  <1>2. \A e \in Drivers : driver'[e] = IF e = d THEN x ELSE driver[e]
    BY DEF RowInv, LoopTyped
  <1>3. \A k \in Runs : RepairChainFits(k)' <=> RepairChainFits(k)
    BY DEF RepairChainFits
  <1>4. \A k \in Runs : reviews'[k] # None => ReviewFits(k, reviews'[k]) /\ RepairChainFits(k)'
    BY <1>3 DEF RowInv
  <1>5. \A e \in Drivers : Stands(driver'[e])
    BY <1>2 DEF RowInv
  <1>6. \A e \in Drivers : Follows(driver[e])'
    BY <1>2 DEF RowInv, Follows, RepairChainFits
  <1>7. \A e \in fresh' : driver'[e].at # "idle" /\ driver'[e].copy = reviews'[driver'[e].run]
    BY <1>1, <1>2 DEF RowInv, LoopTyped
  <1> QED
    BY <1>1, <1>4, <1>5, <1>6, <1>7 DEF RowInv

\* A row that directed a repair stays as it is.
LEMMA DirectivesStay ==
    ASSUME RowInv, NEW k \in Runs, NEW n \in Reviews, ReviewAccepted(k, reviews[k], n),
           reviews' = [reviews EXCEPT ![k] = n], NEW j \in Runs, RepairChainFits(j)
    PROVE  RepairChainFits(j)'
  <1>1. CASE ~ Cycle(j) > 1
    BY <1>1 DEF RepairChainFits
  <1>2. CASE Cycle(j) > 1
    <2> DEFINE p == Chain[Cycle(j) - 1]
    <2>1. p \in Runs
      BY <1>2, PriorIsRun
    <2>2. reviews[p] # None /\ reviews[p].phase = "RepairDirected"
      BY <1>2 DEF RepairChainFits
    <2>3. p # k
      BY <2>2 DEF ReviewAccepted, ReviewSucceeds, TerminalPhases
    <2>4. reviews'[p] = reviews[p]
      BY <2>1, <2>3 DEF RowInv, LoopTyped
    <2> QED
      BY <2>2, <2>4 DEF RepairChainFits
  <1> QED
    BY <1>1, <1>2

\* A driver whose copy is current writes the row.
LEMMA WriteKeeps ==
    ASSUME RowInv, NEW d \in fresh, NEW n \in Reviews,
           ReviewAccepted(driver[d].run, driver[d].copy, n),
           reviews' = [reviews EXCEPT ![driver[d].run] = n],
           NEW x \in DriverRecords, Stands(x), x.at # "idle" => x.run = driver[d].run,
           driver' = [driver EXCEPT ![d] = x],
           fresh' \subseteq (fresh \ Outdated(driver[d].run)) \cup {d},
           d \in fresh' => x.at # "idle" /\ x.copy = n
    PROVE  RowInv'
  <1> DEFINE k == driver[d].run
  <1>0. d \in Drivers /\ k \in Runs /\ driver[d].copy = reviews[k] /\ Follows(driver[d])
           /\ RepairChainFits(k)
    BY DEF RowInv, LoopTyped, Stands, Follows
  <1>1. LoopTyped'
    BY <1>0 DEF RowInv, LoopTyped
  <1>2. \A e \in Drivers : driver'[e] = IF e = d THEN x ELSE driver[e]
    BY <1>0 DEF RowInv, LoopTyped
  <1>3. \A j \in Runs : RepairChainFits(j) => RepairChainFits(j)'
    BY <1>0, DirectivesStay
  <1>4. \A j \in Runs : reviews'[j] = IF j = k THEN n ELSE reviews[j]
    BY <1>0 DEF RowInv, LoopTyped
  <1>5. ReviewFits(k, n)
    BY DEF ReviewAccepted
  <1>6. \A j \in Runs : reviews'[j] # None => ReviewFits(j, reviews'[j]) /\ RepairChainFits(j)'
    BY <1>0, <1>3, <1>4, <1>5 DEF RowInv
  <1>7. \A e \in Drivers : Stands(driver'[e])
    BY <1>2 DEF RowInv
  <1>8. ASSUME NEW e \in Drivers PROVE Follows(driver[e])'
    <2>1. CASE driver'[e].at = "idle"
      BY <2>1 DEF Follows
    <2>2. CASE driver'[e].at # "idle"
      <3>1. PICK j \in Runs : j = driver'[e].run
        BY <1>7, <2>2 DEF Stands
      <3>2. RepairChainFits(j)
        BY <1>0, <1>2, <2>2, <3>1 DEF RowInv, Follows
      <3>3. RepairChainFits(j)'
        BY <1>3, <3>2
      <3> QED
        BY <3>1, <3>3 DEF Follows, RepairChainFits
    <2> QED
      BY <2>1, <2>2
  <1>9. \A e \in fresh' : driver'[e].at # "idle" /\ driver'[e].copy = reviews'[driver'[e].run]
    <2> TAKE e \in fresh'
    <2>1. CASE e = d
      BY <1>0, <1>2, <1>4, <2>1
    <2>2. CASE e # d
      <3>1. e \in fresh /\ e \in Drivers /\ driver[e].run # k
        BY <2>2 DEF Outdated, RunOf, RowInv, LoopTyped
      <3>2. driver[e].at # "idle" /\ driver[e].run \in Runs
        BY <3>1 DEF RowInv, Stands
      <3> QED
        BY <1>2, <1>4, <2>2, <3>1, <3>2 DEF RowInv
    <2> QED
      BY <2>1, <2>2
  <1> QED
    BY <1>1, <1>6, <1>7, <1>8, <1>9 DEF RowInv

-----------------------------------------------------------------------------
(* How a step of a driver ends, and that the invariant is kept then.       *)

\* A driver writes a row from the one that is stored, and only a driver that
\* holds the admitted evidence writes a pass.
Writes(d, n) ==
    /\ reviews' = [reviews EXCEPT ![driver[d].run] = n]
    /\ ReviewAccepted(driver[d].run, reviews[driver[d].run], n)
    /\ n.phase = "ResolvedPass" => driver[d].at = "locked resolve"

\* The copy is what is stored, or what it was.
Carries(d, x) ==
    x.at # "idle" =>
        \/ x.copy = reviews'[x.run]
        \/ driver[d].at # "idle" /\ x.run = driver[d].run /\ x.copy = driver[d].copy

Advances(d, places) ==
    /\ \/ UNCHANGED reviews
       \/ driver[d].run \in Runs /\ \E n \in Reviews : Writes(d, n)
    /\ \E x \in DriverRecords :
         x.at \in places /\ Carries(d, x) /\ driver' = [driver EXCEPT ![d] = x]

Kept(d, places) == RowInv' /\ Advances(d, places)

\* The places that neither need the lease nor lead to a call.
Open == {"idle", "installing", "resuming", "review", "audit", "resolve", "project",
         "recording"}

\* The places of Open, one by one: the provers need not expand the set.
LEMMA OpenPlaces ==
    /\ "idle" \in Open /\ "installing" \in Open /\ "resuming" \in Open /\ "review" \in Open
    /\ "audit" \in Open /\ "resolve" \in Open /\ "project" \in Open /\ "recording" \in Open
    /\ {"idle", "resuming"} \subseteq Open
  BY DEF Open

\* A step that leaves the rows alone ends where its new record says.
LEMMA QuietStep ==
    ASSUME RowInv, NEW d \in Drivers, NEW x \in DriverRecords, Stands(x), Follows(x),
           UNCHANGED reviews, driver' = [driver EXCEPT ![d] = x],
           fresh' \subseteq fresh \cup {d},
           d \in fresh' => x.at # "idle" /\ x.copy = reviews[x.run],
           Carries(d, x), NEW places, x.at \in places
    PROVE  Kept(d, places)
  <1>1. RowInv'
    BY QuietKeeps
  <1> QED
    BY <1>1 DEF Kept, Advances

\* A driver that returned stands at idle.
LEMMA NoDriveStands ==
    ASSUME NEW x, x = [NoDrive EXCEPT !.refused = FALSE]
    PROVE  x \in DriverRecords /\ Stands(x) /\ Follows(x) /\ x.at = "idle"
  BY DEF NoDrive, DriverRecords, DriverPlaces, Stands, Follows

\* A driver that returns keeps the invariant.
LEMMA ReturnKeeps ==
    ASSUME RowInv, NEW d \in Drivers, NEW reply, reply # "Refused", Answers(d, reply),
           UNCHANGED reviews, fresh' \subseteq fresh \ {d}, NEW places, "idle" \in places
    PROVE  Kept(d, places)
  <1> DEFINE x == [NoDrive EXCEPT !.refused = FALSE]
  <1>1. driver' = [driver EXCEPT ![d] = x]
    BY DEF Answers, Puts, NoDrive
  <1>2. x \in DriverRecords /\ Stands(x) /\ Follows(x) /\ x.at = "idle"
    BY NoDriveStands
  <1> HIDE DEF x
  <1>3. RowInv'
    BY <1>1, <1>2, QuietKeeps
  <1> QED
    BY <1>1, <1>2, <1>3 DEF Kept, Advances, Carries

\* So does one that goes on to another place with the copy it has.
LEMMA GoKeeps ==
    ASSUME RowInv, NEW d \in Drivers, driver[d].at # "idle",
           NEW x, x = [driver[d] EXCEPT !.at = x.at], x.at \in DriverPlaces \ {"idle"},
           Stands(x), driver' = [driver EXCEPT ![d] = x], UNCHANGED <<reviews, fresh>>,
           NEW places, x.at \in places
    PROVE  Kept(d, places)
  <1>1. driver[d] \in DriverRecords
    BY DEF RowInv, LoopTyped
  <1>2. x \in DriverRecords /\ x.run = driver[d].run /\ x.copy = driver[d].copy
    BY <1>1 DEF DriverRecords
  <1>3. Follows(x)
    BY <1>2 DEF RowInv, Follows
  <1>4. d \in fresh' => x.at # "idle" /\ x.copy = reviews[x.run]
    BY <1>2 DEF RowInv
  <1>5. RowInv'
    BY <1>2, <1>3, <1>4, QuietKeeps
  <1> QED
    BY <1>2, <1>5 DEF Kept, Advances, Carries

\* A driver gives up only what is not current: a step that the row accepts is
\* never refused.
LEMMA ReplaceKeeps ==
    ASSUME RowInv, NEW d \in Drivers, driver[d].at # "idle", NEW n \in Reviews,
           ReviewAccepted(driver[d].run, driver[d].copy, n), NEW label \in DriverPlaces \ {"idle"},
           Replaces(d, n, label),
           Stands([driver[d] EXCEPT !.at = label, !.copy = n, !.outcome = None]),
           n.phase = "ResolvedPass" => driver[d].at = "locked resolve",
           NEW places, {"idle", label} \subseteq places
    PROVE  Kept(d, places)
  <1>1. CASE d \in fresh
    <2> DEFINE x == [driver[d] EXCEPT !.at = label, !.copy = n, !.outcome = None]
    <2>1. driver[d] \in DriverRecords
      BY DEF RowInv, LoopTyped
    <2>2. x \in DriverRecords /\ x.run = driver[d].run /\ x.copy = n /\ x.at = label
      BY <2>1 DEF DriverRecords
    <2>3. /\ reviews' = [reviews EXCEPT ![driver[d].run] = n]
          /\ driver' = [driver EXCEPT ![d] = x]
          /\ fresh' = (fresh \ Outdated(driver[d].run)) \cup {d}
      BY <1>1 DEF Replaces, Applies, Stores, Puts, RunOf, CopyOf
    <2> HIDE DEF x
    <2>4. RowInv'
      BY <1>1, <2>2, <2>3, WriteKeeps DEF x
    <2>5. Writes(d, n) /\ driver[d].run \in Runs
      BY <1>1, <2>3 DEF Writes, RowInv, Stands
    <2>6. Carries(d, x)
      BY <2>2, <2>3, <2>5 DEF Carries, RowInv, LoopTyped
    <2> QED
      BY <2>2, <2>3, <2>4, <2>5, <2>6 DEF Kept, Advances
  <1>2. CASE d \notin fresh
    <2>1. Answers(d, "InProgress") /\ UNCHANGED reviews /\ fresh' = fresh \ {d}
      BY <1>2 DEF Replaces, Applies, Loses
    <2> QED
      BY <2>1, ReturnKeeps
  <1> QED
    BY <1>1, <1>2

\* A driver that writes its last row and returns.
LEMMA ConcludeKeeps ==
    ASSUME RowInv, NEW d \in Drivers, driver[d].at # "idle", NEW n \in Reviews,
           ReviewAccepted(driver[d].run, driver[d].copy, n), NEW reply, reply # "Refused",
           Concludes(d, n, reply), n.phase # "ResolvedPass", NEW places, "idle" \in places
    PROVE  Kept(d, places)
  <1>1. CASE d \in fresh
    <2> DEFINE x == [NoDrive EXCEPT !.refused = FALSE]
    <2>1. x \in DriverRecords /\ Stands(x) /\ x.at = "idle"
      BY NoDriveStands
    <2>2. /\ reviews' = [reviews EXCEPT ![driver[d].run] = n]
          /\ driver' = [driver EXCEPT ![d] = x]
          /\ fresh' = fresh \ Outdated(driver[d].run)
      BY <1>1 DEF Concludes, Applies, Stores, Answers, Puts, RunOf, CopyOf, NoDrive
    <2>3. d \notin fresh'
      BY <2>2 DEF Outdated, RunOf
    <2> HIDE DEF x
    <2>4. RowInv'
      BY <1>1, <2>1, <2>2, <2>3, WriteKeeps
    <2>5. Writes(d, n) /\ driver[d].run \in Runs
      BY <1>1, <2>2 DEF Writes, RowInv, Stands
    <2> QED
      BY <2>1, <2>2, <2>4, <2>5 DEF Kept, Advances, Carries
  <1>2. CASE d \notin fresh
    <2>1. Answers(d, "InProgress") /\ UNCHANGED reviews /\ fresh' = fresh \ {d}
      BY <1>2 DEF Concludes, Applies, Loses
    <2> QED
      BY <2>1, ReturnKeeps
  <1> QED
    BY <1>1, <1>2

\* A driver that escalates and returns.
LEMMA EscalateKeeps ==
    ASSUME RowInv, NEW d \in Drivers, driver[d].at \notin {"idle", "installing"}, NEW reason,
           Escalable(driver[d].run, driver[d].copy, reason), Escalates(d, reason),
           NEW places, "idle" \in places
    PROVE  Kept(d, places)
  <1> DEFINE n == Escalated(CopyOf(d), reason)
  <1>1. driver[d].run \in Runs /\ driver[d].copy \in Reviews
           /\ ReviewFits(driver[d].run, driver[d].copy)
    BY DEF RowInv, Stands
  <1>2. /\ n \in Reviews /\ ReviewAccepted(driver[d].run, driver[d].copy, n)
        /\ n.phase = "OwnerEscalated"
    BY <1>1, EscalateFits DEF CopyOf
  <1>3. Concludes(d, n, "OwnerEscalated")
    BY DEF Escalates
  <1> HIDE DEF n
  <1> QED
    BY <1>2, <1>3, ConcludeKeeps

-----------------------------------------------------------------------------
(* Every step keeps it.                                                    *)

\* What is known of the record of a driver that is under way.
LEMMA DriverFacts ==
    ASSUME RowInv, NEW d \in Drivers
    PROVE  /\ driver[d] \in DriverRecords /\ Stands(driver[d]) /\ Follows(driver[d])
           /\ d \in fresh => driver[d].copy = reviews[driver[d].run]
  BY DEF RowInv, LoopTyped

\* StartReview.
LEMMA StartKeeps ==
    ASSUME RowInv, NEW d \in Drivers, NEW k \in Runs, NEW a \in Auditors, StartReview(d, k, a)
    PROVE  Kept(d, Open)
  <1> DEFINE x == [NoDrive EXCEPT !.at = IF reviews[k] = None THEN "installing" ELSE "resuming",
                                  !.run = k, !.copy = reviews[k], !.auditor = a]
  <1>1. driver' = [driver EXCEPT ![d] = x] /\ reviews' = reviews /\ fresh' = fresh \cup {d}
    BY DEF StartReview, Puts
  <1>2. reviews[k] \in Reviews \cup {None} /\ (reviews[k] # None => ReviewFits(k, reviews[k]))
    BY DEF RowInv, LoopTyped
  <1>3. /\ x.at = (IF reviews[k] = None THEN "installing" ELSE "resuming")
        /\ x.run = k /\ x.copy = reviews[k] /\ x.auditor = a /\ ~x.refused
        /\ x \in DriverRecords
    BY <1>2 DEF NoDrive, DriverRecords, DriverPlaces
  <1>4. Stands(x)
    BY <1>2, <1>3 DEF Stands
  <1>5. Follows(x)
    BY <1>3 DEF StartReview, Follows
  <1> HIDE DEF x
  <1> QED
    BY <1>1, <1>3, <1>4, <1>5, QuietStep, OpenPlaces DEF Carries

\* InstallReview.
LEMMA InstallKeeps ==
    ASSUME RowInv, NEW d \in Drivers, InstallReview(d)
    PROVE  Kept(d, Open)
  <1>1. /\ driver[d].at = "installing" /\ driver[d].run \in Runs /\ driver[d].copy = None
        /\ driver[d] \in DriverRecords /\ Stands(driver[d])
    BY DriverFacts DEF InstallReview, IsAt, Stands
  <1>2. /\ InitialReview \in Reviews /\ ReviewFits(driver[d].run, InitialReview)
        /\ ReviewAccepted(driver[d].run, driver[d].copy, InitialReview)
        /\ InitialReview.phase = "Reviewing"
    BY <1>1, InitialFits
  <1>3. Stands([driver[d] EXCEPT !.at = "resuming", !.copy = InitialReview, !.outcome = None])
    BY <1>1, <1>2 DEF DriverRecords, Stands
  <1>4. Replaces(d, InitialReview, "resuming")
    BY DEF InstallReview
  <1>5. "resuming" \in DriverPlaces \ {"idle"}
    BY DEF DriverPlaces
  <1> QED
    BY <1>1, <1>2, <1>3, <1>4, <1>5, ReplaceKeeps, OpenPlaces

\* A row that is resolved already.
LEMMA TerminalKeeps ==
    ASSUME RowInv, NEW d \in Drivers, ResumeTerminal(d)
    PROVE  Kept(d, Open)
  <1>1. CASE Resumes(d, "ResolvedPass") /\ GoesOn(d, "project")
    <2> DEFINE x == [driver[d] EXCEPT !.at = "project"]
    <2>1. /\ driver[d] \in DriverRecords /\ Stands(driver[d]) /\ driver[d].at = "resuming"
          /\ driver[d].copy.phase = "ResolvedPass"
      BY <1>1, DriverFacts DEF Resumes, IsAt, CopyOf
    <2>2. x.at = "project" /\ x = [driver[d] EXCEPT !.at = x.at] /\ Stands(x)
      BY <2>1 DEF DriverRecords, Stands
    <2>3. driver' = [driver EXCEPT ![d] = x] /\ UNCHANGED <<reviews, fresh>>
      BY <1>1 DEF GoesOn, Moves, Puts
    <2>4. x.at \in DriverPlaces \ {"idle"} /\ x.at \in Open
      BY <2>2, OpenPlaces DEF DriverPlaces
    <2> HIDE DEF x
    <2> QED
      BY <2>1, <2>2, <2>3, <2>4, GoKeeps, OpenPlaces
  <1>2. CASE \E reply \in {"RepairDirected", "ProjectionConflict", "OwnerEscalated"} :
               Returns(d, reply)
    BY <1>2, ReturnKeeps, OpenPlaces DEF Returns
  <1> QED
    BY <1>1, <1>2 DEF ResumeTerminal

\* ResumeReviewing, in each state of the call of the reviewer.
LEMMA ReviewingKeeps ==
    ASSUME RowInv, NEW d \in Drivers, ResumeReviewing(d)
    PROVE  Kept(d, Open)
  <1> DEFINE c == driver[d].copy
             k == driver[d].run
  <1>1. /\ driver[d] \in DriverRecords /\ Stands(driver[d]) /\ driver[d].at = "resuming"
        /\ c \in Reviews /\ ReviewFits(k, c) /\ k \in Runs /\ c.phase = "Reviewing"
        /\ driver[d].auditor \in Auditors
    BY DriverFacts DEF ResumeReviewing, Resumes, IsAt, Stands, CopyOf
  <1>2. CASE c.review = "NotStarted"
    <2> DEFINE x == [driver[d] EXCEPT !.at = "review"]
    <2>1. x.at = "review" /\ x = [driver[d] EXCEPT !.at = x.at] /\ Stands(x)
      BY <1>1, <1>2 DEF DriverRecords, Stands
    <2>2. GoesOn(d, "review")
      BY <1>2 DEF ResumeReviewing, CopyOf
    <2>3. driver' = [driver EXCEPT ![d] = x] /\ UNCHANGED <<reviews, fresh>>
      BY <2>2 DEF GoesOn, Moves, Puts
    <2>4. x.at \in DriverPlaces \ {"idle"} /\ x.at \in Open
      BY <2>1, OpenPlaces DEF DriverPlaces
    <2> HIDE DEF x
    <2> QED
      BY <1>1, <2>1, <2>3, <2>4, GoKeeps, OpenPlaces
  <1>3. CASE c.review = "Started"
    <2>1. Escalates(d, "ReviewerOutcomeUnknown")
      BY <1>3 DEF ResumeReviewing, CopyOf, OnStarted
    <2>2. Escalable(k, c, "ReviewerOutcomeUnknown")
      BY <1>1, <1>3 DEF Escalable
    <2> QED
      BY <1>1, <2>1, <2>2, EscalateKeeps, OpenPlaces
  <1>4. CASE c.review \in CallOutcomes
    <2>1. AfterReview(d)
      BY <1>4 DEF ResumeReviewing, CopyOf, CallOutcomes
    <2>2. CASE ~Valid(c.review)
      <3>1. Escalates(d, ReviewerReason(c.review))
        BY <2>1, <2>2 DEF AfterReview, CopyOf
      <3>2. Escalable(k, c, ReviewerReason(c.review))
        BY <1>1, <1>4, <2>2 DEF Escalable, ReviewerReason, Valid, CallOutcomes
      <3> QED
        BY <1>1, <3>1, <3>2, EscalateKeeps, OpenPlaces
    <2>3. CASE Valid(c.review) /\ Returns(d, "InvalidInput")
      BY <2>3, ReturnKeeps, OpenPlaces DEF Returns
    <2>4. CASE Valid(c.review) /\ ~Returns(d, "InvalidInput")
      <3> DEFINE n == [c EXCEPT !.phase = "Auditing", !.audit = "NotStarted",
                                !.auditor = driver[d].auditor]
      <3>1. Replaces(d, n, "resuming")
        BY <2>1, <2>4 DEF AfterReview, CopyOf
      <3>0. n.phase = "Auditing"
        BY <1>1 DEF Reviews
      <3>2. n \in Reviews /\ ReviewAccepted(k, c, n)
        BY <1>1, <2>4, HandToAuditor
      <3> HIDE DEF n
      <3>3. Stands([driver[d] EXCEPT !.at = "resuming", !.copy = n, !.outcome = None])
        BY <1>1, <3>2 DEF DriverRecords, Stands, ReviewAccepted
      <3>4. "resuming" \in DriverPlaces \ {"idle"}
        BY DEF DriverPlaces
      <3> QED
        BY <1>1, <3>0, <3>1, <3>2, <3>3, <3>4, ReplaceKeeps, OpenPlaces
    <2> QED
      BY <2>2, <2>3, <2>4
  <1> QED
    BY <1>1, <1>2, <1>3, <1>4 DEF Reviews, CallStates

\* ResumeAuditing, in each state of the call of the auditor.
LEMMA AuditingKeeps ==
    ASSUME RowInv, NEW d \in Drivers, ResumeAuditing(d)
    PROVE  Kept(d, Open)
  <1> DEFINE c == driver[d].copy
             k == driver[d].run
  <1>1. /\ driver[d] \in DriverRecords /\ Stands(driver[d]) /\ driver[d].at = "resuming"
        /\ c \in Reviews /\ ReviewFits(k, c) /\ k \in Runs /\ c.phase = "Auditing"
        /\ c.audit \in CallStates /\ Valid(c.review)
    BY DriverFacts, ReviewAssumption
       DEF ResumeAuditing, Resumes, IsAt, Stands, CopyOf, ReviewFits, Reviews
  <1>2. ASSUME NEW label \in {"audit", "resolve"}, GoesOn(d, label),
               label = "audit" => c.audit = "NotStarted",
               label = "resolve" => c.review = "pass" /\ c.audit = "pass"
        PROVE  Kept(d, Open)
    <2> DEFINE x == [driver[d] EXCEPT !.at = label]
    <2>1. x.at = label /\ x = [driver[d] EXCEPT !.at = x.at] /\ Stands(x)
      BY <1>1, <1>2 DEF DriverRecords, Stands
    <2>2. driver' = [driver EXCEPT ![d] = x] /\ UNCHANGED <<reviews, fresh>>
      BY <1>2 DEF GoesOn, Moves, Puts
    <2>3. x.at \in DriverPlaces \ {"idle"} /\ x.at \in Open
      BY <2>1, OpenPlaces DEF DriverPlaces
    <2> HIDE DEF x
    <2> QED
      BY <1>1, <2>1, <2>2, <2>3, GoKeeps, OpenPlaces
  <1>3. ASSUME NEW reason, Escalates(d, reason), Escalable(k, c, reason)
        PROVE  Kept(d, Open)
    BY <1>1, <1>3, EscalateKeeps, OpenPlaces
  <1>4. CASE c.audit = "NotStarted"
    <2>1. GoesOn(d, "audit") \/ Returns(d, "ProjectionConflict")
      BY <1>4 DEF ResumeAuditing, CopyOf
    <2>2. Returns(d, "ProjectionConflict") => Kept(d, Open)
      BY ReturnKeeps, OpenPlaces DEF Returns
    <2> QED
      BY <1>2, <1>4, <2>1, <2>2
  <1>5. CASE c.audit = "Started"
    <2>1. Escalates(d, "AuditorOutcomeUnknown")
      BY <1>5 DEF ResumeAuditing, CopyOf, OnStarted
    <2> QED
      BY <1>1, <1>3, <1>5, <2>1 DEF Escalable
  <1>6. CASE c.audit = "failed"
    <2>1. Escalates(d, "AuditorExecutionFailed")
      BY <1>6 DEF ResumeAuditing, CopyOf
    <2> QED
      BY <1>1, <1>3, <1>6, <2>1 DEF Escalable
  <1>7. CASE c.audit = "invalid"
    <2>1. Escalates(d, "EvidenceInvalid")
      BY <1>7 DEF ResumeAuditing, CopyOf
    <2> QED
      BY <1>1, <1>3, <1>7, <2>1 DEF Escalable
  <1>8. CASE c.review = "pass" /\ c.audit = "pass"
    <2>1. GoesOn(d, "resolve")
      BY <1>8 DEF ResumeAuditing, CopyOf
    <2> QED
      BY <1>2, <1>8, <2>1
  <1>9. CASE Valid(c.audit) /\ ~(c.review = "pass" /\ c.audit = "pass")
    <2>1. Resolve(d)
      BY <1>9 DEF ResumeAuditing, CopyOf, Valid
    <2>2. CASE c.review # c.audit
      <3>1. Escalates(d, "VerdictDisagreement")
        BY <2>1, <2>2 DEF Resolve, CopyOf
      <3> QED
        BY <1>1, <1>3, <1>9, <2>2, <3>1 DEF Escalable
    <2>3. CASE c.review = c.audit /\ Cycle(k) = MaxCycle
      <3>1. Escalates(d, "RepairBudgetExhausted")
        BY <2>1, <2>3 DEF Resolve, CopyOf, RunOf
      <3> QED
        BY <1>1, <1>3, <1>9, <2>3, <3>1 DEF Escalable, Valid
    <2>4. CASE c.review = c.audit /\ Cycle(k) # MaxCycle
      <3> DEFINE n == [c EXCEPT !.phase = "RepairDirected", !.resolution = "Repair"]
      <3>1. Returns(d, "InvalidInput") \/ Concludes(d, n, "RepairDirected")
        BY <2>1, <2>4 DEF Resolve, CopyOf, RunOf
      <3>2. Returns(d, "InvalidInput") => Kept(d, Open)
        BY ReturnKeeps, OpenPlaces DEF Returns
      <3>3. c.review = "fail" /\ c.audit = "fail"
        BY <1>1, <1>9, <2>4 DEF Valid
      <3>4. n \in Reviews /\ ReviewAccepted(k, c, n) /\ n.phase = "RepairDirected"
        BY <1>1, <2>4, <3>3, RepairResolves
      <3> HIDE DEF n
      <3> QED
        BY <1>1, <3>1, <3>2, <3>4, ConcludeKeeps, OpenPlaces
    <2> QED
      BY <2>2, <2>3, <2>4
  <1> QED
    BY <1>1, <1>4, <1>5, <1>6, <1>7, <1>8, <1>9 DEF CallStates, CallOutcomes, Valid

\* What is logged of a run.
Events == [kind : {"review", "audit", "other"}, sequence : Nat]
LogTyped == decisions \in [Runs -> Seq(Events)]

\* LockEvidence that finds the evidence as it was admitted.
LEMMA LockKeeps ==
    ASSUME RowInv, LogTyped, NEW d \in Drivers, LockEvidence(d)
    PROVE  Kept(d, {"locked review", "locked audit", "locked resolve", "logging"})
  <1>1. driver[d] \in DriverRecords /\ Stands(driver[d]) /\ driver[d].at \in LeasePlaces
        /\ driver[d].run \in Runs /\ UNCHANGED <<reviews, fresh>>
    BY DriverFacts DEF LockEvidence, LeasePlaces, Stands
  <1>2. CASE driver[d].at = "project"
    <2> DEFINE x == [driver[d] EXCEPT !.at = "logging", !.seen = Len(decisions[RunOf(d)])]
    <2>1. driver' = [driver EXCEPT ![d] = x]
      BY <1>2 DEF LockEvidence, IsAt, Puts
    <2>2. Len(decisions[RunOf(d)]) \in Nat
      BY <1>1 DEF LogTyped, RunOf
    <2>3. /\ x \in DriverRecords /\ x.at = "logging"
          /\ x.run = driver[d].run /\ x.copy = driver[d].copy
      BY <1>1, <2>2 DEF DriverRecords, DriverPlaces
    <2>4. Stands(x)
      BY <1>1, <1>2, <2>2 DEF Stands, DriverRecords
    <2>5. Follows(x) /\ (d \in fresh' => x.at # "idle" /\ x.copy = reviews[x.run])
      BY <1>1, <1>2, <2>3, DriverFacts DEF Follows
    <2>6. Carries(d, x)
      BY <1>2, <2>3 DEF Carries
    <2> HIDE DEF x
    <2> QED
      BY <1>1, <2>1, <2>3, <2>4, <2>5, <2>6, QuietStep
  <1>3. CASE driver[d].at # "project"
    <2> DEFINE x == [driver[d] EXCEPT !.at = Locked(@)]
    <2>1. driver' = [driver EXCEPT ![d] = x]
      BY <1>3 DEF LockEvidence, IsAt, Puts
    <2>2. x.at = Locked(driver[d].at) /\ x = [driver[d] EXCEPT !.at = x.at]
      BY <1>1 DEF DriverRecords
    <2> HIDE DEF x
    <2>3. /\ x.run = driver[d].run /\ x.copy = driver[d].copy /\ x.auditor = driver[d].auditor
          /\ x.outcome = driver[d].outcome /\ x.refused = driver[d].refused
      BY <1>1 DEF DriverRecords, x
    <2>4. \/ driver[d].at = "review" /\ x.at = "locked review"
          \/ driver[d].at = "audit" /\ x.at = "locked audit"
          \/ driver[d].at = "resolve" /\ x.at = "locked resolve"
      BY <1>1, <1>3, <2>2 DEF LeasePlaces, Locked
    <2>5. /\ x.at \in DriverPlaces \ {"idle"}
          /\ x.at \in {"locked review", "locked audit", "locked resolve", "logging"}
      BY <2>4 DEF DriverPlaces
    <2>6. Stands(x)
      <3>1. ReviewFits(x.run, x.copy)
        BY <1>1, <2>3 DEF Stands, LeasePlaces
      <3>2. CASE driver[d].at = "review" /\ x.at = "locked review"
        BY <1>1, <2>3, <3>1, <3>2 DEF Stands
      <3>3. CASE driver[d].at = "audit" /\ x.at = "locked audit"
        BY <1>1, <2>3, <3>1, <3>3 DEF Stands
      <3>4. CASE driver[d].at = "resolve" /\ x.at = "locked resolve"
        BY <1>1, <2>3, <3>1, <3>4 DEF Stands
      <3> QED
        BY <2>4, <3>2, <3>3, <3>4
    <2> QED
      BY <1>1, <2>1, <2>2, <2>5, <2>6, GoKeeps DEF LeasePlaces
  <1> QED
    BY <1>2, <1>3

\* LockEvidence that cannot take the lease or finds other evidence.
LEMMA LockFailsKeeps ==
    ASSUME RowInv, NEW d \in Drivers, LockFails(d)
    PROVE  Kept(d, Open)
  <1>1. Stands(driver[d]) /\ driver[d].at \in LeasePlaces
    BY DriverFacts DEF LockFails
  <1>2. CASE driver[d].at = "project"
    BY <1>2, ReturnKeeps, OpenPlaces DEF LockFails, IsAt, Returns
  <1>3. CASE driver[d].at # "project"
    <2>1. Escalates(d, "EvidenceInvalid")
      BY <1>3 DEF LockFails, IsAt
    <2>2. Escalable(driver[d].run, driver[d].copy, "EvidenceInvalid")
      BY <1>1, <1>3 DEF Escalable, Stands, LeasePlaces
    <2> QED
      BY <1>1, <2>1, <2>2, EscalateKeeps, OpenPlaces DEF LeasePlaces
  <1> QED
    BY <1>2, <1>3

\* ReplaceLocked: the write of the row under the lease.
LEMMA ReplaceLockedKeeps ==
    ASSUME RowInv, NEW d \in Drivers, ReplaceLocked(d)
    PROVE  Kept(d, {"idle", "committing"})
  <1> DEFINE c == driver[d].copy
             k == driver[d].run
  <1>1. /\ driver[d] \in DriverRecords /\ Stands(driver[d])
        /\ driver[d].at \in {"locked review", "locked audit", "locked resolve"}
        /\ k \in Runs /\ c \in Reviews /\ ReviewFits(k, c)
    BY DriverFacts DEF ReplaceLocked, IsAt, Stands
  <1>2. PICK n \in Reviews :
             /\ ReviewAccepted(k, c, n)
             /\ Asking(n) \/ (n.phase = "ResolvedPass" /\ driver[d].at = "locked resolve")
             /\ Replaces(d, n, "committing")
    <2>1. CASE driver[d].at = "locked review"
      <3> DEFINE n == [c EXCEPT !.review = "Started"]
      <3>1. Replaces(d, n, "committing")
        BY <2>1 DEF ReplaceLocked, IsAt, CopyOf
      <3>2. /\ n \in Reviews /\ ReviewAccepted(k, c, n)
            /\ Asking(n) \/ (n.phase = "ResolvedPass" /\ driver[d].at = "locked resolve")
        BY <1>1, <2>1, AskReviewer DEF Stands, Asking
      <3> QED
        BY <3>1, <3>2
    <2>2. CASE driver[d].at = "locked audit"
      <3> DEFINE n == [c EXCEPT !.audit = "Started"]
      <3>1. Replaces(d, n, "committing")
        BY <2>2 DEF ReplaceLocked, IsAt, CopyOf
      <3>2. /\ n \in Reviews /\ ReviewAccepted(k, c, n)
            /\ Asking(n) \/ (n.phase = "ResolvedPass" /\ driver[d].at = "locked resolve")
        BY <1>1, <2>2, AskAuditor DEF Stands, Asking
      <3> QED
        BY <3>1, <3>2
    <2>3. CASE driver[d].at = "locked resolve"
      <3> DEFINE n == [c EXCEPT !.phase = "ResolvedPass", !.resolution = "Pass"]
      <3>1. Replaces(d, n, "committing")
        BY <2>3 DEF ReplaceLocked, IsAt, CopyOf
      <3>2. /\ n \in Reviews /\ ReviewAccepted(k, c, n)
            /\ Asking(n) \/ (n.phase = "ResolvedPass" /\ driver[d].at = "locked resolve")
        BY <1>1, <2>3, PassResolves DEF Stands
      <3> QED
        BY <3>1, <3>2
    <2> QED
      BY <1>1, <2>1, <2>2, <2>3
  <1>3. Stands([driver[d] EXCEPT !.at = "committing", !.copy = n, !.outcome = None])
    BY <1>1, <1>2 DEF Stands, DriverRecords, ReviewAccepted
  <1>4. "committing" \in DriverPlaces \ {"idle"}
    BY DEF DriverPlaces
  <1> QED
    BY <1>1, <1>2, <1>3, <1>4, ReplaceKeeps DEF Asking

\* CommitLease.
LEMMA CommitKeeps ==
    ASSUME RowInv, NEW d \in Drivers, CommitLease(d)
    PROVE  Kept(d, {"project", "calling"})
  <1> DEFINE label == IF driver[d].copy.phase = "ResolvedPass" THEN "project" ELSE "calling"
             x == [driver[d] EXCEPT !.at = label]
  <1>1. driver[d] \in DriverRecords /\ Stands(driver[d]) /\ driver[d].at = "committing"
    BY DriverFacts DEF CommitLease, IsAt
  <1>2. x.at = label /\ x = [driver[d] EXCEPT !.at = x.at]
    BY <1>1 DEF DriverRecords
  <1>3. Stands(x)
    BY <1>1, <1>2 DEF Stands, DriverRecords
  <1>4. driver' = [driver EXCEPT ![d] = x] /\ UNCHANGED <<reviews, fresh>>
    BY DEF CommitLease, Moves, Puts, CopyOf
  <1>5. x.at \in DriverPlaces \ {"idle"} /\ x.at \in {"project", "calling"}
    BY <1>2 DEF DriverPlaces
  <1> HIDE DEF x
  <1> QED
    BY <1>1, <1>2, <1>3, <1>4, <1>5, GoKeeps

\* InvokeRole.
LEMMA InvokeKeeps ==
    ASSUME RowInv, NEW d \in Drivers, InvokeRole(d)
    PROVE  Kept(d, Open)
  <1>1. CASE Returns(d, "Executor")
    BY <1>1, ReturnKeeps, OpenPlaces DEF Returns
  <1>2. CASE ~Returns(d, "Executor")
    <2>1. PICK outcome \in CallOutcomes :
               driver' = [driver EXCEPT ![d] =
                            [driver[d] EXCEPT !.at = "recording", !.outcome = outcome]]
      BY <1>2 DEF InvokeRole, Puts
    <2> DEFINE x == [driver[d] EXCEPT !.at = "recording", !.outcome = outcome]
    <2>2. UNCHANGED <<reviews, fresh>>
      BY <1>2 DEF InvokeRole
    <2>3. driver[d] \in DriverRecords /\ Stands(driver[d]) /\ driver[d].at = "calling"
      BY DriverFacts DEF InvokeRole, IsAt
    <2>4. /\ x \in DriverRecords /\ x.at = "recording" /\ x.run = driver[d].run
          /\ x.copy = driver[d].copy
      BY <2>3 DEF DriverRecords, DriverPlaces
    <2>5. Stands(x)
      BY <2>3 DEF Stands, DriverRecords
    <2>6. Follows(x) /\ (d \in fresh' => x.at # "idle" /\ x.copy = reviews[x.run])
      BY <2>2, <2>3, <2>4, DriverFacts DEF Follows
    <2>7. Carries(d, x) /\ x.at \in Open
      BY <2>3, <2>4, OpenPlaces DEF Carries
    <2> HIDE DEF x
    <2> QED
      BY <2>1, <2>2, <2>4, <2>5, <2>6, <2>7, QuietStep DEF x
  <1> QED
    BY <1>1, <1>2

\* RecordOutcome.
LEMMA RecordKeeps ==
    ASSUME RowInv, NEW d \in Drivers, RecordOutcome(d)
    PROVE  Kept(d, Open)
  <1> DEFINE c == driver[d].copy
             k == driver[d].run
             n == [c EXCEPT ![Role(d)] = driver[d].outcome]
  <1>1. /\ driver[d] \in DriverRecords /\ Stands(driver[d]) /\ driver[d].at = "recording"
        /\ k \in Runs /\ c \in Reviews /\ ReviewFits(k, c) /\ Asking(c)
        /\ driver[d].outcome \in CallOutcomes
    BY DriverFacts DEF RecordOutcome, IsAt, Stands
  <1>2. n \in Reviews /\ ReviewAccepted(k, c, n) /\ n.phase # "ResolvedPass"
    <2>1. CASE c.phase = "Reviewing"
      <3>1. n = [c EXCEPT !.review = driver[d].outcome]
        BY <2>1 DEF Role, CopyOf
      <3> QED
        BY <1>1, <2>1, <3>1, RecordReviewer DEF Asking
    <2>2. CASE c.phase = "Auditing"
      <3>1. n = [c EXCEPT !.audit = driver[d].outcome]
        BY <2>2 DEF Role, CopyOf
      <3> QED
        BY <1>1, <2>2, <3>1, RecordAuditor DEF Asking
    <2> QED
      BY <1>1, <2>1, <2>2 DEF Asking
  <1>3. Replaces(d, n, "resuming")
    BY DEF RecordOutcome, CopyOf
  <1> HIDE DEF n
  <1>4. Stands([driver[d] EXCEPT !.at = "resuming", !.copy = n, !.outcome = None])
    BY <1>1, <1>2 DEF Stands, DriverRecords, ReviewAccepted
  <1>5. "resuming" \in DriverPlaces \ {"idle"}
    BY DEF DriverPlaces
  <1> QED
    BY <1>1, <1>2, <1>3, <1>4, <1>5, ReplaceKeeps, OpenPlaces

\* What is left to log is a decision, of the reviewer or of the auditor.
LEMMA WantedIsDecision ==
    ASSUME NEW log, Wanted(log) # None
    PROVE  Wanted(log) \in {"review", "audit"}
  BY DEF Wanted

\* AppendDecision.
LEMMA AppendKeeps ==
    ASSUME RowInv, LogTyped, NEW d \in Drivers, AppendDecision(d)
    PROVE  Kept(d, {"idle", "logging"}) /\ LogTyped'
  <1> DEFINE k == driver[d].run
             e == Decision(Wanted(SubSeq(decisions[k], 1, driver[d].seen)), driver[d].seen + 1)
  <1>1. driver[d] \in DriverRecords /\ Stands(driver[d]) /\ driver[d].at = "logging"
        /\ k \in Runs
    BY DriverFacts DEF AppendDecision, IsAt, Stands
  <1>2. e \in Events
    BY <1>1, WantedIsDecision DEF AppendDecision, RunOf, Decision, Events, DriverRecords
  <1>3. decisions' = [decisions EXCEPT ![k] = Append(decisions[k], e)]
    BY DEF AppendDecision, RunOf
  <1> HIDE DEF e
  <1>4. LogTyped' /\ Len(decisions'[k]) \in Nat
    BY <1>1, <1>2, <1>3 DEF LogTyped
  <1>5. CASE Returns(d, "ProjectionConflict")
    BY <1>4, <1>5, ReturnKeeps DEF Returns
  <1>6. CASE ~Returns(d, "ProjectionConflict")
    <2> DEFINE x == [driver[d] EXCEPT !.seen = Len(decisions'[k])]
    <2>1. driver' = [driver EXCEPT ![d] = x] /\ UNCHANGED <<reviews, fresh>>
      BY <1>6 DEF AppendDecision, Puts, RunOf
    <2>2. /\ x \in DriverRecords /\ x.at = "logging" /\ x.run = driver[d].run
          /\ x.copy = driver[d].copy
      BY <1>1, <1>4 DEF DriverRecords
    <2>3. Stands(x)
      BY <1>1 DEF Stands, DriverRecords
    <2>4. Follows(x) /\ (d \in fresh' => x.at # "idle" /\ x.copy = reviews[x.run])
      BY <1>1, <2>1, <2>2, DriverFacts DEF Follows
    <2>5. Carries(d, x) /\ x.at \in {"idle", "logging"}
      BY <1>1, <2>2 DEF Carries
    <2> HIDE DEF x
    <2> QED
      BY <1>4, <2>1, <2>2, <2>3, <2>4, <2>5, QuietStep
  <1> QED
    BY <1>5, <1>6

\* StopDriver.
LEMMA StopKeeps ==
    ASSUME RowInv, NEW d \in Drivers, StopDriver(d)
    PROVE  Kept(d, Open)
  <1> DEFINE x == [NoDrive EXCEPT !.refused = FALSE]
  <1>1. /\ x \in DriverRecords /\ Stands(x) /\ Follows(x) /\ x.at \in Open /\ x.at = "idle"
        /\ Carries(d, x)
    BY NoDriveStands, OpenPlaces DEF Carries
  <1>2. driver' = [driver EXCEPT ![d] = x]
    BY DEF StopDriver, Puts, NoDrive
  <1> HIDE DEF x
  <1> QED
    BY <1>1, <1>2, QuietStep DEF StopDriver

\* A lease that is lost before it is committed.
LEMMA CommitFailsKeeps ==
    ASSUME RowInv, NEW d \in Drivers, CommitFails(d)
    PROVE  Kept(d, Open)
  BY ReturnKeeps, OpenPlaces DEF CommitFails, Returns

\* A driver that finds nothing left to log.
LEMMA FinishKeeps ==
    ASSUME RowInv, NEW d \in Drivers, FinishLogging(d)
    PROVE  Kept(d, Open)
  BY ReturnKeeps, OpenPlaces DEF FinishLogging, Returns

-----------------------------------------------------------------------------
(* The lease: who decides under it holds it, and what was looked at under  *)
(* it still holds.                                                         *)

LockedPlaces == {"locked review", "locked audit", "locked resolve"}
Guarded == LockedPlaces \cup {"committing", "logging"}

LeaseInv ==
    \A d \in Drivers :
        /\ driver[d].at \in Guarded => lease = d
        /\ driver[d].at \in LockedPlaces => EvidenceIsAdmitted(driver[d].run)

-----------------------------------------------------------------------------
(* The calls: an invocation leaves its mark in the row before it is made,  *)
(* and one driver at a time has a call of its own to make.                 *)

CallPhases == {"Reviewing", "Auditing"}
RoleOf(p) == IF p = "Reviewing" THEN "review" ELSE "audit"
Number(k, p) == invoked[k][RoleOf(p)]

\* The row says that the role of this phase was asked.
Asked(k, p) ==
    /\ reviews[k] # None
    /\ IF p = "Reviewing" THEN reviews[k].review # "NotStarted"
       ELSE reviews[k].audit # None /\ reviews[k].audit # "NotStarted"

Calls(x, p) == x.at \in {"committing", "calling"} /\ x.copy.phase = p

CallInv ==
    /\ invoked \in [Runs -> [Roles -> 0..1]]
    /\ \A k \in Runs, p \in CallPhases : Number(k, p) # 0 => Asked(k, p)
    /\ \A d \in Drivers, p \in CallPhases :
         Calls(driver[d], p) => Number(driver[d].run, p) = 0 /\ Asked(driver[d].run, p)
    /\ \A d, e \in Drivers, p \in CallPhases :
         Calls(driver[d], p) /\ Calls(driver[e], p) /\ driver[d].run = driver[e].run => d = e

-----------------------------------------------------------------------------
(* The log: what a driver has not seen of it is not its business, and the  *)
(* run of a driver that logs has passed.                                   *)

Passed(k) == reviews[k] # None /\ reviews[k].phase = "ResolvedPass"
Lines(k) == DOMAIN decisions[k]
Kind(k, i) == decisions[k][i].kind

CopyInv ==
    \A d \in Drivers :
        driver[d].at # "idle" /\ driver[d].copy # None /\ driver[d].copy.phase = "ResolvedPass"
            => Passed(driver[d].run)

\* The lines of a run are as they should be.
LinesFit(k) ==
    /\ \A i, j \in Lines(k) : Kind(k, i) = "review" /\ Kind(k, j) = "review" => i = j
    /\ \A i, j \in Lines(k) : Kind(k, i) = "audit" /\ Kind(k, j) = "audit" => i = j
    /\ \A j \in Lines(k) : Kind(k, j) = "audit" =>
         \E i \in Lines(k) : Kind(k, i) = "review" /\ i < j
    /\ \A i \in Lines(k) : Kind(k, i) = "review" => Passed(k)

\* What came after the driver looked is not a decision.
SeesDecisions(x) ==
    x.at = "logging" =>
        /\ x.seen <= Len(decisions[x.run])
        /\ \A i \in Lines(x.run) : i > x.seen => Kind(x.run, i) = "other"

LogInv ==
    /\ \A k \in Runs : LinesFit(k)
    /\ \A d \in Drivers : SeesDecisions(driver[d])

LoopInv == RowInv /\ LogTyped /\ LeaseInv /\ CallInv /\ CopyInv /\ LogInv

\* None is neither a driver nor a row.
LEMMA NoneIsApart == None \notin Drivers /\ None \notin Reviews
  BY ReviewAssumption

-----------------------------------------------------------------------------
(* Where a step of a driver ends.                                          *)

PlacesAfter(d) ==
    IF LockEvidence(d) THEN LockedPlaces \cup {"logging"}
    ELSE IF ReplaceLocked(d) THEN {"idle", "committing"}
    ELSE IF CommitLease(d) THEN {"project", "calling"}
    ELSE IF AppendDecision(d) THEN {"idle", "logging"}
    ELSE Open

\* Every step of a driver keeps the rows and ends in one of these places.
LEMMA DriverKeeps ==
    ASSUME RowInv, LogTyped, NEW d \in Drivers, DriverStep(d)
    PROVE  Kept(d, PlacesAfter(d))
  <1>1. CASE LockEvidence(d)
    <2>1. PlacesAfter(d) = {"locked review", "locked audit", "locked resolve", "logging"}
      BY <1>1 DEF PlacesAfter, LockedPlaces
    <2> QED
      BY <1>1, <2>1, LockKeeps
  <1>2. CASE ~LockEvidence(d) /\ ReplaceLocked(d)
    BY <1>2, ReplaceLockedKeeps DEF PlacesAfter
  <1>3. CASE ~LockEvidence(d) /\ ~ReplaceLocked(d) /\ CommitLease(d)
    BY <1>3, CommitKeeps DEF PlacesAfter
  <1>4. CASE ~LockEvidence(d) /\ ~ReplaceLocked(d) /\ ~CommitLease(d) /\ AppendDecision(d)
    BY <1>4, AppendKeeps DEF PlacesAfter
  <1>5. CASE ~LockEvidence(d) /\ ~ReplaceLocked(d) /\ ~CommitLease(d) /\ ~AppendDecision(d)
    <2>1. PlacesAfter(d) = Open
      BY <1>5 DEF PlacesAfter
    <2>2. CASE \E k \in Runs, auditor \in Auditors : StartReview(d, k, auditor)
      BY <2>1, <2>2, StartKeeps
    <2>3. CASE StopDriver(d)
      BY <2>1, <2>3, StopKeeps
    <2>4. CASE DriverGoes(d)
      BY <1>5, <2>1, <2>4, InstallKeeps, TerminalKeeps, ReviewingKeeps, AuditingKeeps,
         LockFailsKeeps, CommitFailsKeeps, InvokeKeeps, RecordKeeps, FinishKeeps
         DEF DriverGoes
    <2> QED
      BY <2>2, <2>3, <2>4 DEF DriverStep
  <1> QED
    BY <1>1, <1>2, <1>3, <1>4, <1>5

\* What others do to the rows: they make copies of them out of date.
LEMMA OthersKeepRows ==
    ASSUME RowInv, UNCHANGED <<reviews, driver>>, fresh' \subseteq fresh
    PROVE  RowInv'
  BY DEF RowInv, LoopTyped, RepairChainFits, Follows

\* An event of the others leaves the log a sequence of events.
LEMMA LogStaysTyped ==
    ASSUME LogTyped, NEW k \in Runs, OtherEvent(k)
    PROVE  LogTyped'
  <1> DEFINE e == Decision("other", Len(decisions[k]) + 1)
  <1>1. decisions[k] \in Seq(Events) /\ Len(decisions[k]) \in Nat
    BY DEF LogTyped
  <1>2. e \in Events
    BY <1>1 DEF Decision, Events
  <1>3. decisions' = [decisions EXCEPT ![k] = Append(decisions[k], e)]
    BY DEF OtherEvent
  <1> HIDE DEF e
  <1> QED
    BY <1>1, <1>2, <1>3 DEF LogTyped

\* What others do to the bank is not done while a driver has its lease.
LEMMA BankStepIsApart ==
    ASSUME BankStep
    PROVE  lease \notin Drivers
  BY NoneIsApart
     DEF BankStep, Publication, Choice, Operation, SeedCapability, PublishCapability,
         PublishBundle, CasCapability, CasEvidence, PublishAndCas, MarkStale, MarkStaleIfChanged,
         Migrate, Rebuild, PersistArchive, Recover, TakeLease, ReleaseLease

\* Of the steps that are not of a driver.
LEMMA OthersStep ==
    ASSUME RowInv, LogTyped, LoopNext, ~\E d \in Drivers : DriverStep(d)
    PROVE  /\ RowInv' /\ LogTyped' /\ UNCHANGED <<reviews, driver, invoked>>
           /\ \/ UNCHANGED <<lease, evidence, admitted>>
              \/ lease \notin Drivers
           /\ UNCHANGED decisions \/ \E k \in Runs : OtherEvent(k)
  <1>0. Noisy \subseteq Runs
    BY ReviewAssumption
  <1>1. ASSUME NEW k \in Runs, AdmitCandidate(k) \/ LifecycleWrites(k) \/ OtherEvent(k)
        PROVE  /\ UNCHANGED <<reviews, driver, invoked>> /\ fresh' \subseteq fresh
               /\ \/ UNCHANGED <<lease, evidence, admitted>>
                  \/ lease \notin Drivers
               /\ UNCHANGED decisions \/ OtherEvent(k)
    BY <1>1, NoneIsApart DEF AdmitCandidate, LifecycleWrites, OtherEvent, bankVars
  <1>2. ASSUME NEW k \in Runs, AdmitCandidate(k) \/ LifecycleWrites(k) \/ OtherEvent(k)
        PROVE  RowInv' /\ LogTyped'
    BY <1>1, <1>2, OthersKeepRows, LogStaysTyped DEF LogTyped
  <1>3. ASSUME BankStep, UNCHANGED reviewVars
        PROVE  /\ RowInv' /\ LogTyped' /\ UNCHANGED <<reviews, driver, invoked, decisions>>
               /\ lease \notin Drivers
    BY <1>3, OthersKeepRows, BankStepIsApart DEF reviewVars, LogTyped
  <1> QED
    BY <1>0, <1>1, <1>2, <1>3 DEF LoopNext, ReviewStep

-----------------------------------------------------------------------------
(* The lease is kept.                                                      *)

\* A driver that moves while the lease is free or its own disturbs nobody.
LEMMA LeaseApart ==
    ASSUME LoopTyped, LeaseInv, NEW d \in Drivers, NEW x, driver' = [driver EXCEPT ![d] = x],
           UNCHANGED <<evidence, admitted>>,
           lease' = lease \/ lease = d \/ lease = None,
           x.at \in Guarded => lease' = d,
           x.at \in LockedPlaces => EvidenceIsAdmitted(x.run)
    PROVE  LeaseInv'
  <1> SUFFICES ASSUME NEW e \in Drivers
               PROVE  /\ driver'[e].at \in Guarded => lease' = e
                      /\ driver'[e].at \in LockedPlaces => EvidenceIsAdmitted(driver[e].run)'
    BY DEF LeaseInv
  <1>1. driver'[e] = IF e = d THEN x ELSE driver[e]
    BY DEF LoopTyped
  <1>2. CASE e = d
    BY <1>1, <1>2 DEF EvidenceIsAdmitted, Admissible
  <1>3. CASE e # d
    <2>1. /\ driver'[e].at \in Guarded => lease = e
          /\ driver'[e].at \in LockedPlaces => EvidenceIsAdmitted(driver[e].run)
      BY <1>1, <1>3 DEF LeaseInv
    <2>2. lease = e => lease' = e
      BY <1>3, NoneIsApart
    <2> QED
      BY <1>1, <1>3, <2>1, <2>2 DEF EvidenceIsAdmitted, Admissible
  <1> QED
    BY <1>2, <1>3

\* Steps of others.
LEMMA OthersKeepLease ==
    ASSUME LeaseInv, UNCHANGED driver,
           UNCHANGED <<lease, evidence, admitted>> \/ lease \notin Drivers
    PROVE  LeaseInv'
  <1>1. CASE UNCHANGED <<lease, evidence, admitted>>
    BY <1>1 DEF LeaseInv, EvidenceIsAdmitted, Admissible
  <1>2. CASE lease \notin Drivers
    <2>1. \A d \in Drivers : driver[d].at \notin Guarded
      BY <1>2 DEF LeaseInv
    <2> QED
      BY <2>1 DEF LeaseInv, Guarded
  <1> QED
    BY <1>1, <1>2

\* No place of Open needs the lease.
LEMMA OpenIsUnguarded ==
    /\ \A place \in Open : place \notin Guarded /\ place \notin LockedPlaces
    /\ \A place \in {"idle", "project", "calling"} :
         place \notin Guarded /\ place \notin LockedPlaces
    /\ \A place \in {"idle", "committing", "logging"} : place \notin LockedPlaces
  BY DEF Open, Guarded, LockedPlaces

\* Steps of a driver.
LEMMA DriverKeepsLease ==
    ASSUME RowInv, LogTyped, LeaseInv, NEW d \in Drivers, DriverStep(d)
    PROVE  LeaseInv'
  <1>0. LoopTyped /\ driver[d] \in DriverRecords
    BY DEF RowInv, LoopTyped
  <1>1. PICK x \in DriverRecords :
             x.at \in PlacesAfter(d) /\ driver' = [driver EXCEPT ![d] = x]
    BY DriverKeeps DEF Kept, Advances
  <1>2. driver'[d] = x
    BY <1>0, <1>1 DEF LoopTyped
  <1>3. CASE LockEvidence(d)
    <2>1. lease = None /\ lease' = d /\ EvidenceIsAdmitted(driver[d].run)
             /\ UNCHANGED <<evidence, admitted>>
      BY <1>3 DEF LockEvidence, TakeLease, RunOf
    <2>2. x.run = driver[d].run
      BY <1>0, <1>2, <1>3 DEF LockEvidence, Puts, LoopTyped, DriverRecords
    <2> QED
      BY <1>0, <1>1, <2>1, <2>2, LeaseApart
  <1>4. CASE ~LockEvidence(d) /\ ReplaceLocked(d)
    <2>1. x.at \in {"idle", "committing"}
      BY <1>1, <1>4 DEF PlacesAfter
    <2>2. lease = d
      BY <1>4 DEF ReplaceLocked, IsAt, LeaseInv, Guarded, LockedPlaces
    <2>3. (x.at # "idle" => lease' = lease) /\ UNCHANGED <<evidence, admitted>>
      BY <1>2, <1>4 DEF ReplaceLocked
    <2> QED
      BY <1>0, <1>1, <2>1, <2>2, <2>3, LeaseApart, OpenIsUnguarded
  <1>5. CASE ~LockEvidence(d) /\ ~ReplaceLocked(d) /\ CommitLease(d)
    <2>1. x.at \in {"project", "calling"}
      BY <1>1, <1>5 DEF PlacesAfter
    <2>2. lease = d /\ UNCHANGED <<evidence, admitted>>
      BY <1>5 DEF CommitLease, ReleaseLease
    <2> QED
      BY <1>0, <1>1, <2>1, <2>2, LeaseApart, OpenIsUnguarded
  <1>6. CASE ~LockEvidence(d) /\ ~ReplaceLocked(d) /\ ~CommitLease(d) /\ AppendDecision(d)
    <2>1. x.at \in {"idle", "logging"}
      BY <1>1, <1>6 DEF PlacesAfter
    <2>2. lease = d
      BY <1>6 DEF AppendDecision, IsAt, LeaseInv, Guarded
    <2>3. UNCHANGED <<evidence, admitted>> /\ (lease' = lease \/ Returns(d, "ProjectionConflict"))
      BY <1>6 DEF AppendDecision, ReleaseLease, bankVars
    <2>4. Returns(d, "ProjectionConflict") => x.at = "idle"
      BY <1>0, <1>2 DEF Returns, Answers, Puts, NoDrive, LoopTyped
    <2> QED
      BY <1>0, <1>1, <2>1, <2>2, <2>3, <2>4, LeaseApart, OpenIsUnguarded
  <1>7. CASE ~LockEvidence(d) /\ ~ReplaceLocked(d) /\ ~CommitLease(d) /\ ~AppendDecision(d)
    <2>1. x.at \in Open
      BY <1>1, <1>7 DEF PlacesAfter
    <2>2. UNCHANGED <<evidence, admitted>> /\ (lease' = lease \/ lease = d)
      BY <1>7 DEF DriverStep, DriverGoes, StartReview, StopDriver, InstallReview, ResumeTerminal,
                  ResumeReviewing, ResumeAuditing, LockFails, CommitFails, InvokeRole,
                  RecordOutcome, FinishLogging, ReleaseLease, bankVars
    <2> QED
      BY <1>0, <1>1, <2>1, <2>2, LeaseApart, OpenIsUnguarded
  <1> QED
    BY <1>3, <1>4, <1>5, <1>6, <1>7

-----------------------------------------------------------------------------
(* The calls are kept.                                                     *)

\* A role that a row says was asked stays asked in every row after it.
LEMMA AskedStays ==
    ASSUME RowInv, NEW d \in Drivers, NEW places, Advances(d, places),
           NEW k \in Runs, NEW p \in CallPhases, Asked(k, p)
    PROVE  Asked(k, p)'
  <1>1. CASE UNCHANGED reviews
    BY <1>1 DEF Asked
  <1>2. CASE driver[d].run \in Runs /\ \E n \in Reviews : Writes(d, n)
    <2>1. PICK n \in Reviews : Writes(d, n)
      BY <1>2
    <2>2. reviews'[k] = IF k = driver[d].run THEN n ELSE reviews[k]
      BY <2>1 DEF Writes, RowInv, LoopTyped
    <2>3. CASE k # driver[d].run
      BY <2>2, <2>3 DEF Asked
    <2>4. CASE k = driver[d].run
      <3> DEFINE old == reviews[k]
      <3>1. old # None /\ old \in Reviews /\ ReviewFits(k, old)
        BY DEF Asked, RowInv, LoopTyped
      <3>2. ReviewSucceeds(old, n)
        BY <2>1, <2>4, <3>1 DEF Writes, ReviewAccepted
      <3>3. old.phase = "Reviewing" \/ old.phase = "Auditing"
        BY <3>1, <3>2 DEF ReviewSucceeds, Reviews, Phases, TerminalPhases
      <3>4. CASE p = "Reviewing"
        <4>1. n.review # "NotStarted"
          BY <3>2, <3>3, <3>4
             DEF Asked, ReviewSucceeds, CallAdvances, Recorded, CallOutcomes
        <4> QED
          BY <2>2, <2>4, <3>4, <4>1, NoneIsApart DEF Asked
      <3>5. CASE p = "Auditing"
        <4>1. old.audit # None /\ old.audit # "NotStarted"
          BY <3>5 DEF Asked
        <4>2. old.phase = "Auditing"
          BY <3>1, <3>3, <4>1 DEF ReviewFits
        <4>3. n.audit # "NotStarted" /\ n.audit # None
          BY <3>2, <4>1, <4>2, ReviewAssumption
             DEF ReviewSucceeds, CallAdvances, Recorded, CallStates, CallOutcomes
        <4> QED
          BY <2>2, <2>4, <3>5, <4>3, NoneIsApart DEF Asked
      <3> QED
        BY <3>4, <3>5 DEF CallPhases
    <2> QED
      BY <2>3, <2>4
  <1> QED
    BY <1>1, <1>2 DEF Advances

\* A step of a driver after which it has no call that it had not before.
LEMMA CallsQuiet ==
    ASSUME RowInv, CallInv, NEW d \in Drivers, NEW places, Advances(d, places),
           UNCHANGED invoked, NEW x, driver' = [driver EXCEPT ![d] = x],
           \A p \in CallPhases : Calls(x, p) => Calls(driver[d], p) /\ x.run = driver[d].run
    PROVE  CallInv'
  <1>0. \A e \in Drivers : driver'[e] = IF e = d THEN x ELSE driver[e]
    BY DEF RowInv, LoopTyped
  <1>1. \A e \in Drivers, p \in CallPhases :
           Calls(driver'[e], p) => Calls(driver[e], p) /\ driver'[e].run = driver[e].run
    BY <1>0
  <1>2. \A e \in Drivers, p \in CallPhases : Calls(driver[e], p) => driver[e].run \in Runs
    BY DEF RowInv, Stands, Calls
  <1>3. \A k \in Runs, p \in CallPhases : Asked(k, p) => Asked(k, p)'
    BY AskedStays
  <1>4. \A k, p : Number(k, p)' = Number(k, p)
    BY DEF Number
  <1>5. \A k \in Runs, p \in CallPhases : Number(k, p)' # 0 => Asked(k, p)'
    BY <1>3, <1>4 DEF CallInv
  <1>6. ASSUME NEW e \in Drivers, NEW p \in CallPhases, Calls(driver[e], p)'
        PROVE  Number(driver[e].run, p)' = 0 /\ Asked(driver[e].run, p)'
    <2>1. Calls(driver[e], p) /\ driver'[e].run = driver[e].run
      BY <1>1, <1>6 DEF Calls
    <2>2. PICK k \in Runs : k = driver[e].run
      BY <1>2, <2>1
    <2>3. Number(k, p) = 0 /\ Asked(k, p)
      BY <2>1, <2>2 DEF CallInv
    <2>4. Number(k, p)' = 0 /\ Asked(k, p)'
      BY <1>3, <1>4, <2>3
    <2> QED
      BY <2>1, <2>2, <2>4 DEF Number, Asked
  <1>7. \A e, f \in Drivers, p \in CallPhases :
           Calls(driver'[e], p) /\ Calls(driver'[f], p) /\ driver'[e].run = driver'[f].run => e = f
    BY <1>1 DEF CallInv
  <1> QED
    BY <1>5, <1>6, <1>7 DEF CallInv, Calls

\* A driver wrote that a role is asked for the first time.
LEMMA CallBegins ==
    ASSUME RowInv, CallInv, NEW d \in Drivers, NEW places, Advances(d, places),
           UNCHANGED invoked, NEW x, driver' = [driver EXCEPT ![d] = x],
           x.run \in Runs, NEW p \in CallPhases, x.copy.phase = p,
           ~Asked(x.run, p), Asked(x.run, p)'
    PROVE  CallInv'
  <1> DEFINE k == x.run
  <1>0. \A e \in Drivers : driver'[e] = IF e = d THEN x ELSE driver[e]
    BY DEF RowInv, LoopTyped
  <1>2. \A e \in Drivers, q \in CallPhases : Calls(driver[e], q) => driver[e].run \in Runs
    BY DEF RowInv, Stands, Calls
  <1>3. \A j \in Runs, q \in CallPhases : Asked(j, q) => Asked(j, q)'
    BY AskedStays
  <1>4. \A j, q : Number(j, q)' = Number(j, q)
    BY DEF Number
  <1>5. \A j \in Runs, q \in CallPhases : Number(j, q)' # 0 => Asked(j, q)'
    BY <1>3, <1>4 DEF CallInv
  <1>6. Number(k, p) = 0 /\ \A e \in Drivers : Calls(driver[e], p) => driver[e].run # k
    BY DEF CallInv
  <1>7. ASSUME NEW e \in Drivers, NEW q \in CallPhases, Calls(driver[e], q)'
        PROVE  Number(driver[e].run, q)' = 0 /\ Asked(driver[e].run, q)'
    <2>1. CASE e = d
      <3>1. q = p /\ driver'[e].run = k
        BY <1>0, <1>7, <2>1 DEF Calls
      <3>2. Number(k, p)' = 0 /\ Asked(k, p)'
        BY <1>4, <1>6
      <3> QED
        BY <3>1, <3>2 DEF Number, Asked
    <2>2. CASE e # d
      <3>1. Calls(driver[e], q) /\ driver'[e].run = driver[e].run
        BY <1>0, <1>7, <2>2 DEF Calls
      <3>2. PICK j \in Runs : j = driver[e].run
        BY <1>2, <3>1
      <3>3. Number(j, q)' = 0 /\ Asked(j, q)'
        BY <1>3, <1>4, <3>1, <3>2 DEF CallInv
      <3> QED
        BY <3>1, <3>2, <3>3 DEF Number, Asked
    <2> QED
      BY <2>1, <2>2
  <1>8. \A e, f \in Drivers, q \in CallPhases :
           Calls(driver'[e], q) /\ Calls(driver'[f], q) /\ driver'[e].run = driver'[f].run => e = f
    BY <1>0, <1>6 DEF CallInv, Calls
  <1> QED
    BY <1>5, <1>7, <1>8 DEF CallInv, Calls

\* No place of Open leads to a call.
LEMMA OpenHasNoCall ==
    ASSUME NEW x, x.at \in Open \cup LockedPlaces \cup {"logging"}, NEW p
    PROVE  ~Calls(x, p)
  BY DEF Open, LockedPlaces, Calls

\* The write under the lease marks the call that only its driver then makes.
LEMMA ReplaceLockedCalls ==
    ASSUME RowInv, LogTyped, CallInv, NEW d \in Drivers, ReplaceLocked(d)
    PROVE  CallInv'
  <1> DEFINE c == driver[d].copy
             k == driver[d].run
  <1>1. /\ driver[d] \in DriverRecords /\ Stands(driver[d])
        /\ driver[d].at \in LockedPlaces /\ k \in Runs /\ c \in Reviews /\ ReviewFits(k, c)
    BY DriverFacts DEF ReplaceLocked, IsAt, Stands, LockedPlaces
  <1>2. Advances(d, {"idle", "committing"}) /\ UNCHANGED invoked /\ LoopTyped
    BY ReplaceLockedKeeps DEF Kept, ReplaceLocked, RowInv
  <1>3. CASE d \notin fresh
    <2>1. PICK x \in DriverRecords : driver' = [driver EXCEPT ![d] = x] /\ x.at = "idle"
      BY <1>3, NoDriveStands
         DEF ReplaceLocked, Replaces, Applies, Loses, Answers, Puts, NoDrive
    <2> QED
      BY <1>2, <2>1, CallsQuiet DEF Calls
  <1>4. ASSUME d \in fresh, NEW n \in Reviews, Replaces(d, n, "committing"),
               NEW p \in CallPhases, n.phase = p, ~Asked(k, p),
               IF p = "Reviewing" THEN n.review = "Started" ELSE n.audit = "Started",
               ReviewAccepted(k, c, n)
        PROVE  CallInv'
    <2>1. PICK x : x = [driver[d] EXCEPT !.at = "committing", !.copy = n, !.outcome = None]
      OBVIOUS
    <2>2. PICK j \in Runs : j = k
      BY <1>1
    <2>3. reviews' = [reviews EXCEPT ![j] = n] /\ driver' = [driver EXCEPT ![d] = x]
      BY <1>4, <2>1, <2>2 DEF Replaces, Applies, Stores, Puts, RunOf, CopyOf
    <2>4. x.run = j /\ x.copy = n
      BY <1>1, <2>1, <2>2 DEF DriverRecords
    <2>5. reviews'[j] = n
      BY <1>2, <2>3 DEF LoopTyped
    <2>6. n # None /\ "Started" # None
      BY NoneIsApart, ReviewAssumption DEF CallStates
    <2>7. Asked(x.run, p)'
      BY <1>4, <2>4, <2>5, <2>6 DEF Asked
    <2>8. x.copy.phase = p /\ x.run \in Runs /\ ~Asked(x.run, p)
      BY <1>4, <2>2, <2>4
    <2> QED
      BY <1>2, <1>4, <2>3, <2>7, <2>8, CallBegins
  <1>5. CASE d \in fresh
    <2>0. c = reviews[k]
      BY <1>5, DriverFacts
    <2>1. CASE driver[d].at = "locked review"
      <3> DEFINE n == [c EXCEPT !.review = "Started"]
      <3>1. Replaces(d, n, "committing")
        BY <2>1 DEF ReplaceLocked, IsAt, CopyOf
      <3>2. c.phase = "Reviewing" /\ c.review = "NotStarted"
        BY <1>1, <2>1 DEF Stands
      <3>3. n \in Reviews /\ ReviewAccepted(k, c, n) /\ n.phase = "Reviewing"
               /\ n.review = "Started"
        BY <1>1, <3>2, AskReviewer
      <3>4. ~Asked(k, "Reviewing") /\ "Reviewing" \in CallPhases
        BY <2>0, <3>2 DEF Asked, CallPhases
      <3> HIDE DEF n
      <3> QED
        BY <1>4, <1>5, <3>1, <3>3, <3>4
    <2>2. CASE driver[d].at = "locked audit"
      <3> DEFINE n == [c EXCEPT !.audit = "Started"]
      <3>1. Replaces(d, n, "committing")
        BY <2>2 DEF ReplaceLocked, IsAt, CopyOf
      <3>2. c.phase = "Auditing" /\ c.audit = "NotStarted"
        BY <1>1, <2>2 DEF Stands
      <3>3. n \in Reviews /\ ReviewAccepted(k, c, n) /\ n.phase = "Auditing"
               /\ n.audit = "Started"
        BY <1>1, <3>2, AskAuditor
      <3>4. ~Asked(k, "Auditing") /\ "Auditing" \in CallPhases
        BY <2>0, <3>2 DEF Asked, CallPhases
      <3> HIDE DEF n
      <3> QED
        BY <1>4, <1>5, <3>1, <3>3, <3>4
    <2>3. CASE driver[d].at = "locked resolve"
      <3> DEFINE n == [c EXCEPT !.phase = "ResolvedPass", !.resolution = "Pass"]
                 x == [driver[d] EXCEPT !.at = "committing", !.copy = n, !.outcome = None]
      <3>1. Replaces(d, n, "committing")
        BY <2>3 DEF ReplaceLocked, IsAt, CopyOf
      <3>2. c.phase = "Auditing" /\ c.review = "pass" /\ c.audit = "pass"
        BY <1>1, <2>3 DEF Stands
      <3>3. n \in Reviews /\ ReviewAccepted(k, c, n) /\ n.phase = "ResolvedPass"
        BY <1>1, <3>2, PassResolves
      <3> HIDE DEF n
      <3>4. driver' = [driver EXCEPT ![d] = x]
        BY <1>5, <3>1, <3>3 DEF Replaces, Applies, Puts, RunOf, CopyOf
      <3>5. \A p \in CallPhases : ~Calls(x, p)
        BY <1>1, <3>3 DEF Calls, CallPhases, DriverRecords
      <3> HIDE DEF x
      <3> QED
        BY <1>2, <3>4, <3>5, CallsQuiet
    <2> QED
      BY <1>1, <2>1, <2>2, <2>3 DEF LockedPlaces
  <1> QED
    BY <1>3, <1>5

\* The call itself: it is the first, and no other driver has one to make.
LEMMA InvokeCalls ==
    ASSUME RowInv, CallInv, NEW d \in Drivers, InvokeRole(d)
    PROVE  CallInv'
  <1> DEFINE k == driver[d].run
             p == driver[d].copy.phase
  <1>1. /\ driver[d] \in DriverRecords /\ Stands(driver[d]) /\ driver[d].at = "calling"
        /\ k \in Runs /\ p \in CallPhases
    BY DriverFacts DEF InvokeRole, IsAt, Stands, Asking, CallPhases
  <1>2. PICK x \in DriverRecords : x.at \in Open /\ driver' = [driver EXCEPT ![d] = x]
    BY InvokeKeeps DEF Kept, Advances
  <1>3. \A e \in Drivers : driver'[e] = IF e = d THEN x ELSE driver[e]
    BY <1>2 DEF RowInv, LoopTyped
  <1>4. Calls(driver[d], p)
    BY <1>1 DEF Calls
  <1>5. Number(k, p) = 0 /\ Asked(k, p)
    BY <1>1, <1>4 DEF CallInv
  <1>6. UNCHANGED reviews
    BY DEF InvokeRole, Returns
  <1>7. /\ invoked' \in [Runs -> [Roles -> 0..1]]
        /\ \A j \in Runs, q \in CallPhases : j # k \/ q # p => Number(j, q)' = Number(j, q)
    <2> DEFINE role == RoleOf(p)
               counts == [invoked[k] EXCEPT ![role] = 1]
    <2>1. role \in Roles /\ \A q \in CallPhases : q # p => RoleOf(q) # role
      BY <1>1 DEF RoleOf, Roles, CallPhases
    <2>2. Role(d) = role
      BY DEF Role, RoleOf, CopyOf
    <2>3. invoked[k] \in [Roles -> 0..1] /\ invoked[k][role] = 0
      BY <1>1, <1>5 DEF CallInv, Number
    <2>4. invoked' = [invoked EXCEPT ![k] = counts]
      <3>1. invoked' = [invoked EXCEPT ![k][role] = invoked[k][role] + 1]
        BY <2>2 DEF InvokeRole, RunOf
      <3>2. invoked' = [invoked EXCEPT ![k][role] = 1]
        BY <2>3, <3>1
      <3> HIDE DEF role
      <3> QED
        BY <1>1, <3>2 DEF CallInv
    <2>5. counts \in [Roles -> 0..1] /\ \A r : r # role => counts[r] = invoked[k][r]
      BY <2>1, <2>3
    <2> HIDE DEF counts, role
    <2> QED
      BY <1>1, <2>1, <2>4, <2>5 DEF CallInv, Number
  <1>8. \A j \in Runs, q \in CallPhases : Number(j, q)' # 0 => Asked(j, q)'
    BY <1>5, <1>6, <1>7 DEF CallInv, Asked
  <1>9. \A e \in Drivers, q \in CallPhases :
           Calls(driver'[e], q) => e # d /\ Calls(driver[e], q) /\ driver'[e] = driver[e]
    BY <1>2, <1>3, OpenHasNoCall
  <1>10. ASSUME NEW e \in Drivers, NEW q \in CallPhases, Calls(driver[e], q)'
         PROVE  Number(driver[e].run, q)' = 0 /\ Asked(driver[e].run, q)'
    <2>1. e # d /\ Calls(driver[e], q) /\ driver'[e] = driver[e]
      BY <1>9, <1>10 DEF Calls
    <2>2. PICK j \in Runs : j = driver[e].run
      BY <2>1 DEF RowInv, Stands, Calls
    <2>3. j # k \/ q # p
      BY <1>4, <1>1, <2>1, <2>2 DEF CallInv
    <2>4. Number(j, q)' = 0 /\ Asked(j, q)
      BY <1>7, <2>1, <2>2, <2>3 DEF CallInv
    <2> QED
      BY <1>6, <2>1, <2>2, <2>4 DEF Number, Asked
  <1>11. \A e, f \in Drivers, q \in CallPhases :
           Calls(driver'[e], q) /\ Calls(driver'[f], q) /\ driver'[e].run = driver'[f].run => e = f
    BY <1>9 DEF CallInv
  <1> QED
    BY <1>7, <1>8, <1>10, <1>11 DEF CallInv, Calls

\* The commit of the lease keeps the call that is to be made.
LEMMA CommitCalls ==
    ASSUME RowInv, CallInv, NEW d \in Drivers, CommitLease(d)
    PROVE  CallInv'
  <1> DEFINE x == [driver[d] EXCEPT !.at = IF CopyOf(d).phase = "ResolvedPass"
                                           THEN "project" ELSE "calling"]
  <1>1. driver' = [driver EXCEPT ![d] = x] /\ driver[d].at = "committing" /\ UNCHANGED invoked
    BY DEF CommitLease, Moves, Puts, IsAt
  <1>2. x.run = driver[d].run /\ x.copy = driver[d].copy
    BY DriverFacts DEF DriverRecords
  <1>3. \A p \in CallPhases : Calls(x, p) => Calls(driver[d], p) /\ x.run = driver[d].run
    BY <1>1, <1>2 DEF Calls
  <1>4. Advances(d, {"project", "calling"})
    BY CommitKeeps DEF Kept
  <1> HIDE DEF x
  <1> QED
    BY <1>1, <1>3, <1>4, CallsQuiet

\* Steps of a driver.
LEMMA DriverKeepsCalls ==
    ASSUME RowInv, LogTyped, CallInv, NEW d \in Drivers, DriverStep(d)
    PROVE  CallInv'
  <1>1. CASE ReplaceLocked(d) \/ InvokeRole(d) \/ CommitLease(d)
    BY <1>1, ReplaceLockedCalls, InvokeCalls, CommitCalls
  <1>2. CASE ~ReplaceLocked(d) /\ ~InvokeRole(d) /\ ~CommitLease(d)
    <2>1. Advances(d, PlacesAfter(d))
      BY DriverKeeps DEF Kept
    <2>2. PICK x \in DriverRecords :
               x.at \in PlacesAfter(d) /\ driver' = [driver EXCEPT ![d] = x]
      BY <2>1 DEF Advances
    <2>3. x.at \in Open \cup LockedPlaces \cup {"logging"}
      BY <1>2, <2>2, OpenPlaces DEF PlacesAfter
    <2>4. UNCHANGED invoked
      BY <1>2 DEF DriverStep, DriverGoes, StartReview, StopDriver, InstallReview, ResumeTerminal,
                  ResumeReviewing, ResumeAuditing, LockEvidence, LockFails, CommitFails,
                  RecordOutcome, AppendDecision, FinishLogging
    <2> QED
      BY <2>1, <2>2, <2>3, <2>4, OpenHasNoCall, CallsQuiet
  <1> QED
    BY <1>1, <1>2

\* Steps of others.
LEMMA OthersKeepCalls ==
    ASSUME CallInv, UNCHANGED <<reviews, driver, invoked>>
    PROVE  CallInv'
  BY DEF CallInv, Number, Asked, Calls

-----------------------------------------------------------------------------
(* A pass stands, and the copies of it are true.                           *)

\* A run that passed has passed for good.
LEMMA PassedStays ==
    ASSUME RowInv, NEW d \in Drivers, NEW places, Advances(d, places),
           NEW k \in Runs, Passed(k)
    PROVE  Passed(k)' /\ reviews'[k] = reviews[k]
  <1>1. CASE UNCHANGED reviews
    BY <1>1 DEF Passed
  <1>2. CASE driver[d].run \in Runs /\ \E n \in Reviews : Writes(d, n)
    <2>1. PICK n \in Reviews : Writes(d, n)
      BY <1>2
    <2>2. k # driver[d].run
      BY <2>1 DEF Writes, ReviewAccepted, ReviewSucceeds, TerminalPhases, Passed
    <2> QED
      BY <2>1, <2>2 DEF Writes, RowInv, LoopTyped, Passed
  <1> QED
    BY <1>1, <1>2 DEF Advances

\* Steps of a driver.
LEMMA DriverKeepsCopies ==
    ASSUME RowInv, LogTyped, CopyInv, NEW d \in Drivers, DriverStep(d)
    PROVE  CopyInv'
  <1>1. Advances(d, PlacesAfter(d)) /\ RowInv'
    BY DriverKeeps DEF Kept
  <1>2. PICK x \in DriverRecords :
             Carries(d, x) /\ driver' = [driver EXCEPT ![d] = x]
    BY <1>1 DEF Advances
  <1>3. \A e \in Drivers : driver'[e] = IF e = d THEN x ELSE driver[e]
    BY <1>2 DEF RowInv, LoopTyped
  <1>4. \A k \in Runs : Passed(k) => Passed(k)'
    BY <1>1, PassedStays
  <1> SUFFICES ASSUME NEW e \in Drivers, driver'[e].at # "idle", driver'[e].copy # None,
                      driver'[e].copy.phase = "ResolvedPass"
               PROVE  Passed(driver[e].run)'
    BY DEF CopyInv
  <1>5. PICK k \in Runs : k = driver'[e].run
    BY <1>1 DEF RowInv, Stands
  <1>6. Passed(k)'
    <2>1. CASE e # d
      <3>1. Passed(k)
        BY <1>3, <1>5, <2>1 DEF CopyInv
      <3> QED
        BY <1>4, <3>1
    <2>2. CASE e = d /\ x.copy = reviews'[x.run]
      BY <1>3, <1>5, <2>2 DEF Passed
    <2>3. CASE e = d /\ x.copy # reviews'[x.run]
      <3>1. driver[d].at # "idle" /\ x.run = driver[d].run /\ x.copy = driver[d].copy
        BY <1>2, <1>3, <2>3 DEF Carries
      <3>2. Passed(k)
        BY <1>3, <1>5, <2>3, <3>1 DEF CopyInv
      <3> QED
        BY <1>4, <3>2
    <2> QED
      BY <2>1, <2>2, <2>3
  <1> QED
    BY <1>5, <1>6 DEF Passed

\* Steps of others.
LEMMA OthersKeepCopies ==
    ASSUME CopyInv, UNCHANGED <<reviews, driver>>
    PROVE  CopyInv'
  BY DEF CopyInv, Passed

-----------------------------------------------------------------------------
(* The log is kept.                                                        *)

\* What project_passing_pair finds missing of the part of a log that it saw.
LEMMA WantedMeans ==
    ASSUME NEW log \in Seq(Events), NEW n \in Nat, n <= Len(log),
           Wanted(SubSeq(log, 1, n)) # None
    PROVE  /\ Wanted(SubSeq(log, 1, n)) = "review" => n = 0
           /\ Wanted(SubSeq(log, 1, n)) = "audit" => n = 1 /\ log[1].kind = "review"
  <1> DEFINE known == SubSeq(log, 1, n)
             kinds == [i \in DOMAIN known |-> known[i].kind]
  <1>1. known \in Seq(Events) /\ Len(known) = n /\ \A i \in 1..n : known[i] = log[i]
    OBVIOUS
  <1>2. DOMAIN kinds = 1..n /\ \A i \in 1..n : kinds[i] = log[i].kind
    BY <1>1
  <1>3. kinds = << >> => n = 0
    <2>1. DOMAIN << >> = {}
      OBVIOUS
    <2> QED
      BY <1>2, <2>1
  <1>4. kinds = <<"review">> => n = 1 /\ log[1].kind = "review"
    <2>1. DOMAIN <<"review">> = 1..1 /\ <<"review">>[1] = "review"
      OBVIOUS
    <2> SUFFICES ASSUME kinds = <<"review">>
                 PROVE  n = 1 /\ log[1].kind = "review"
      OBVIOUS
    <2>2. 1..n = 1..1
      BY <1>2, <2>1
    <2>3. 1 \in 1..n /\ (n # 0 => n \in 1..1)
      BY <2>2
    <2>4. n = 1
      BY <2>3
    <2> QED
      BY <1>2, <2>1, <2>4
  <1>5. /\ Classified(known) = "Absent" => kinds = << >>
        /\ Classified(known) = "ReviewOnly" => kinds = <<"review">>
    BY DEF Classified
  <1>6. /\ Wanted(known) = "review" => Classified(known) = "Absent"
        /\ Wanted(known) = "audit" => Classified(known) = "ReviewOnly"
    BY DEF Wanted
  <1> QED
    BY <1>3, <1>4, <1>5, <1>6

\* The log after one line more.
LEMMA AppendFacts ==
    ASSUME NEW log \in Seq(Events), NEW e \in Events, NEW t, t = Append(log, e)
    PROVE  /\ Len(log) \in Nat /\ DOMAIN log = 1..Len(log)
           /\ DOMAIN t = 1..(Len(log) + 1) /\ Len(t) = Len(log) + 1
           /\ \A i \in 1..Len(log) : t[i] = log[i]
           /\ t[Len(log) + 1] = e
  OBVIOUS

\* A step that writes no log.
LEMMA LinesStay ==
    ASSUME NEW k \in Runs, LinesFit(k), UNCHANGED decisions, Passed(k) => Passed(k)'
    PROVE  LinesFit(k)'
  BY DEF LinesFit, Lines, Kind

\* Steps of a driver that log nothing.
LEMMA QuietLog ==
    ASSUME RowInv, LogTyped, LogInv, NEW d \in Drivers, DriverStep(d), ~AppendDecision(d)
    PROVE  LogInv'
  <1>1. Advances(d, PlacesAfter(d)) /\ RowInv'
    BY DriverKeeps DEF Kept
  <1>2. PICK x \in DriverRecords :
             x.at \in PlacesAfter(d) /\ driver' = [driver EXCEPT ![d] = x]
    BY <1>1 DEF Advances
  <1>3. \A e \in Drivers : driver'[e] = IF e = d THEN x ELSE driver[e]
    BY <1>2 DEF RowInv, LoopTyped
  <1>4. UNCHANGED decisions
    BY DEF DriverStep, DriverGoes, StartReview, StopDriver, InstallReview, ResumeTerminal,
           ResumeReviewing, ResumeAuditing, LockEvidence, LockFails, ReplaceLocked, CommitLease,
           CommitFails, InvokeRole, RecordOutcome, FinishLogging
  <1>5. ASSUME NEW k \in Runs PROVE LinesFit(k)'
    <2>1. LinesFit(k) /\ (Passed(k) => Passed(k)')
      BY <1>1, PassedStays DEF LogInv
    <2> QED
      BY <1>4, <2>1, LinesStay
  <1>6. ASSUME NEW e \in Drivers PROVE SeesDecisions(driver[e])'
    <2>1. CASE e # d
      BY <1>3, <1>4, <2>1 DEF LogInv, SeesDecisions, Lines, Kind
    <2>2. CASE e = d /\ LockEvidence(d)
      <3>1. CASE driver[d].at = "project"
        <4>1. x = [driver[d] EXCEPT !.at = "logging", !.seen = Len(decisions[RunOf(d)])]
          BY <1>3, <2>2, <3>1 DEF LockEvidence, Puts, IsAt, RowInv, LoopTyped
        <4>2. x.seen = Len(decisions[x.run]) /\ x.run \in Runs
          BY <2>2, <3>1, <4>1, DriverFacts DEF DriverRecords, RunOf, Stands
        <4>3. /\ Len(decisions[x.run]) \in Nat
              /\ Lines(x.run) = 1..Len(decisions[x.run])
          BY <4>2 DEF LogTyped, Lines
        <4> QED
          BY <1>3, <1>4, <2>2, <4>2, <4>3 DEF SeesDecisions, Lines
      <3>2. CASE driver[d].at # "project"
        <4>1. x = [driver[d] EXCEPT !.at = Locked(driver[d].at)]
          BY <1>3, <2>2, <3>2 DEF LockEvidence, Puts, IsAt, RowInv, LoopTyped
        <4>2. x.at # "logging"
          BY <4>1, DriverFacts DEF DriverRecords, Locked
        <4> QED
          BY <1>3, <2>2, <4>2 DEF SeesDecisions
      <3> QED
        BY <3>1, <3>2
    <2>3. CASE e = d /\ ~LockEvidence(d)
      <3>1. x.at # "logging"
        BY <1>2, <2>3, OpenIsUnguarded DEF PlacesAfter, Guarded
      <3> QED
        BY <1>3, <2>3, <3>1 DEF SeesDecisions
    <2> QED
      BY <2>1, <2>2, <2>3
  <1> QED
    BY <1>5, <1>6 DEF LogInv

\* A driver that logs the decision that is missing.
LEMMA AppendKeepsLog ==
    ASSUME RowInv, LogTyped, LeaseInv, CopyInv, LogInv, NEW d \in Drivers, AppendDecision(d)
    PROVE  LogInv'
  <1>1. PICK k \in Runs : k = driver[d].run
    BY DriverFacts DEF AppendDecision, IsAt, Stands
  <1>2. PICK n \in Nat : n = driver[d].seen
    BY DriverFacts DEF DriverRecords
  <1>3. PICK log \in Seq(Events) : log = decisions[k]
    BY DEF LogTyped
  <1> DEFINE kind == Wanted(SubSeq(log, 1, n))
             L == Len(log)
  <1>4. PICK e \in Events : e = Decision(kind, n + 1)
    <2>1. kind # None
      BY <1>1, <1>2, <1>3 DEF AppendDecision, RunOf
    <2>2. kind \in {"review", "audit"} /\ n + 1 \in Nat
      BY <2>1, WantedIsDecision
    <2> HIDE DEF kind
    <2>3. Decision(kind, n + 1) \in Events
      BY <2>2 DEF Events, Decision
    <2> QED
      BY <2>3
  <1>5. PICK t : t = Append(log, e)
    OBVIOUS
  <1>6. decisions' = [decisions EXCEPT ![k] = t]
    BY <1>1, <1>2, <1>3, <1>4, <1>5 DEF AppendDecision, RunOf
  <1>7. /\ L \in Nat /\ DOMAIN log = 1..L /\ DOMAIN t = 1..(L + 1) /\ Len(t) = L + 1
        /\ \A i \in 1..L : t[i] = log[i]
        /\ t[L + 1].kind = kind
    BY <1>4, <1>5, AppendFacts DEF Decision
  <1>8. n <= L /\ \A i \in 1..L : i > n => log[i].kind = "other"
    BY <1>1, <1>2, <1>3, <1>7 DEF AppendDecision, IsAt, LogInv, SeesDecisions, Lines, Kind
  <1>9. kind \in {"review", "audit"}
    BY <1>1, <1>2, <1>3, WantedIsDecision DEF AppendDecision, RunOf
  <1>a. kind # None
    BY <1>1, <1>2, <1>3 DEF AppendDecision, RunOf
  <1>10. /\ kind = "review" => n = 0
         /\ kind = "audit" => n = 1 /\ log[1].kind = "review"
    BY <1>8, <1>a, WantedMeans
  <1> HIDE DEF kind, L
  <1>11. Passed(k)
    <2>1. driver[d].at = "logging" /\ driver[d].copy \in Reviews
             /\ driver[d].copy.phase = "ResolvedPass"
      BY DriverFacts DEF AppendDecision, IsAt, Stands
    <2> QED
      BY <1>1, <2>1, NoneIsApart DEF CopyInv
  <1>12. Kept(d, {"idle", "logging"})
    BY AppendKeeps
  <1>13. ASSUME NEW j \in Runs PROVE LinesFit(j)'
    <2>1. Passed(j) => Passed(j)'
      BY <1>12, PassedStays DEF Kept
    <2>2. CASE j # k
      BY <1>6, <2>1, <2>2 DEF LogInv, LinesFit, Lines, Kind, LogTyped
    <2>3. CASE j = k
      <3>1. decisions'[j] = t
        BY <1>6, <2>3 DEF LogTyped
      <3>2. \A a, b \in 1..(L + 1) :
               /\ t[a].kind = "review" /\ t[b].kind = "review" => a = b
               /\ t[a].kind = "audit" /\ t[b].kind = "audit" => a = b
        BY <1>7, <1>8, <1>9, <1>10
      <3>3. \A b \in 1..(L + 1) :
               t[b].kind = "audit" => \E a \in 1..(L + 1) : t[a].kind = "review" /\ a < b
        <4>1. CASE kind = "review"
          BY <1>7, <1>8, <1>10, <4>1
        <4>2. CASE kind = "audit"
          <5>1. n = 1 /\ log[1].kind = "review" /\ 1 \in 1..L
            BY <1>7, <1>8, <1>10, <4>2
          <5>2. \A b \in 1..L : log[b].kind # "audit"
            BY <1>8, <5>1
          <5> QED
            BY <1>7, <5>1, <5>2
        <4> QED
          BY <1>9, <4>1, <4>2
      <3> QED
        BY <1>7, <1>11, <2>1, <2>3, <3>1, <3>2, <3>3 DEF LinesFit, Lines, Kind
    <2> QED
      BY <2>2, <2>3
  <1>14. ASSUME NEW f \in Drivers PROVE SeesDecisions(driver[f])'
    <2>1. PICK x \in DriverRecords :
               x.at \in {"idle", "logging"} /\ driver' = [driver EXCEPT ![d] = x]
      BY <1>12 DEF Kept, Advances
    <2>2. driver'[f] = IF f = d THEN x ELSE driver[f]
      BY <2>1 DEF RowInv, LoopTyped
    <2>3. lease = d
      BY DEF AppendDecision, IsAt, LeaseInv, Guarded
    <2>4. CASE f # d
      <3>1. driver'[f].at # "logging"
        BY <2>2, <2>3, <2>4 DEF LeaseInv, Guarded
      <3> QED
        BY <3>1 DEF SeesDecisions
    <2>5. CASE f = d /\ x.at = "idle"
      BY <2>2, <2>5 DEF SeesDecisions
    <2>6. CASE f = d /\ x.at = "logging"
      <3>1. x = [driver[d] EXCEPT !.seen = Len(decisions'[k])]
        <4>1. driver'[d] = x
          BY <2>2, <2>6
        <4>2. ~Returns(d, "ProjectionConflict")
          BY <2>6, <4>1, NoDriveStands DEF Returns, Answers, Puts, RowInv, LoopTyped, NoDrive
        <4> QED
          BY <1>1, <4>1, <4>2 DEF AppendDecision, Puts, RunOf, RowInv, LoopTyped
      <3>2. x.run = k /\ x.seen = Len(t)
        BY <1>1, <1>6, <3>1, DriverFacts DEF DriverRecords, LogTyped
      <3>3. decisions'[x.run] = t
        BY <1>6, <3>2 DEF LogTyped
      <3> QED
        BY <1>7, <2>2, <2>6, <3>2, <3>3 DEF SeesDecisions, Lines
    <2> QED
      BY <2>1, <2>4, <2>5, <2>6
  <1> QED
    BY <1>13, <1>14 DEF LogInv

\* An event of the others.
LEMMA OtherEventKeepsLog ==
    ASSUME RowInv, LogTyped, LogInv, NEW k \in Runs, OtherEvent(k)
    PROVE  LogInv'
  <1>1. PICK log \in Seq(Events) : log = decisions[k]
    BY DEF LogTyped
  <1> DEFINE L == Len(log)
  <1>2. L \in Nat
    OBVIOUS
  <1>a. Decision("other", L + 1) \in Events
    BY <1>2 DEF Events, Decision
  <1>3. PICK e \in Events : e = Decision("other", L + 1)
    BY <1>a
  <1>4. PICK t : t = Append(log, e)
    OBVIOUS
  <1>5. decisions' = [decisions EXCEPT ![k] = t] /\ UNCHANGED <<reviews, driver>>
    BY <1>1, <1>3, <1>4 DEF OtherEvent
  <1>6. /\ DOMAIN log = 1..L /\ DOMAIN t = 1..(L + 1) /\ Len(t) = L + 1
        /\ \A i \in 1..L : t[i] = log[i]
        /\ t[L + 1].kind = "other"
    BY <1>3, <1>4, AppendFacts DEF Decision
  <1> HIDE DEF L
  <1>7. ASSUME NEW j \in Runs PROVE LinesFit(j)'
    <2>1. LinesFit(j) /\ (Passed(j) => Passed(j)')
      BY <1>5 DEF LogInv, Passed
    <2>2. CASE j # k
      BY <1>5, <2>1, <2>2 DEF LinesFit, Lines, Kind, LogTyped
    <2>3. CASE j = k
      <3>1. decisions'[j] = t /\ decisions[j] = log
        BY <1>1, <1>5, <2>3 DEF LogTyped
      <3>2. \A a \in 1..(L + 1) : t[a].kind # "other" => a \in 1..L /\ t[a] = log[a]
        BY <1>2, <1>6
      <3> QED
        BY <1>2, <1>6, <2>1, <3>1, <3>2 DEF LinesFit, Lines, Kind
    <2> QED
      BY <2>2, <2>3
  <1>8. ASSUME NEW f \in Drivers PROVE SeesDecisions(driver[f])'
    <2>1. CASE driver[f].at # "logging"
      BY <1>5, <2>1 DEF SeesDecisions
    <2>2. CASE driver[f].at = "logging" /\ driver[f].run # k
      BY <1>5, <2>2 DEF LogInv, SeesDecisions, Lines, Kind, LogTyped
    <2>3. CASE driver[f].at = "logging" /\ driver[f].run = k
      <3>1. decisions'[k] = t /\ driver[f].seen \in Nat
        BY <1>5, DriverFacts DEF LogTyped, DriverRecords
      <3>2. driver[f].seen <= L
               /\ \A i \in 1..L : i > driver[f].seen => log[i].kind = "other"
        BY <1>1, <1>6, <2>3 DEF LogInv, SeesDecisions, Lines, Kind, L
      <3> QED
        BY <1>2, <1>5, <1>6, <2>3, <3>1, <3>2 DEF SeesDecisions, Lines, Kind
    <2> QED
      BY <2>1, <2>2, <2>3
  <1> QED
    BY <1>7, <1>8 DEF LogInv

\* Steps of others.
LEMMA OthersKeepLog ==
    ASSUME LogInv, UNCHANGED <<reviews, driver, decisions>>
    PROVE  LogInv'
  BY DEF LogInv, LinesFit, SeesDecisions, Lines, Kind, Passed

-----------------------------------------------------------------------------
(* The invariant as a whole.                                               *)

\* The invariant holds initially.
LEMMA LoopInvHolds == BankInit /\ ReviewInit => LoopInv
  <1> SUFFICES ASSUME BankInit, ReviewInit
               PROVE  LoopInv
    OBVIOUS
  <1>1. NoDrive \in DriverRecords /\ Stands(NoDrive) /\ Follows(NoDrive) /\ NoDrive.at = "idle"
    BY DEF NoDrive, DriverRecords, DriverPlaces, Stands, Follows
  <1>2. \A d \in Drivers : driver[d] = NoDrive
    BY DEF ReviewInit
  <1>3. RowInv
    BY <1>1, <1>2 DEF ReviewInit, RowInv, LoopTyped
  <1>4. LogTyped
    BY DEF ReviewInit, LogTyped
  <1>5. LeaseInv
    BY <1>1, <1>2 DEF LeaseInv, Guarded, LockedPlaces
  <1>6. CallInv
    BY <1>1, <1>2 DEF ReviewInit, CallInv, Calls, Number, RoleOf, Roles
  <1>7. CopyInv
    BY <1>1, <1>2 DEF CopyInv
  <1>8. LogInv
    BY <1>1, <1>2 DEF ReviewInit, LogInv, LinesFit, Lines, SeesDecisions
  <1> QED
    BY <1>3, <1>4, <1>5, <1>6, <1>7, <1>8 DEF LoopInv

\* Every step keeps the invariant.
LEMMA LoopStepKeeps == LoopInv /\ [LoopNext]_loopVars => LoopInv'
  <1> SUFFICES ASSUME LoopInv, [LoopNext]_loopVars
               PROVE  LoopInv'
    OBVIOUS
  <1> USE DEF LoopInv
  <1>1. ASSUME NEW d \in Drivers, DriverStep(d)
        PROVE  LoopInv'
    <2>1. RowInv'
      BY <1>1, DriverKeeps DEF Kept
    <2>2. LogTyped' /\ LogInv'
      <3>1. CASE AppendDecision(d)
        BY <3>1, AppendKeeps, AppendKeepsLog
      <3>2. CASE ~AppendDecision(d)
        <4>1. UNCHANGED decisions
          BY <1>1, <3>2
             DEF DriverStep, DriverGoes, StartReview, StopDriver, InstallReview, ResumeTerminal,
                 ResumeReviewing, ResumeAuditing, LockEvidence, LockFails, ReplaceLocked,
                 CommitLease, CommitFails, InvokeRole, RecordOutcome, FinishLogging
        <4> QED
          BY <1>1, <3>2, <4>1, QuietLog DEF LogTyped
      <3> QED
        BY <3>1, <3>2
    <2> QED
      BY <1>1, <2>1, <2>2, DriverKeepsLease, DriverKeepsCalls, DriverKeepsCopies
  <1>2. CASE LoopNext /\ ~\E d \in Drivers : DriverStep(d)
    <2>1. /\ RowInv' /\ LogTyped' /\ UNCHANGED <<reviews, driver, invoked>>
          /\ \/ UNCHANGED <<lease, evidence, admitted>>
             \/ lease \notin Drivers
          /\ UNCHANGED decisions \/ \E k \in Runs : OtherEvent(k)
      BY <1>2, OthersStep
    <2>2. LeaseInv' /\ CallInv' /\ CopyInv'
      BY <2>1, OthersKeepLease, OthersKeepCalls, OthersKeepCopies
    <2>3. LogInv'
      BY <2>1, OthersKeepLog, OtherEventKeepsLog
    <2> QED
      BY <2>1, <2>2, <2>3
  <1>3. CASE UNCHANGED loopVars
    <2>1. UNCHANGED <<reviews, driver, invoked, decisions, fresh, lease, evidence, admitted>>
      BY <1>3 DEF loopVars, reviewVars, bankVars
    <2>2. RowInv' /\ LogTyped'
      BY <2>1, OthersKeepRows DEF LogTyped
    <2>3. LeaseInv' /\ CallInv' /\ CopyInv' /\ LogInv'
      BY <2>1, OthersKeepLease, OthersKeepCalls, OthersKeepCopies, OthersKeepLog
    <2> QED
      BY <2>2, <2>3
  <1> QED
    BY <1>1, <1>2, <1>3

\* The inductive invariant holds of the loop with any number of drivers and
\* everything that the bank is for beside them.
THEOREM LoopIsSound == LoopSpec => []LoopInv
  BY LoopInvHolds, LoopStepKeeps, PTL DEF LoopSpec

-----------------------------------------------------------------------------
(* What it means.                                                          *)

\* Where the invariant holds, a reviewed candidate has a directive before it.
LEMMA LoopDirectsRepairs == LoopInv => RepairsFollowDirectives
  <1> SUFFICES ASSUME LoopInv, NEW i \in 2..Len(Chain), reviews[Chain[i]] # None
               PROVE  /\ reviews[Chain[i - 1]] # None
                      /\ reviews[Chain[i - 1]].phase = "RepairDirected"
    BY DEF RepairsFollowDirectives
  <1>1. i \in DOMAIN Chain /\ i > 1
    BY ReviewAssumption
  <1>2. Chain[i] \in Runs /\ Cycle(Chain[i]) = i
    BY <1>1, PlaceIsCycle
  <1>3. RepairChainFits(Chain[i])
    BY <1>2 DEF LoopInv, RowInv
  <1> QED
    BY <1>1, <1>2, <1>3 DEF RepairChainFits

\* Where the invariant holds, no verdict was asked for or told twice.
LEMMA LoopTellsOnce == LoopInv => VerdictsHappenOnce
  <1>1. LoopInv => CalledAtMostOnce
    BY DEF LoopInv, CallInv, CalledAtMostOnce
  <1>2. LoopInv => DecisionsLoggedOnce
    BY DEF LoopInv, LogInv, LinesFit, Lines, Kind, Passed, DecisionsLoggedOnce
  <1> QED
    BY <1>1, <1>2 DEF VerdictsHappenOnce

\* No step of the loop is ever refused by the rules of the row
\* (review_audit_loop.rs against validate_successor and validate).
THEOREM TheLoopIsNeverRefused == LoopSpec => []LoopIsNeverRefused
  <1>1. LoopInv => LoopIsNeverRefused
    BY DEF LoopInv, RowInv, Stands, LoopIsNeverRefused
  <1> QED
    BY <1>1, LoopIsSound, PTL

\* A candidate of a chain is reviewed only after a directive of the one before
\* it, for a chain of any length (validate_repair_chain).
THEOREM RepairsAreDirected == LoopSpec => []RepairsFollowDirectives
  BY LoopDirectsRepairs, LoopIsSound, PTL

\* The reviewer and the auditor are called at most once for a run, and each of
\* their decisions is logged once, in order and only for a pass, through any
\* stops, repeated drives and competing drivers (OutcomeUnknown,
\* classify_decision_projection).
THEOREM VerdictsAreToldOnce == LoopSpec => []VerdictsHappenOnce
  BY LoopTellsOnce, LoopIsSound, PTL

\* Whoever writes a pass holds the lease, and the evidence that the lease shows
\* is the evidence that was admitted (resolve, validate_current).
LEMMA PassIsCurrentStep ==
    ASSUME LoopInv, LoopInv', [LoopNext]_loopVars, NEW k \in Runs,
           reviews'[k] # None, reviews'[k].phase = "ResolvedPass", reviews[k] # reviews'[k]
    PROVE  /\ reviews'[k].review = "pass" /\ reviews'[k].audit = "pass"
           /\ evidence[k] # None /\ evidence[k] = admitted[k] /\ evidence[k].causes = {}
  <1>1. PICK d \in Drivers : DriverStep(d)
    <2>1. LoopNext
      BY DEF loopVars, reviewVars
    <2>2. ~(\E d \in Drivers : DriverStep(d)) => UNCHANGED reviews
      BY <2>1, OthersStep DEF LoopInv
    <2> QED
      BY <2>2
  <1>2. Advances(d, PlacesAfter(d))
    BY <1>1, DriverKeeps DEF Kept, LoopInv
  <1>3. PICK n \in Reviews : driver[d].run \in Runs /\ Writes(d, n)
    BY <1>2 DEF Advances
  <1>4. k = driver[d].run /\ reviews'[k] = n
    BY <1>3 DEF Writes, LoopInv, RowInv, LoopTyped
  <1>5. driver[d].at = "locked resolve"
    BY <1>3, <1>4 DEF Writes
  <1>6. EvidenceIsAdmitted(k)
    BY <1>4, <1>5 DEF LoopInv, LeaseInv, LockedPlaces
  <1>7. ReviewFits(k, n)
    BY <1>3, <1>4 DEF Writes, ReviewAccepted
  <1> QED
    BY <1>4, <1>6, <1>7 DEF ReviewFits, EvidenceIsAdmitted, Admissible

\* A run passes only on two verdicts of pass and while its evidence is the
\* fresh row it was admitted with, whatever others do to the bank.
THEOREM PassesAreCurrent == LoopSpec => PassIsCurrent
  <1>1. LoopInv /\ LoopInv' /\ [LoopNext]_loopVars =>
          \A k \in Runs :
             /\ reviews'[k] # None /\ reviews'[k].phase = "ResolvedPass"
             /\ reviews[k] # reviews'[k]
             => /\ reviews'[k].review = "pass" /\ reviews'[k].audit = "pass"
                /\ evidence[k] # None /\ evidence[k] = admitted[k] /\ evidence[k].causes = {}
    BY PassIsCurrentStep
  <1> QED
    BY <1>1, LoopIsSound, PTL DEF LoopSpec, PassIsCurrent

-----------------------------------------------------------------------------
(* The bank.  The current row of a key is the newest it ever had because   *)
(* the allocators outlive the rows.                                        *)

\* The allocator of a key bounds every row the key ever had, its generation was
\* given to no other row, and a row that is current is the allocator's.
AllocatorBounds(k) ==
    /\ evidenceMax[k] = None => minted[k] = {} /\ evidence[k] = None
    /\ evidence[k] # None => evidence[k] = evidenceMax[k]
    /\ \A old \in minted[k] :
          /\ old.generation <= evidenceMax[k].generation
          /\ old.generation = evidenceMax[k].generation => old = evidenceMax[k]

BankInv ==
    /\ BankTypeOK
    /\ \A k \in Keys : AllocatorBounds(k)
    /\ RecordsAreImmutable

\* The generation of a new row is greater than that of the row last bound.
LEMMA NextIsGreater ==
    ASSUME NEW bound \in EvidenceRows \cup {None}, NEW row
    PROVE  /\ NextGeneration(bound, row) \in Nat \ {0}
           /\ bound # None => NextGeneration(bound, row) > bound.generation
  BY BankAssumption DEF NextGeneration, EvidenceRows, Generations

LEMMA NextRowFits ==
    ASSUME NEW k \in Keys, NEW b \in Bundles, NEW causes \in SUBSET Aspects,
           BankTypeOK, NextEvidence(k, b, causes).generation <= MaxGeneration
    PROVE  /\ NextEvidence(k, b, causes) \in EvidenceRows
           /\ evidenceMax[k] # None =>
                NextEvidence(k, b, causes).generation > evidenceMax[k].generation
  <1>1. evidenceMax[k] \in EvidenceRows \cup {None}
    BY DEF BankTypeOK, EvidenceChoices
  <1>2. /\ NextGeneration(evidenceMax[k], evidence[k]) \in Nat \ {0}
        /\ evidenceMax[k] # None =>
             NextGeneration(evidenceMax[k], evidence[k]) > evidenceMax[k].generation
    BY <1>1, NextIsGreater
  <1>3. NextGeneration(evidenceMax[k], evidence[k]) <= MaxGeneration
    BY DEF NextEvidence
  <1>4. NextGeneration(evidenceMax[k], evidence[k]) \in Generations
    BY <1>2, <1>3, BankAssumption DEF Generations
  <1> QED
    BY <1>2, <1>4 DEF NextEvidence, EvidenceRows

\* What a write of one evidence row keeps.
LEMMA BindKeeps ==
    ASSUME BankInv, NEW k \in Keys, NEW row \in EvidenceRows, BindEvidence(k, row),
           evidenceMax[k] # None => row.generation > evidenceMax[k].generation
    PROVE  /\ evidence' \in EvidenceChoices /\ evidenceMax' \in EvidenceChoices
           /\ minted' \in [Keys -> SUBSET EvidenceRows]
           /\ \A j \in Keys : AllocatorBounds(j)'
  <1>1. /\ evidence' \in EvidenceChoices /\ evidenceMax' \in EvidenceChoices
        /\ minted' \in [Keys -> SUBSET EvidenceRows]
    BY DEF BankInv, BankTypeOK, EvidenceChoices, BindEvidence
  <1>2. ASSUME NEW j \in Keys PROVE AllocatorBounds(j)'
    <2>1. CASE j # k
      <3>1. /\ evidence'[j] = evidence[j] /\ evidenceMax'[j] = evidenceMax[j]
            /\ minted'[j] = minted[j]
        BY <2>1 DEF BankInv, BankTypeOK, EvidenceChoices, BindEvidence
      <3> QED
        BY <3>1 DEF BankInv, AllocatorBounds
    <2>2. CASE j = k
      <3>1. /\ evidence'[k] = row /\ evidenceMax'[k] = row
            /\ minted'[k] = minted[k] \cup {row}
        BY DEF BankInv, BankTypeOK, EvidenceChoices, BindEvidence
      <3>2. row # None
        BY BankAssumption
      <3>3. ASSUME NEW old \in minted[k] PROVE old.generation < row.generation
        <4>1. /\ evidenceMax[k] # None
              /\ old.generation <= evidenceMax[k].generation
          BY DEF BankInv, AllocatorBounds
        <4>2. evidenceMax[k] \in EvidenceRows /\ old \in EvidenceRows
          BY <4>1 DEF BankInv, BankTypeOK, EvidenceChoices
        <4>3. /\ evidenceMax[k].generation \in Int /\ old.generation \in Int
              /\ row.generation \in Int
          BY <4>2 DEF EvidenceRows, Generations
        <4> QED
          BY <4>1, <4>3
      <3>4. row.generation \in Int /\ \A old \in minted[k] : old.generation \in Int
        BY DEF EvidenceRows, Generations, BankInv, BankTypeOK
      <3> QED
        BY <2>2, <3>1, <3>2, <3>3, <3>4 DEF AllocatorBounds
    <2> QED
      BY <2>1, <2>2
  <1> QED
    BY <1>1, <1>2

\* What the replacement of the projection keeps, if no key goes back.
LEMMA ProjectKeeps ==
    ASSUME BankInv, NEW s \in Selections, Project(s),
           \A k \in Chosen(s.evidence) : GenerationFits(s.evidence[k], evidenceMax[k])
    PROVE  /\ capability' \in CapabilityChoices /\ capabilityMax' \in CapabilityChoices
           /\ evidence' \in EvidenceChoices /\ evidenceMax' \in EvidenceChoices
           /\ minted' \in [Keys -> SUBSET EvidenceRows]
           /\ \A k \in Keys : AllocatorBounds(k)'
  <1>1. s.capability \in CapabilityChoices /\ s.evidence \in EvidenceChoices
    BY DEF Selections
  <1>2. /\ capability' \in CapabilityChoices /\ capabilityMax' \in CapabilityChoices
        /\ evidence' \in EvidenceChoices /\ evidenceMax' \in EvidenceChoices
        /\ minted' \in [Keys -> SUBSET EvidenceRows]
    BY <1>1 DEF BankInv, BankTypeOK, CapabilityChoices, EvidenceChoices, Project
  <1>3. ASSUME NEW k \in Keys PROVE AllocatorBounds(k)'
    <2>1. evidence'[k] = s.evidence[k]
      BY DEF Project
    <2>2. CASE s.evidence[k] = None
      <3>1. evidenceMax'[k] = evidenceMax[k] /\ minted'[k] = minted[k]
        BY <2>2 DEF Project
      <3> QED
        BY <2>1, <2>2, <3>1 DEF BankInv, AllocatorBounds
    <2>3. CASE s.evidence[k] # None
      <3> DEFINE row == s.evidence[k]
      <3>1. evidenceMax'[k] = row /\ minted'[k] = minted[k] \cup {row}
        BY <2>3 DEF Project
      <3>2. row \in EvidenceRows
        BY <1>1, <2>3 DEF EvidenceChoices
      <3>3. GenerationFits(row, evidenceMax[k])
        BY <1>1, <2>3 DEF Chosen, EvidenceChoices
      <3>4. ASSUME NEW old \in minted[k]
            PROVE  /\ old.generation <= row.generation
                   /\ old.generation = row.generation => old = row
        <4>1. /\ evidenceMax[k] # None
              /\ old.generation <= evidenceMax[k].generation
              /\ old.generation = evidenceMax[k].generation => old = evidenceMax[k]
          BY DEF BankInv, AllocatorBounds
        <4>2. evidenceMax[k] \in EvidenceRows /\ old \in EvidenceRows
          BY <4>1 DEF BankInv, BankTypeOK, EvidenceChoices
        <4>3. /\ evidenceMax[k].generation \in Int /\ old.generation \in Int
              /\ row.generation \in Int
          BY <3>2, <4>2 DEF EvidenceRows, Generations
        <4>4. /\ row.generation >= evidenceMax[k].generation
              /\ row.generation = evidenceMax[k].generation => row = evidenceMax[k]
          BY <3>3, <4>1 DEF GenerationFits
        <4> QED
          BY <4>1, <4>3, <4>4
      <3>5. row.generation \in Int
        BY <3>2 DEF EvidenceRows, Generations
      <3> QED
        BY <2>1, <2>3, <3>1, <3>4, <3>5 DEF AllocatorBounds
    <2> QED
      BY <2>2, <2>3
  <1> QED
    BY <1>2, <1>3

\* A generation that is fresh fits.
LEMMA FreshFits ==
    ASSUME NEW row \in EvidenceRows, NEW bound \in EvidenceRows \cup {None},
           GenerationIsFresh(row, bound)
    PROVE  GenerationFits(row, bound)
  <1>1. CASE bound = None
    BY <1>1 DEF GenerationFits
  <1>2. CASE bound # None
    <2>1. row.generation \in Int /\ bound.generation \in Int
      BY <1>2 DEF EvidenceRows, Generations
    <2> QED
      BY <1>2, <2>1 DEF GenerationFits, GenerationIsFresh
  <1> QED
    BY <1>1, <1>2

-----------------------------------------------------------------------------
(* The steps of the bank.                                                  *)

\* What the steps leave alone that neither mint nor publish.
LEMMA RowsUntouched ==
    ASSUME BankInv, UNCHANGED <<evidence, evidenceMax, minted>>
    PROVE  /\ evidence' \in EvidenceChoices /\ evidenceMax' \in EvidenceChoices
           /\ minted' \in [Keys -> SUBSET EvidenceRows]
           /\ \A k \in Keys : AllocatorBounds(k)'
  BY DEF BankInv, BankTypeOK, AllocatorBounds

LEMMA BankHolds == BankInit => BankInv
  <1> SUFFICES ASSUME BankInit PROVE BankInv
    OBVIOUS
  <1>1. BankTypeOK
    BY DEF BankInit, BankTypeOK, Nothing, CapabilityChoices, EvidenceChoices
  <1>2. \A k \in Keys : AllocatorBounds(k)
    BY DEF BankInit, Nothing, AllocatorBounds
  <1>3. RecordsAreImmutable
    BY DEF BankInit, RecordsAreImmutable
  <1> QED
    BY <1>1, <1>2, <1>3 DEF BankInv

\* Publications: one identity and revision, one content.
LEMMA DefinitionsStay ==
    ASSUME BankInv, NEW d \in Definitions, DefinitionFits(d),
           definitions' = definitions \cup {d}, bundles' = bundles
    PROVE  RecordsAreImmutable' /\ definitions' \subseteq Definitions
  BY DEF BankInv, BankTypeOK, RecordsAreImmutable, DefinitionFits

LEMMA BundlesStay ==
    ASSUME BankInv, NEW b \in Bundles, BundleFits(b),
           bundles' = bundles \cup {b}, definitions' = definitions
    PROVE  RecordsAreImmutable' /\ bundles' \subseteq Bundles
  BY BankAssumption DEF BankInv, BankTypeOK, RecordsAreImmutable, BundleFits

LEMMA PublicationKeeps == BankInv /\ Publication => BankInv'
  <1> SUFFICES ASSUME BankInv, Publication PROVE BankInv'
    OBVIOUS
  <1>1. ASSUME NEW d \in Definitions, SeedCapability(d) \/ PublishCapability(d)
        PROVE  BankInv'
    <2>1. /\ DefinitionFits(d) /\ definitions' = definitions \cup {d}
          /\ UNCHANGED <<bundles, capability, evidence, capabilityMax, evidenceMax,
                         archives, migrated, lease, minted>>
      BY <1>1 DEF SeedCapability, PublishCapability
    <2> QED
      BY <2>1, DefinitionsStay, RowsUntouched DEF BankInv, BankTypeOK
  <1>2. ASSUME NEW b \in Offered, PublishBundle(b) PROVE BankInv'
    BY <1>2, BundlesStay, RowsUntouched, BankAssumption DEF PublishBundle, BankInv, BankTypeOK
  <1> QED
    BY <1>1, <1>2 DEF Publication

\* A row is given to a key by a comparison that held.
LEMMA CasKeeps ==
    ASSUME BankInv, NEW b \in Bundles, NEW expected, ApplyBundleCas(b, expected)
    PROVE  /\ evidence' \in EvidenceChoices /\ evidenceMax' \in EvidenceChoices
           /\ minted' \in [Keys -> SUBSET EvidenceRows]
           /\ \A k \in Keys : AllocatorBounds(k)'
  <1> DEFINE row == NextEvidence(b.key, b, {})
  <1>1. b.key \in Keys
    BY BankAssumption
  <1>2. BindEvidence(b.key, row) /\ row.generation <= MaxGeneration
    BY DEF ApplyBundleCas, BindEvidence
  <1>3. /\ row \in EvidenceRows
        /\ evidenceMax[b.key] # None => row.generation > evidenceMax[b.key].generation
    BY <1>1, <1>2, NextRowFits DEF BankInv
  <1> QED
    BY <1>1, <1>2, <1>3, BindKeeps

\* A publication that may choose, of any bundle.
LEMMA PublishKeeps ==
    ASSUME BankInv, NEW b \in Bundles, NEW expected, PublishAndCas(b, expected)
    PROVE  BankInv'
  <1>1. /\ evidence' \in EvidenceChoices /\ evidenceMax' \in EvidenceChoices
        /\ minted' \in [Keys -> SUBSET EvidenceRows]
        /\ \A k \in Keys : AllocatorBounds(k)'
    <2>1. CASE ExpectationMatches(expected, evidence[b.key])
      BY <2>1, CasKeeps DEF PublishAndCas
    <2>2. CASE ~ExpectationMatches(expected, evidence[b.key])
      BY <2>2, RowsUntouched DEF PublishAndCas
    <2> QED
      BY <2>1, <2>2
  <1>2. RecordsAreImmutable' /\ bundles' \subseteq Bundles
    BY BundlesStay DEF PublishAndCas
  <1> QED
    BY <1>1, <1>2 DEF PublishAndCas, BankInv, BankTypeOK

LEMMA MarkKeeps ==
    ASSUME BankInv, NEW k \in Keys, NEW expected, NEW causes \in SUBSET Aspects,
           MarkStale(k, expected, causes)
    PROVE  BankInv'
  <1> DEFINE row == NextEvidence(k, evidence[k].bundle, evidence[k].causes \cup causes)
  <1>1. evidence[k] \in EvidenceRows
    BY DEF MarkStale, BankInv, BankTypeOK, EvidenceChoices
  <1>2. /\ evidence[k].bundle \in Bundles
        /\ evidence[k].causes \cup causes \in SUBSET Aspects
    BY <1>1 DEF EvidenceRows
  <1>3. BindEvidence(k, row) /\ row.generation <= MaxGeneration
    BY DEF MarkStale, BindEvidence
  <1>4. /\ row \in EvidenceRows
        /\ evidenceMax[k] # None => row.generation > evidenceMax[k].generation
    BY <1>2, <1>3, NextRowFits DEF BankInv
  <1>5. /\ evidence' \in EvidenceChoices /\ evidenceMax' \in EvidenceChoices
        /\ minted' \in [Keys -> SUBSET EvidenceRows]
        /\ \A j \in Keys : AllocatorBounds(j)'
    BY <1>3, <1>4, BindKeeps
  <1>6. UNCHANGED <<definitions, bundles, capability, capabilityMax, archives,
                    migrated, lease>>
    BY DEF MarkStale
  <1> QED
    BY <1>5, <1>6 DEF BankInv, BankTypeOK, RecordsAreImmutable

LEMMA ChoiceKeeps == BankInv /\ Choice => BankInv'
  <1> SUFFICES ASSUME BankInv, Choice PROVE BankInv'
    OBVIOUS
  <1>1. ASSUME NEW d \in Definitions, NEW expected, CasCapability(d, expected)
        PROVE  BankInv'
    <2> DEFINE row == [definition |-> d,
                       generation |-> NextGeneration(capabilityMax[d.id], capability[d.id])]
    <2>1. d.id \in CapabilityIds
      BY BankAssumption
    <2>2. NextGeneration(capabilityMax[d.id], capability[d.id]) \in Nat \ {0}
      BY <2>1, BankAssumption
         DEF NextGeneration, BankInv, BankTypeOK, CapabilityChoices, CapabilityRows, Generations
    <2>3. row \in CapabilityRows
      BY <1>1, <2>2, BankAssumption DEF CasCapability, CapabilityRows, Generations
    <2>4. capability' \in CapabilityChoices /\ capabilityMax' \in CapabilityChoices
      BY <1>1, <2>1, <2>3 DEF CasCapability, BankInv, BankTypeOK, CapabilityChoices
    <2>5. UNCHANGED <<definitions, bundles, evidence, evidenceMax, archives,
                      migrated, lease, minted>>
      BY <1>1 DEF CasCapability
    <2> QED
      BY <2>4, <2>5, RowsUntouched DEF BankInv, BankTypeOK, RecordsAreImmutable
  <1>2. ASSUME NEW b \in Offered, NEW expected, CasEvidence(b, expected)
        PROVE  BankInv'
    <2>1. /\ b \in Bundles /\ ApplyBundleCas(b, expected)
          /\ UNCHANGED <<definitions, bundles, capability, capabilityMax, archives,
                         migrated, lease>>
      BY <1>2, BankAssumption DEF CasEvidence
    <2> QED
      BY <2>1, CasKeeps DEF BankInv, BankTypeOK, RecordsAreImmutable
  <1>3. ASSUME NEW b \in Offered, NEW expected, PublishAndCas(b, expected)
        PROVE  BankInv'
    BY <1>3, PublishKeeps, BankAssumption
  <1>4. ASSUME NEW k \in Keys, NEW expected, NEW causes \in SUBSET Aspects,
               MarkStale(k, expected, causes)
        PROVE  BankInv'
    BY <1>4, MarkKeeps
  <1>5. ASSUME NEW k \in Keys, NEW expected, NEW prints, MarkStaleIfChanged(k, expected, prints)
        PROVE  BankInv'
    <2> DEFINE causes == {a \in Aspects : expected.bundle.prints[a] # prints[a]}
    <2>1. causes \in SUBSET Aspects /\ MarkStale(k, expected, causes)
      BY <1>5 DEF MarkStaleIfChanged
    <2> QED
      BY <2>1, MarkKeeps
  <1> QED
    BY <1>1, <1>2, <1>3, <1>4, <1>5 DEF Choice

LEMMA OperationKeeps == BankInv /\ Operation => BankInv'
  <1> SUFFICES ASSUME BankInv, Operation PROVE BankInv'
    OBVIOUS
  <1>1. CASE Migrate
    BY <1>1, RowsUntouched, BankAssumption
       DEF Migrate, BankInv, BankTypeOK, RecordsAreImmutable
  <1>2. ASSUME NEW s \in Drafts, Rebuild(s) PROVE BankInv'
    <2>1. /\ s \in Selections /\ Project(s)
          /\ \A k \in Chosen(s.evidence) : GenerationFits(s.evidence[k], evidenceMax[k])
          /\ UNCHANGED <<definitions, bundles, archives, migrated, lease>>
      BY <1>2, BankAssumption DEF Rebuild
    <2> QED
      BY <2>1, ProjectKeeps DEF BankInv, BankTypeOK, RecordsAreImmutable
  <1>3. ASSUME NEW s \in Drafts, NEW a \in ArchiveIds, PersistArchive(a, s)
        PROVE  BankInv'
    <2>1. archives' \in [ArchiveIds -> Selections \cup {None}]
      BY <1>3, BankAssumption DEF PersistArchive, BankInv, BankTypeOK
    <2> QED
      BY <1>3, <2>1, RowsUntouched DEF PersistArchive, BankInv, BankTypeOK, RecordsAreImmutable
  <1>4. ASSUME NEW a \in ArchiveIds, Recover(a) PROVE BankInv'
    <2> DEFINE s == archives[a]
    <2>1. /\ s \in Selections /\ Project(s)
          /\ UNCHANGED <<definitions, bundles, archives, migrated, lease>>
      BY <1>4 DEF Recover, BankInv, BankTypeOK
    <2>2. ASSUME NEW k \in Chosen(s.evidence)
          PROVE  GenerationFits(s.evidence[k], evidenceMax[k])
      <3>1. s.evidence \in EvidenceChoices
        BY <2>1 DEF Selections
      <3>2. k \in Keys /\ s.evidence[k] \in EvidenceRows
        BY <3>1 DEF Chosen, EvidenceChoices
      <3>3. evidenceMax[k] \in EvidenceRows \cup {None}
        BY <3>2 DEF BankInv, BankTypeOK, EvidenceChoices
      <3>4. GenerationIsFresh(s.evidence[k], evidenceMax[k])
        BY <1>4 DEF Recover
      <3> QED
        BY <3>2, <3>3, <3>4, FreshFits
    <2> QED
      BY <2>1, <2>2, ProjectKeeps DEF BankInv, BankTypeOK, RecordsAreImmutable
  <1> QED
    BY <1>1, <1>2, <1>3, <1>4 DEF Operation

LEMMA AdmissionKeeps == BankInv /\ Admission => BankInv'
  <1> SUFFICES ASSUME BankInv, NEW h \in Holders, TakeLease(h) \/ ReleaseLease(h)
               PROVE  BankInv'
    BY DEF Admission
  <1>1. /\ lease' \in Holders \cup {None}
        /\ UNCHANGED <<definitions, bundles, capability, evidence, capabilityMax,
                       evidenceMax, archives, migrated, minted>>
    BY DEF TakeLease, ReleaseLease
  <1> QED
    BY <1>1, RowsUntouched DEF BankInv, BankTypeOK, RecordsAreImmutable

LEMMA BankKept == BankInv /\ [BankNext]_bankVars => BankInv'
  <1>1. ASSUME BankInv, UNCHANGED bankVars PROVE BankInv'
    BY <1>1, RowsUntouched DEF bankVars, BankInv, BankTypeOK, RecordsAreImmutable
  <1> QED
    BY <1>1, PublicationKeeps, ChoiceKeeps, OperationKeeps, AdmissionKeeps DEF BankNext

-----------------------------------------------------------------------------
\* The invariant of the bank: its types, its allocators, its records.
THEOREM BankInvariant == BankSpec => []BankInv
  BY BankHolds, BankKept, PTL DEF BankSpec

\* The stores keep their types, whoever publishes, chooses, rebuilds or recovers.
THEOREM BankTyped == BankSpec => []BankTypeOK
  <1>1. BankInv => BankTypeOK
    BY DEF BankInv
  <1> QED
    BY <1>1, BankInvariant, PTL

\* One identity and revision, one content: what was published is never replaced
\* (publish_capability_tx, publish_bundle_tx).
THEOREM RecordsNeverReplaced == BankSpec => []RecordsAreImmutable
  <1>1. BankInv => RecordsAreImmutable
    BY DEF BankInv
  <1> QED
    BY <1>1, BankInvariant, PTL

\* The current row of a key is the newest it ever had, and no generation was
\* given to two rows, through rebuilds, resets and recoveries: a token that was
\* kept matches the row it was read from or none.
THEOREM CurrentAlwaysNewest == BankSpec => []CurrentIsNewest
  <1>1. BankInv => CurrentIsNewest
    BY DEF BankInv, AllocatorBounds, CurrentIsNewest
  <1> QED
    BY <1>1, BankInvariant, PTL

-----------------------------------------------------------------------------
(* The review, while others use the bank.                                  *)

\* Nobody drives where no review is the errand.
ReviewsAreApart == errand # "review" => \A d \in Drivers : driver[d].at = "idle"

SystemLoopInv == LoopInv /\ ReviewsAreApart

\* What leaves the projections alone and the bank to the drivers keeps the
\* invariant of the loop.
LEMMA BesideTheLoop ==
    ASSUME LoopInv, UNCHANGED reviewVars,
           UNCHANGED <<lease, evidence>> \/ lease \notin Drivers
    PROVE  LoopInv'
  <1>1. UNCHANGED <<reviews, driver, invoked, decisions, fresh, admitted>>
    BY DEF reviewVars
  <1>2. RowInv' /\ LogTyped'
    BY <1>1, OthersKeepRows DEF LoopInv, LogTyped
  <1>3. LeaseInv' /\ CallInv' /\ CopyInv' /\ LogInv'
    BY <1>1, OthersKeepLease, OthersKeepCalls, OthersKeepCopies, OthersKeepLog DEF LoopInv
  <1> QED
    BY <1>2, <1>3 DEF LoopInv

\* Where nobody drives, the bank may do anything.
LEMMA NobodyDrives ==
    ASSUME LoopInv, UNCHANGED reviewVars, \A d \in Drivers : driver[d].at = "idle"
    PROVE  LoopInv'
  <1>1. UNCHANGED <<reviews, driver, invoked, decisions, fresh, admitted>>
    BY DEF reviewVars
  <1>2. RowInv' /\ LogTyped'
    BY <1>1, OthersKeepRows DEF LoopInv, LogTyped
  <1>3. LeaseInv'
    BY <1>1 DEF LeaseInv, Guarded, LockedPlaces
  <1>4. CallInv' /\ CopyInv' /\ LogInv'
    BY <1>1, OthersKeepCalls, OthersKeepCopies, OthersKeepLog DEF LoopInv
  <1> QED
    BY <1>2, <1>3, <1>4 DEF LoopInv

\* The invariant holds at first.
LEMMA SystemLoopHolds == SystemInit => SystemLoopInv
  <1>1. ReviewInit => \A d \in Drivers : driver[d].at = "idle"
    BY DEF ReviewInit, NoDrive
  <1> QED
    BY <1>1, LoopInvHolds DEF SystemInit, SystemLoopInv, ReviewsAreApart

\* Each step of a review is one of the loop, or leaves it alone.
LEMMA SystemStepIsLoopStep ==
    ASSUME SystemLoopInv, [SystemNext]_systemVars
    PROVE  \/ [LoopNext]_loopVars
           \/ UNCHANGED reviewVars
  BY DEF SystemNext, Upkeep, Verify, Review, Classify, LoopNext, systemVars, loopVars

\* Every step keeps the invariant.
LEMMA SystemLoopKept == SystemLoopInv /\ [SystemNext]_systemVars => SystemLoopInv'
  <1> SUFFICES ASSUME SystemLoopInv, [SystemNext]_systemVars
               PROVE  SystemLoopInv'
    OBVIOUS
  <1>1. CASE Upkeep \/ Verify \/ Classify
    <2>1. UNCHANGED reviewVars /\ errand' = errand /\ errand # "review"
      BY <1>1 DEF Upkeep, Verify, Classify
    <2>2. \A d \in Drivers : driver[d].at = "idle"
      BY <2>1 DEF SystemLoopInv, ReviewsAreApart
    <2> QED
      BY <2>1, <2>2, NobodyDrives DEF SystemLoopInv, ReviewsAreApart, reviewVars
  <1>2. CASE Review
    <2>1. errand' = "review"
      BY <1>2 DEF Review
    <2>2. CASE ReviewStep
      BY <2>1, <2>2, LoopStepKeeps DEF SystemLoopInv, ReviewsAreApart, LoopNext
    <2>3. CASE (PublishCandidate \/ MarkAny) /\ UNCHANGED reviewVars
      <3>1. lease \notin Drivers
        BY <2>3, NoneIsApart DEF PublishCandidate, MarkAny, PublishAndCas, MarkStale
      <3> QED
        BY <2>1, <2>3, <3>1, BesideTheLoop DEF SystemLoopInv, ReviewsAreApart
    <2> QED
      BY <1>2, <2>2, <2>3 DEF Review
  <1>3. CASE UNCHANGED systemVars
    <2>1. UNCHANGED <<errand, reviewVars, lease, evidence>>
      BY <1>3 DEF systemVars, bankVars
    <2> QED
      BY <2>1, BesideTheLoop DEF SystemLoopInv, ReviewsAreApart, reviewVars
  <1> QED
    BY <1>1, <1>2, <1>3 DEF SystemNext

\* The loop is sound in the system.
THEOREM ReviewsAreSound == SystemSpec => []SystemLoopInv
  BY SystemLoopHolds, SystemLoopKept, PTL DEF SystemSpec

\* No step of the loop is refused by the rules of the row, while bundles are
\* published, chosen and marked stale (review_audit_loop.rs against
\* validate_successor and validate).
THEOREM SystemLoopIsNeverRefused == SystemSpec => []LoopIsNeverRefused
  <1>1. SystemLoopInv => LoopIsNeverRefused
    BY DEF SystemLoopInv, LoopInv, RowInv, Stands, LoopIsNeverRefused
  <1> QED
    BY <1>1, ReviewsAreSound, PTL

\* A candidate is reviewed only after a directive of the one before it, in the
\* system (validate_repair_chain).
THEOREM SystemRepairsAreDirected == SystemSpec => []RepairsFollowDirectives
  <1>1. SystemLoopInv => RepairsFollowDirectives
    BY LoopDirectsRepairs DEF SystemLoopInv
  <1> QED
    BY <1>1, ReviewsAreSound, PTL

\* Each verdict is asked for once and told once, in the system (OutcomeUnknown,
\* classify_decision_projection).
THEOREM SystemVerdictsAreToldOnce == SystemSpec => []VerdictsHappenOnce
  <1>1. SystemLoopInv => VerdictsHappenOnce
    BY LoopTellsOnce DEF SystemLoopInv
  <1> QED
    BY <1>1, ReviewsAreSound, PTL

\* A run passes only on two verdicts of pass and while its evidence is the fresh
\* row it was admitted with, in the system (resolve, validate_current).
THEOREM SystemPassesAreCurrent == SystemSpec => PassIsCurrent
  <1>1. SystemLoopInv /\ SystemLoopInv' /\ [SystemNext]_systemVars =>
          \A k \in Runs :
             /\ reviews'[k] # None /\ reviews'[k].phase = "ResolvedPass"
             /\ reviews[k] # reviews'[k]
             => /\ reviews'[k].review = "pass" /\ reviews'[k].audit = "pass"
                /\ evidence[k] # None /\ evidence[k] = admitted[k] /\ evidence[k].causes = {}
    <2> SUFFICES ASSUME SystemLoopInv, SystemLoopInv', [SystemNext]_systemVars, NEW k \in Runs,
                        reviews'[k] # None, reviews'[k].phase = "ResolvedPass",
                        reviews[k] # reviews'[k]
                 PROVE  /\ reviews'[k].review = "pass" /\ reviews'[k].audit = "pass"
                        /\ evidence[k] # None /\ evidence[k] = admitted[k]
                        /\ evidence[k].causes = {}
      OBVIOUS
    <2>1. [LoopNext]_loopVars
      BY SystemStepIsLoopStep DEF reviewVars
    <2> QED
      BY <2>1, PassIsCurrentStep DEF SystemLoopInv
  <1> QED
    BY <1>1, ReviewsAreSound, PTL DEF SystemSpec, PassIsCurrent

-----------------------------------------------------------------------------
(* Failures and their routes.                                              *)

Awaits(f) == f.confirmation = "Provisional" /\ IsSensitive(f)

\* What was classified once keeps its name and its route, and what was confirmed
\* goes back to somebody's first word.
RoutingInv ==
    /\ classified \subseteq Classifications
    /\ \A f, g \in classified : f.id = g.id => f = g
    /\ \A f \in classified :
        /\ f.id \in DOMAIN routes
        /\ Awaits(f) <=> routes[f.id].directive = "AwaitingConfirmation"
        /\ Awaits(f) => routes[f.id].target # f.classifier
        /\ IsSensitive(f) /\ ~Awaits(f) =>
             \E first \in classified : first.id # f.id /\ Confirms(f, first)

\* What a route that is not blocked shows of its failure.
LEMMA RouteFacts ==
    ASSUME NEW f \in Classifications, NEW prior, NEW bindings, NEW permitted,
           NEW route, route = Route(f, prior, bindings, permitted), route # Blocked
    PROVE  /\ Awaits(f) <=> route.directive = "AwaitingConfirmation"
           /\ Awaits(f) => route.target # f.classifier
           /\ IsSensitive(f) /\ ~Awaits(f) =>
                prior # Nobody /\ prior.id # f.id /\ Confirms(f, prior)
  <1> DEFINE target == bindings[IF f.confirmation = "Provisional" /\ IsSensitive(f)
                                THEN "ConfirmationOwner" ELSE OwnerOf(f.category)]
  <1>1. /\ ClassificationsValid({f} \cup ({prior} \ {Nobody}))
        /\ Awaits(f) => target # f.classifier
        /\ route = [directive |-> IF Awaits(f) THEN "AwaitingConfirmation"
                                  ELSE IF permitted THEN "Retry" ELSE "EscalateToOwner",
                    target |-> target]
    BY DEF Route, Awaits
  <1>2. Awaits(f) <=> route.directive = "AwaitingConfirmation"
    BY <1>1
  <1>3. Awaits(f) => route.target # f.classifier
    BY <1>1
  <1>4. ASSUME IsSensitive(f), ~Awaits(f)
        PROVE  prior # Nobody /\ prior.id # f.id /\ Confirms(f, prior)
    <2>1. f.confirmation = "Confirmed"
      BY <1>4 DEF Awaits, Classifications
    <2>2. PICK first \in {f} \cup ({prior} \ {Nobody}) : Confirms(f, first)
      BY <1>1, <1>4, <2>1 DEF ClassificationsValid
    <2>3. first = prior /\ prior # Nobody
      BY <2>1, <2>2 DEF Confirms
    <2>4. f.supersedes # f.id
      BY <1>1 DEF ClassificationsValid, FailureValid
    <2> QED
      BY <2>2, <2>3, <2>4 DEF Confirms
  <1> QED
    BY <1>2, <1>3, <1>4

\* The invariant holds at first.
LEMMA RoutingHolds == SystemInit => RoutingInv
  BY DEF SystemInit, RoutingInit, RoutingInv

\* One more failure is routed.
LEMMA RoutingGrows ==
    ASSUME RoutingInv, NEW f \in Classifications, NEW prior \in classified \cup {Nobody},
           NEW bindings, NEW permitted, ClassifyAndRoute(f, prior, bindings, permitted)
    PROVE  RoutingInv'
  <1>1. PICK route : route = Route(f, prior, bindings, permitted)
    OBVIOUS
  <1>2. /\ \A other \in classified : other.id # f.id
        /\ route # Blocked
        /\ classified' = classified \cup {f}
        /\ routes' = [id \in DOMAIN routes \cup {f.id} |->
                        IF id = f.id THEN route ELSE routes[id]]
    BY <1>1 DEF ClassifyAndRoute
  <1>3. /\ Awaits(f) <=> route.directive = "AwaitingConfirmation"
        /\ Awaits(f) => route.target # f.classifier
        /\ IsSensitive(f) /\ ~Awaits(f) =>
             prior # Nobody /\ prior.id # f.id /\ Confirms(f, prior)
    BY <1>1, <1>2, RouteFacts
  <1>4. classified' \subseteq Classifications
        /\ \A g, h \in classified' : g.id = h.id => g = h
    BY <1>2 DEF RoutingInv
  <1>5. routes'[f.id] = route /\ f.id \in DOMAIN routes'
    BY <1>2
  <1>6. \A g \in classified : routes'[g.id] = routes[g.id] /\ g.id \in DOMAIN routes'
    BY <1>2 DEF RoutingInv
  <1>7. ASSUME NEW g \in classified'
        PROVE  /\ g.id \in DOMAIN routes'
               /\ Awaits(g) <=> routes'[g.id].directive = "AwaitingConfirmation"
               /\ Awaits(g) => routes'[g.id].target # g.classifier
               /\ IsSensitive(g) /\ ~Awaits(g) =>
                    \E first \in classified' : first.id # g.id /\ Confirms(g, first)
    <2>1. CASE g = f
      BY <1>2, <1>3, <1>5, <2>1
    <2>2. CASE g \in classified
      BY <1>2, <1>6, <2>2 DEF RoutingInv
    <2> QED
      BY <1>2, <2>1, <2>2
  <1> QED
    BY <1>4, <1>7 DEF RoutingInv

\* Every step keeps the invariant.
LEMMA RoutingKept == RoutingInv /\ [SystemNext]_systemVars => RoutingInv'
  <1> SUFFICES ASSUME RoutingInv, [SystemNext]_systemVars
               PROVE  RoutingInv'
    OBVIOUS
  <1>1. CASE RoutingStep
    BY <1>1, RoutingGrows DEF RoutingStep
  <1>2. CASE UNCHANGED routingVars
    BY <1>2 DEF routingVars, RoutingInv
  <1> QED
    BY <1>1, <1>2 DEF SystemNext, Upkeep, Verify, Review, Classify, systemVars

\* Whoever is sent to repair a product or a test is sent on the word of two,
\* for any actors, criteria and bindings
\* (route_classified_verification_failure).
THEOREM SensitiveFailuresHaveTwoWitnesses == SystemSpec => []SensitiveFailuresAreConfirmed
  <1>1. RoutingInv => SensitiveFailuresAreConfirmed
    <2> SUFFICES ASSUME RoutingInv, NEW f \in classified, IsSensitive(f),
                        routes[f.id].directive # "AwaitingConfirmation"
                 PROVE  \E first \in classified :
                           /\ first.id # f.id /\ first.classifier # f.classifier
                           /\ first.category = f.category /\ first.criterion = f.criterion
                           /\ routes[first.id].directive = "AwaitingConfirmation"
                           /\ routes[first.id].target # first.classifier
      BY DEF SensitiveFailuresAreConfirmed
    <2>1. PICK first \in classified : first.id # f.id /\ Confirms(f, first)
      BY DEF RoutingInv
    <2>2. Awaits(first)
      BY <2>1 DEF Awaits, Confirms, IsSensitive
    <2> QED
      BY <2>1, <2>2 DEF Confirms, RoutingInv
  <1> QED
    BY <1>1, RoutingHolds, RoutingKept, PTL DEF SystemSpec

-----------------------------------------------------------------------------
(* One command.                                                            *)

Spawned == [executable : Executables, image : Files, code : ExitCodes \cup {Absent}]

\* How the last process ended; Absent while it has not.
LastCode == ran[Len(ran)].code

\* The process is only there while somebody watches it.
ProcessInv ==
    /\ watcher.at \in {"idle", "spawning", "done"} => process = NoProcess
    /\ watcher.at = "joining" => process.state = "none"
    /\ watcher.at \in {"watching", "stopping", "joining"} => ran # << >>
    /\ process.state = "exited" => LastCode # Absent

\* No byte is lost before something froze the captures.
BytesInv ==
    \A s \in Streams :
        /\ output[s].captured + output[s].unread <= output[s].written
        /\ ~frozen => output[s].captured + output[s].unread = output[s].written

\* Why the loop ended: it forced the end, or it saw the code of a process that
\* had ended, and then only the cap may have frozen the captures.
Concluded ==
    watcher.forced = Absent =>
        /\ process.state # "running"
        /\ watcher.status # Absent /\ watcher.status = LastCode
        /\ frozen => overflow

\* What a reply of a completed command stands for.
CompletedWell ==
    /\ watcher.reply.code # Absent /\ watcher.reply.code = LastCode
    /\ ~frozen
    /\ \A s \in Streams : output[s].unread = 0

WatcherInv ==
    /\ watcher.at = "idle" => watcher = NoCommand
    /\ watcher.at # "idle" => watcher.executable \in Executables
    /\ watcher.at = "done" <=> watcher.reply # Absent
    /\ watcher.at \in {"spawning", "watching"} =>
         watcher.forced = Absent /\ watcher.status = Absent /\ (frozen => overflow)
    /\ watcher.at \in {"stopping", "joining"} => Concluded
    /\ watcher.at = "done" /\ watcher.reply.kind = "Completed" => CompletedWell

CommandInv == CommandTypeOK /\ ProcessInv /\ BytesInv /\ WatcherInv

\* Where nothing runs, everything is as it should be.
LEMMA CommandInvHolds == SystemInit => CommandInv
  <1> SUFFICES ASSUME SystemInit
               PROVE  CommandInv
    OBVIOUS
  <1>1. /\ windows \in Platforms /\ executables = [x \in Executables |-> "approved"]
        /\ watcher = NoCommand /\ process = NoProcess /\ output = NoOutput
        /\ frozen = FALSE /\ overflow = FALSE /\ ran = << >>
    BY CommandAssumption DEF SystemInit, CommandInit
  <1>2. CommandTypeOK
    <2>1. NoCommand \in [at : Places, executable : Executables \cup {Absent},
                         forced : Forces \cup {Absent}, status : ExitCodes \cup {Absent},
                         reply : Replies \cup {Absent}]
      BY DEF NoCommand, Places
    <2>2. NoProcess \in [state : {"none", "running", "exited"}, orphan : BOOLEAN]
      BY DEF NoProcess
    <2>3. NoOutput \in [Streams -> [written : 0..MaxBytes, unread : 0..MaxBytes,
                                    captured : 0..OutputCap]]
      BY CommandAssumption DEF NoOutput
    <2>4. executables \in [Executables -> Files]
      BY <1>1 DEF Files
    <2>5. ran \in Seq(Spawned)
      BY <1>1
    <2>6. frozen \in BOOLEAN /\ overflow \in BOOLEAN
      BY <1>1
    <2>7. watcher = NoCommand /\ process = NoProcess /\ output = NoOutput /\ windows \in Platforms
      BY <1>1
    <2> QED
      BY <2>1, <2>2, <2>3, <2>4, <2>5, <2>6, <2>7, Zenon DEF CommandTypeOK, Spawned
  <1>3. BytesInv
    BY <1>1 DEF BytesInv, NoOutput
  <1>4. ProcessInv /\ WatcherInv
    BY <1>1 DEF ProcessInv, WatcherInv, NoCommand, NoProcess
  <1> QED
    BY <1>2, <1>3, <1>4 DEF CommandInv

\* The last entry of a sequence that grew.
LEMMA AppendSpawned ==
    ASSUME NEW s \in Seq(Spawned), NEW e \in Spawned
    PROVE  /\ Append(s, e) \in Seq(Spawned) /\ Len(Append(s, e)) = Len(s) + 1
           /\ Append(s, e) # << >>
           /\ \A i \in 1..Len(s) : Append(s, e)[i] = s[i]
           /\ Append(s, e)[Len(s) + 1] = e
  OBVIOUS

\* The last process ends with a code.
LEMMA LastCodeSet ==
    ASSUME NEW s \in Seq(Spawned), s # << >>, NEW c \in ExitCodes,
           NEW t, t = [s EXCEPT ![Len(s)].code = c]
    PROVE  /\ t \in Seq(Spawned) /\ Len(t) = Len(s) /\ t # << >>
           /\ \A i \in 1..Len(s) : i # Len(s) => t[i] = s[i]
           /\ t[Len(s)].code = c
           /\ t[Len(s)].executable = s[Len(s)].executable
           /\ t[Len(s)].image = s[Len(s)].image
  <1>1. Len(s) \in 1..Len(s) /\ s[Len(s)] \in Spawned
    OBVIOUS
  <1>2. PICK e : e = [s[Len(s)] EXCEPT !.code = c]
    OBVIOUS
  <1>3. /\ e \in Spawned /\ e.code = c
        /\ e.executable = s[Len(s)].executable /\ e.image = s[Len(s)].image
    BY <1>1, <1>2 DEF Spawned
  <1>4. t = [s EXCEPT ![Len(s)] = e]
    BY <1>2
  <1>5. t \in Seq(Spawned) /\ Len(t) = Len(s)
        /\ \A j \in 1..Len(s) : t[j] = IF j = Len(s) THEN e ELSE s[j]
    BY <1>1, <1>3, <1>4, ExceptSeq
  <1>6. t # << >>
    BY <1>1, <1>5
  <1>7. t[Len(s)] = e /\ \A j \in 1..Len(s) : j # Len(s) => t[j] = s[j]
    BY <1>1, <1>5
  <1> QED
    BY <1>3, <1>5, <1>6, <1>7

WatcherRecords ==
    [at : Places, executable : Executables \cup {Absent}, forced : Forces \cup {Absent},
     status : ExitCodes \cup {Absent}, reply : Replies \cup {Absent}]
ProcessRecords == [state : {"none", "running", "exited"}, orphan : BOOLEAN]
StreamRecords == [written : 0..MaxBytes, unread : 0..MaxBytes, captured : 0..OutputCap]

\* The type invariant, in these names.
LEMMA CommandTypes ==
    CommandTypeOK <=>
        /\ windows \in Platforms /\ executables \in [Executables -> Files]
        /\ watcher \in WatcherRecords /\ process \in ProcessRecords
        /\ output \in [Streams -> StreamRecords]
        /\ frozen \in BOOLEAN /\ overflow \in BOOLEAN
        /\ ran \in Seq(Spawned)
  BY Zenon DEF CommandTypeOK, WatcherRecords, ProcessRecords, StreamRecords, Spawned

\* What an executable that is not as it should be is answered with.
LEMMA FileFailures ==
    ASSUME NEW x \in Executables, executables \in [Executables -> Files]
    PROVE  /\ FileFailure(x) = Absent => executables[x] = "approved"
           /\ FileFailure(x) # Absent => FileFailure(x) \in {"Unavailable", "Tampered"}
  <1>1. executables[x] \in {"approved", "other", "gone"}
    BY DEF Files
  <1> QED
    BY <1>1, CommandAssumption DEF FileFailure, Refusals

\* A command is begun.
LEMMA StartKeepsCommand ==
    ASSUME CommandInv, NEW x \in Executables, NEW directory, StartCommand(x, directory)
    PROVE  /\ CommandInv'
           /\ watcher'.executable = x
           /\ \/ watcher'.at = "spawning" /\ executables[x] = "approved"
              \/ watcher'.at = "done" /\ watcher'.reply.kind \in {"SnapshotTamper", "Unavailable", "Tampered"}
  <1> DEFINE failure == IF directory THEN FileFailure(x) ELSE "SnapshotTamper"
  <1>1. PICK f : f = failure
    OBVIOUS
  <1>2. /\ f = Absent => executables[x] = "approved"
        /\ f # Absent => f \in {"SnapshotTamper", "Unavailable", "Tampered"}
    <2>1. executables \in [Executables -> Files]
      BY CommandTypes DEF CommandInv
    <2>2. "SnapshotTamper" # Absent
      BY CommandAssumption DEF Refusals
    <2> QED
      BY <1>1, <2>1, <2>2, FileFailures
  <1> PICK b : b = [NoCommand EXCEPT !.at = "spawning", !.executable = x]
    OBVIOUS
  <1>3. /\ b \in WatcherRecords /\ b.at = "spawning" /\ b.executable = x
        /\ b.forced = Absent /\ b.status = Absent /\ b.reply = Absent
    BY DEF NoCommand, WatcherRecords, Places
  <1> PICK r : r = [kind |-> f, code |-> Absent]
    OBVIOUS
  <1>4. f # Absent => r \in Replies /\ r # Absent /\ r.kind = f
    BY <1>2, CommandAssumption DEF Replies, Refusals
  <1> PICK w : w = IF f = Absent THEN b ELSE [b EXCEPT !.at = "done", !.reply = r]
    OBVIOUS
  <1>5. /\ w \in WatcherRecords /\ w.executable = x /\ w.forced = Absent /\ w.status = Absent
        /\ f = Absent => w.at = "spawning" /\ w.reply = Absent
        /\ f # Absent => w.at = "done" /\ w.reply = r
    BY <1>3, <1>4 DEF WatcherRecords, Places
  <1>6. /\ watcher' = w /\ process' = NoProcess /\ output' = NoOutput
        /\ frozen' = FALSE /\ overflow' = FALSE
        /\ UNCHANGED <<windows, executables, ran>>
    BY <1>1 DEF StartCommand
  <1> HIDE DEF failure
  <1>7. CommandTypeOK'
    <2>1. NoProcess \in ProcessRecords /\ NoOutput \in [Streams -> StreamRecords]
      BY CommandAssumption DEF NoProcess, NoOutput, ProcessRecords, StreamRecords
    <2> QED
      BY <1>5, <1>6, <2>1, CommandTypes DEF CommandInv, CommandTypeOK, WatcherRecords, ProcessRecords, StreamRecords
  <1>8. ProcessInv'
    BY <1>2, <1>5, <1>6 DEF ProcessInv, NoProcess
  <1>9. BytesInv'
    BY <1>6 DEF BytesInv, NoOutput
  <1>10. WatcherInv'
    BY <1>2, <1>4, <1>5, <1>6, CommandAssumption DEF WatcherInv
  <1> QED
    BY <1>2, <1>4, <1>5, <1>6, <1>7, <1>8, <1>9, <1>10 DEF CommandInv

\* A process is started.
LEMMA SpawnKeepsCommand ==
    ASSUME CommandInv, Spawn
    PROVE  /\ CommandInv'
           /\ watcher'.at = "watching" /\ watcher'.executable = watcher.executable
           /\ Len(ran') = Len(ran) + 1
           /\ \A i \in 1..Len(ran) : ran'[i] = ran[i]
           /\ ran'[Len(ran')].executable = watcher.executable
           /\ ran'[Len(ran')].image = executables[watcher.executable]
  <1>1. /\ watcher \in WatcherRecords /\ ran \in Seq(Spawned)
        /\ executables \in [Executables -> Files] /\ watcher.executable \in Executables
    BY CommandTypes DEF CommandInv, WatcherInv, Spawn
  <1> PICK e : e = [executable |-> watcher.executable, image |-> executables[watcher.executable],
                    code |-> Absent]
    OBVIOUS
  <1>2. /\ e \in Spawned /\ e.executable = watcher.executable
        /\ e.image = executables[watcher.executable]
    BY <1>1 DEF Spawned
  <1> PICK w : w = [watcher EXCEPT !.at = "watching"]
    OBVIOUS
  <1>3. /\ w \in WatcherRecords /\ w.at = "watching" /\ w.executable = watcher.executable
        /\ w.forced = watcher.forced /\ w.status = watcher.status /\ w.reply = watcher.reply
    BY <1>1 DEF WatcherRecords, Places
  <1> PICK t : t = Append(ran, e)
    OBVIOUS
  <1>4. /\ t \in Seq(Spawned) /\ Len(t) = Len(ran) + 1 /\ t # << >>
        /\ \A i \in 1..Len(ran) : t[i] = ran[i]
        /\ t[Len(t)] = e
    <2>1. Len(t) = Len(ran) + 1 /\ t[Len(ran) + 1] = e
      BY <1>1, <1>2, AppendSpawned
    <2> QED
      BY <1>1, <1>2, <2>1, AppendSpawned
  <1> PICK p : p = [state |-> "running", orphan |-> FALSE]
    OBVIOUS
  <1>5. p \in ProcessRecords /\ p.state = "running"
    BY DEF ProcessRecords
  <1>6. /\ watcher.at = "spawning"
        /\ watcher' = w /\ process' = p /\ ran' = t
        /\ UNCHANGED <<windows, executables, output, frozen, overflow>>
    BY DEF Spawn
  <1>7. CommandTypeOK'
    BY <1>3, <1>4, <1>5, <1>6, CommandTypes
       DEF CommandInv, CommandTypeOK, WatcherRecords, ProcessRecords, Spawned
  <1>8. ProcessInv'
    BY <1>3, <1>4, <1>5, <1>6 DEF ProcessInv
  <1>9. BytesInv'
    BY <1>6 DEF CommandInv, BytesInv
  <1>10. WatcherInv'
    BY <1>3, <1>6 DEF CommandInv, WatcherInv
  <1> QED
    BY <1>2, <1>3, <1>4, <1>6, <1>7, <1>8, <1>9, <1>10 DEF CommandInv

\* The command cannot be run or watched.
LEMMA FailureKeepsCommand ==
    ASSUME CommandInv, CommandFails
    PROVE  CommandInv' /\ watcher'.at = "done" /\ watcher'.reply.kind = "Error" /\ ran' = ran
           /\ watcher'.executable = watcher.executable
  <1>1. watcher \in WatcherRecords
    BY CommandTypes DEF CommandInv
  <1> PICK r : r = [kind |-> "Error", code |-> Absent]
    OBVIOUS
  <1>2. r \in Replies /\ r # Absent /\ r.kind = "Error"
    BY CommandAssumption DEF Replies
  <1> PICK w : w = [watcher EXCEPT !.at = "done", !.reply = r]
    OBVIOUS
  <1>3. w \in WatcherRecords /\ w.at = "done" /\ w.executable = watcher.executable /\ w.reply = r
    BY <1>1, <1>2 DEF WatcherRecords, Places
  <1>4. /\ watcher.at # "idle"
        /\ watcher' = w /\ process' = NoProcess
        /\ UNCHANGED <<windows, executables, output, frozen, overflow, ran>>
    BY DEF CommandFails, Ended
  <1>5. CommandTypeOK'
    <2>1. NoProcess \in ProcessRecords
      BY DEF NoProcess, ProcessRecords
    <2> QED
      BY <1>3, <1>4, <2>1, CommandTypes DEF CommandInv, CommandTypeOK, WatcherRecords, ProcessRecords
  <1>6. ProcessInv'
    BY <1>3, <1>4 DEF ProcessInv, NoProcess
  <1>7. BytesInv' /\ WatcherInv'
    BY <1>2, <1>3, <1>4 DEF CommandInv, BytesInv, WatcherInv
  <1> QED
    BY <1>2, <1>3, <1>4, <1>5, <1>6, <1>7 DEF CommandInv

\* The loop ends: it forces the end or saw the exit.
LEMMA LoopEndKeepsCommand ==
    ASSUME CommandInv, WatchOverflow \/ WatchTimeout \/ WatchExit
    PROVE  CommandInv' /\ watcher'.at = "stopping" /\ watcher'.executable = watcher.executable
           /\ ran' = ran
  <1>1. watcher \in WatcherRecords /\ ran \in Seq(Spawned) /\ watcher.at = "watching"
    BY CommandTypes DEF CommandInv, WatchOverflow, WatchTimeout, WatchExit
  <1>2. /\ UNCHANGED <<windows, executables, process, output, overflow, ran>>
        /\ frozen' = TRUE \/ frozen' = frozen
    BY DEF WatchOverflow, WatchTimeout, WatchExit, FrozenAfterExit
  <1>3. PICK w \in WatcherRecords :
            /\ watcher' = w /\ w.at = "stopping" /\ w.executable = watcher.executable
            /\ w.reply = watcher.reply
            /\ \/ w.forced # Absent
               \/ /\ w.status = LastCode /\ w.status # Absent /\ process.state = "exited"
                  /\ frozen' = frozen
    <2>1. ASSUME NEW force \in Forces, watcher' = [watcher EXCEPT !.at = "stopping", !.forced = force]
          PROVE  /\ watcher' \in WatcherRecords /\ watcher'.at = "stopping"
                 /\ watcher'.executable = watcher.executable
                 /\ watcher'.reply = watcher.reply /\ watcher'.forced # Absent
      BY <1>1, <2>1, CommandAssumption DEF WatcherRecords, Places
    <2>2. CASE WatchOverflow
      BY <2>1, <2>2 DEF WatchOverflow, Forces
    <2>3. CASE WatchTimeout
      BY <2>1, <2>3 DEF WatchTimeout, Forces
    <2>4. CASE WatchExit
      <3>1. ran # << >> /\ LastCode # Absent
        BY <1>1, <2>4 DEF CommandInv, ProcessInv, WatchExit
      <3>2. LastCode \in ExitCodes
        <4>1. Len(ran) \in 1..Len(ran)
          BY <1>1, <3>1
        <4>2. ran[Len(ran)] \in Spawned
          BY <1>1, <4>1
        <4> QED
          BY <3>1, <4>2 DEF LastCode, Spawned
      <3>3. watcher' = [watcher EXCEPT !.at = "stopping", !.status = LastCode]
        BY <2>4 DEF WatchExit, LastCode
      <3> PICK c \in ExitCodes : c = LastCode
        BY <3>2
      <3> PICK w : w = [watcher EXCEPT !.at = "stopping", !.status = c]
        OBVIOUS
      <3>4. /\ w \in WatcherRecords /\ w.at = "stopping" /\ w.executable = watcher.executable
            /\ w.reply = watcher.reply /\ w.status = c
        BY <1>1 DEF WatcherRecords, Places
      <3> QED
        BY <2>4, <3>1, <3>3, <3>4 DEF WatchExit, FrozenAfterExit
    <2> QED
      BY <2>2, <2>3, <2>4
  <1>4. CommandTypeOK'
    BY <1>2, <1>3, CommandTypes DEF CommandInv, CommandTypeOK, WatcherRecords
  <1>5. ProcessInv'
    BY <1>1, <1>2, <1>3 DEF CommandInv, ProcessInv, LastCode
  <1>6. BytesInv'
    BY <1>2 DEF CommandInv, BytesInv
  <1>7. WatcherInv'
    <2>1. Concluded'
      BY <1>1, <1>2, <1>3 DEF CommandInv, WatcherInv, Concluded, LastCode
    <2> QED
      BY <1>1, <1>2, <1>3, <2>1 DEF CommandInv, WatcherInv
  <1> QED
    BY <1>2, <1>3, <1>4, <1>5, <1>6, <1>7 DEF CommandInv

\* What is left in the containment is ended.
LEMMA TerminateKeepsCommand ==
    ASSUME CommandInv, Terminate
    PROVE  CommandInv' /\ watcher'.at = "joining" /\ watcher'.executable = watcher.executable
           /\ ran' = ran
  <1>1. watcher \in WatcherRecords /\ process \in ProcessRecords /\ watcher.at = "stopping"
    BY CommandTypes DEF CommandInv, Terminate
  <1> PICK w : w = [watcher EXCEPT !.at = "joining"]
    OBVIOUS
  <1>2. /\ w \in WatcherRecords /\ w.at = "joining" /\ w.executable = watcher.executable
        /\ w.forced = watcher.forced /\ w.status = watcher.status /\ w.reply = watcher.reply
    BY <1>1 DEF WatcherRecords, Places
  <1> PICK p : p = [process EXCEPT !.state = "none"]
    OBVIOUS
  <1>3. p \in ProcessRecords /\ p.state = "none"
    BY <1>1 DEF ProcessRecords
  <1>4. /\ watcher' = w /\ process' = p
        /\ UNCHANGED <<windows, executables, output, frozen, overflow, ran>>
    BY DEF Terminate
  <1>5. CommandTypeOK'
    BY <1>2, <1>3, <1>4, CommandTypes DEF CommandInv, CommandTypeOK, WatcherRecords, ProcessRecords
  <1>6. ProcessInv'
    BY <1>1, <1>2, <1>3, <1>4 DEF CommandInv, ProcessInv
  <1>7. BytesInv'
    BY <1>4 DEF CommandInv, BytesInv
  <1>8. WatcherInv'
    <2>1. Concluded'
      BY <1>1, <1>2, <1>3, <1>4 DEF CommandInv, WatcherInv, Concluded, LastCode
    <2> QED
      BY <1>1, <1>2, <1>4, <2>1 DEF CommandInv, WatcherInv
  <1> QED
    BY <1>2, <1>4, <1>5, <1>6, <1>7, <1>8 DEF CommandInv

\* The evidence of a command is made.
LEMMA JoinKeepsCommand ==
    ASSUME CommandInv, Join
    PROVE  CommandInv' /\ watcher'.at = "done" /\ watcher'.reply.kind \in Terminations
           /\ watcher'.executable = watcher.executable /\ ran' = ran
  <1>1. watcher \in WatcherRecords /\ watcher.at = "joining" /\ Drained
    BY CommandTypes DEF CommandInv, Join
  <1> PICK k : k = Termination(executables[watcher.executable] # "approved")
    OBVIOUS
  <1>2. k \in Terminations
    BY DEF Termination, Terminations
  <1>3. k = "Completed" => ~overflow /\ watcher.forced = Absent
    <2>1. watcher.forced \in {"OutputLimit", "Timeout", Absent}
      BY <1>1 DEF WatcherRecords, Forces
    <2> QED
      BY <2>1 DEF Termination
  <1> PICK r : r = [kind |-> k,
                    code |-> IF k \in {"Completed", "Invalid"} THEN watcher.status ELSE Absent]
    OBVIOUS
  <1>4. /\ r \in Replies /\ r # Absent /\ r.kind = k
        /\ k = "Completed" => r.code = watcher.status
    BY <1>1, <1>2, CommandAssumption DEF Replies, WatcherRecords
  <1> PICK w : w = [watcher EXCEPT !.at = "done", !.reply = r]
    OBVIOUS
  <1>5. w \in WatcherRecords /\ w.at = "done" /\ w.executable = watcher.executable /\ w.reply = r
    BY <1>1, <1>4 DEF WatcherRecords, Places
  <1>6. watcher' = w /\ UNCHANGED <<windows, executables, process, output, frozen, overflow, ran>>
    BY DEF Join, Ended
  <1>7. CommandTypeOK'
    BY <1>5, <1>6, CommandTypes DEF CommandInv, CommandTypeOK, WatcherRecords
  <1>8. ProcessInv'
    BY <1>1, <1>5, <1>6 DEF CommandInv, ProcessInv, Drained, LastCode
  <1>9. BytesInv'
    BY <1>6 DEF CommandInv, BytesInv
  <1>10. WatcherInv'
    <2>1. k = "Completed" => CompletedWell'
      <3>1. Concluded /\ frozen \in BOOLEAN
        BY <1>1 DEF CommandInv, WatcherInv, CommandTypeOK
      <3> QED
        BY <1>1, <1>3, <1>4, <1>5, <1>6, <3>1 DEF Concluded, CompletedWell, Drained, LastCode
    <2> QED
      BY <1>1, <1>4, <1>5, <1>6, <2>1 DEF CommandInv, WatcherInv
  <1> QED
    BY <1>2, <1>4, <1>5, <1>6, <1>7, <1>8, <1>9, <1>10 DEF CommandInv

\* A byte is read, or dropped.
LEMMA ReadKeepsCommand ==
    ASSUME CommandInv, NEW s \in Streams, Read(s)
    PROVE  CommandInv' /\ UNCHANGED <<windows, executables, watcher, ran>>
  <1>1. /\ output \in [Streams -> StreamRecords] /\ frozen \in BOOLEAN /\ overflow \in BOOLEAN
        /\ output[s].unread > 0
        /\ UNCHANGED <<windows, executables, watcher, process, ran>>
    BY CommandTypes DEF CommandInv, Read
  <1>2. OutputCap \in Nat /\ MaxBytes \in Nat
    BY CommandAssumption
  <1>3. PICK x \in StreamRecords :
            /\ output' = [output EXCEPT ![s] = x]
            /\ x.written = output[s].written /\ x.unread = output[s].unread - 1
            /\ \/ x.captured = output[s].captured /\ frozen = TRUE /\ UNCHANGED <<frozen, overflow>>
               \/ x.captured = output[s].captured /\ frozen' = TRUE /\ overflow' = TRUE
               \/ x.captured = output[s].captured + 1 /\ UNCHANGED <<frozen, overflow>>
    <2>1. output[s] \in StreamRecords
      BY <1>1
    <2>2. CASE frozen \/ output[s].captured = OutputCap
      <3> PICK x : x = [output[s] EXCEPT !.unread = @ - 1]
        OBVIOUS
      <3>1. /\ x \in StreamRecords /\ x.written = output[s].written
            /\ x.unread = output[s].unread - 1 /\ x.captured = output[s].captured
        BY <1>1, <1>2, <2>1 DEF StreamRecords
      <3>2. output' = [output EXCEPT ![s] = x]
        BY <2>2 DEF Read
      <3> QED
        BY <1>1, <2>2, <3>1, <3>2 DEF Read
    <2>3. CASE ~frozen /\ output[s].captured # OutputCap
      <3> PICK x : x = [output[s] EXCEPT !.unread = @ - 1, !.captured = @ + 1]
        OBVIOUS
      <3>1. /\ x \in StreamRecords /\ x.written = output[s].written
            /\ x.unread = output[s].unread - 1 /\ x.captured = output[s].captured + 1
        <4>1. output[s].unread - 1 \in 0..MaxBytes /\ output[s].captured + 1 \in 0..OutputCap
          BY <1>1, <1>2, <2>1, <2>3 DEF StreamRecords
        <4>2. PICK u \in 0..MaxBytes, c \in 0..OutputCap :
                 u = output[s].unread - 1 /\ c = output[s].captured + 1
          BY <4>1
        <4>3. x = [output[s] EXCEPT !.unread = u, !.captured = c]
          BY <4>2
        <4> QED
          BY <2>1, <4>2, <4>3 DEF StreamRecords
      <3>2. output' = [output EXCEPT ![s] = x]
        BY <2>3 DEF Read
      <3> QED
        BY <1>1, <2>3, <3>1, <3>2 DEF Read
    <2> QED
      BY <2>2, <2>3
  <1>4. \A t \in Streams : output'[t] = IF t = s THEN x ELSE output[t]
    BY <1>1, <1>3
  <1>5. CommandTypeOK'
    BY <1>1, <1>3, CommandTypes DEF CommandInv, CommandTypeOK, StreamRecords
  <1>6. ProcessInv'
    BY <1>1 DEF CommandInv, ProcessInv, LastCode
  <1>7. BytesInv'
    <2>1. x.written \in Nat /\ x.unread \in Nat /\ x.captured \in Nat /\ output[s] \in StreamRecords
      BY <1>1, <1>2 DEF StreamRecords
    <2>2. output[s].written \in Nat /\ output[s].unread \in Nat /\ output[s].captured \in Nat
      BY <1>2, <2>1 DEF StreamRecords
    <2>3. /\ output[s].captured + output[s].unread <= output[s].written
          /\ ~frozen => output[s].captured + output[s].unread = output[s].written
      BY DEF CommandInv, BytesInv
    <2>4. /\ x.captured + x.unread <= x.written
          /\ ~frozen' => x.captured + x.unread = x.written
      BY <1>3, <2>1, <2>2, <2>3
    <2> QED
      BY <1>3, <1>4, <2>4 DEF CommandInv, BytesInv
  <1>8. WatcherInv'
    <2>1. (frozen => overflow) => (frozen' => overflow')
      BY <1>3
    <2>2. Concluded => Concluded'
      BY <1>1, <2>1 DEF Concluded, LastCode
    <2>3. ~(watcher.at = "done" /\ watcher.reply.kind = "Completed")
      BY <1>1 DEF CommandInv, WatcherInv, CompletedWell
    <2> QED
      BY <1>1, <2>1, <2>2, <2>3 DEF CommandInv, WatcherInv
  <1> QED
    BY <1>1, <1>5, <1>6, <1>7, <1>8 DEF CommandInv

\* The process writes a byte.
LEMMA WriteKeepsCommand ==
    ASSUME CommandInv, NEW s \in Streams, Write(s)
    PROVE  CommandInv' /\ UNCHANGED <<windows, executables, watcher, ran>>
  <1>1. /\ output \in [Streams -> StreamRecords] /\ process # NoProcess
        /\ output[s].written < MaxBytes
        /\ UNCHANGED <<windows, executables, watcher, process, frozen, overflow, ran>>
    BY CommandTypes DEF CommandInv, Write
  <1>2. OutputCap \in Nat /\ MaxBytes \in Nat
    BY CommandAssumption
  <1>3. output[s] \in StreamRecords
    BY <1>1
  <1>4. /\ output[s].written \in Nat /\ output[s].unread \in Nat /\ output[s].captured \in Nat
        /\ output[s].captured + output[s].unread <= output[s].written
        /\ ~frozen => output[s].captured + output[s].unread = output[s].written
    BY <1>2, <1>3 DEF StreamRecords, CommandInv, BytesInv
  <1>5. output[s].unread + 1 \in 0..MaxBytes /\ output[s].written + 1 \in 0..MaxBytes
    BY <1>1, <1>2, <1>4
  <1>6. PICK u \in 0..MaxBytes, n \in 0..MaxBytes :
            u = output[s].unread + 1 /\ n = output[s].written + 1
    BY <1>5
  <1>7. PICK x \in StreamRecords :
            /\ output' = [output EXCEPT ![s] = x]
            /\ x.written = n /\ x.unread = u /\ x.captured = output[s].captured
    <2> PICK x : x = [output[s] EXCEPT !.written = n, !.unread = u]
      OBVIOUS
    <2>1. /\ x \in StreamRecords /\ x.written = n /\ x.unread = u
          /\ x.captured = output[s].captured
      BY <1>3 DEF StreamRecords
    <2>2. output' = [output EXCEPT ![s] = x]
      BY <1>6 DEF Write
    <2> QED
      BY <2>1, <2>2
  <1>8. output' = [output EXCEPT ![s] = x]
    BY <1>7
  <1>9. \A t \in Streams : output'[t] = IF t = s THEN x ELSE output[t]
    BY <1>1, <1>8
  <1>10. CommandTypeOK'
    BY <1>1, <1>7, <1>8, CommandTypes DEF CommandInv, CommandTypeOK, StreamRecords
  <1>11. ProcessInv'
    BY <1>1 DEF CommandInv, ProcessInv, LastCode
  <1>12. BytesInv'
    <2>1. /\ x.captured + x.unread <= x.written
          /\ ~frozen => x.captured + x.unread = x.written
      BY <1>2, <1>4, <1>6, <1>7
    <2>2. ASSUME NEW t \in Streams
          PROVE  /\ output'[t].captured + output'[t].unread <= output'[t].written
                 /\ ~frozen' => output'[t].captured + output'[t].unread = output'[t].written
      <3>1. frozen' = frozen
        BY <1>1
      <3>2. CASE t = s
        BY <1>9, <2>1, <3>1, <3>2
      <3>3. CASE t # s
        BY <1>9, <3>1, <3>3 DEF CommandInv, BytesInv
      <3> QED
        BY <3>2, <3>3
    <2> QED
      BY <2>2 DEF BytesInv
  <1>13. WatcherInv'
    <2>1. watcher.at # "done"
      BY <1>1 DEF CommandInv, ProcessInv
    <2>2. Concluded => Concluded'
      BY <1>1 DEF Concluded, LastCode
    <2> QED
      BY <1>1, <2>1, <2>2 DEF CommandInv, WatcherInv
  <1> QED
    BY <1>1, <1>10, <1>11, <1>12, <1>13 DEF CommandInv

\* The process ends.
LEMMA ExitKeepsCommand ==
    ASSUME CommandInv, NEW code \in ExitCodes, Exit(code)
    PROVE  /\ CommandInv'
           /\ watcher.at \in {"watching", "stopping"} /\ ran # << >>
           /\ UNCHANGED <<windows, executables, watcher>>
           /\ Len(ran') = Len(ran)
           /\ \A i \in 1..Len(ran) : i # Len(ran) => ran'[i] = ran[i]
           /\ ran'[Len(ran)].executable = ran[Len(ran)].executable
           /\ ran'[Len(ran)].image = ran[Len(ran)].image
  <1>1. /\ process \in ProcessRecords /\ ran \in Seq(Spawned) /\ watcher \in WatcherRecords
        /\ process.state = "running"
        /\ UNCHANGED <<windows, executables, watcher, output, frozen, overflow>>
    BY CommandTypes DEF CommandInv, Exit
  <1>2. watcher.at \in {"watching", "stopping"}
    <2>1. watcher.at \in Places
      BY <1>1 DEF WatcherRecords
    <2> QED
      BY <1>1, <2>1 DEF CommandInv, ProcessInv, NoProcess, Places
  <1>3. ran # << >>
    BY <1>2 DEF CommandInv, ProcessInv
  <1> PICK t : t = [ran EXCEPT ![Len(ran)].code = code]
    OBVIOUS
  <1>4. /\ t \in Seq(Spawned) /\ Len(t) = Len(ran) /\ t # << >>
        /\ \A i \in 1..Len(ran) : i # Len(ran) => t[i] = ran[i]
        /\ t[Len(ran)].code = code
        /\ t[Len(ran)].executable = ran[Len(ran)].executable
        /\ t[Len(ran)].image = ran[Len(ran)].image
    BY <1>1, <1>3, LastCodeSet, SMTT(60)
  <1> PICK p : p = [process EXCEPT !.state = "exited"]
    OBVIOUS
  <1>5. p \in ProcessRecords /\ p.state = "exited"
    BY <1>1 DEF ProcessRecords
  <1>6. ran' = t /\ process' = p
    BY DEF Exit
  <1>7. CommandTypeOK'
    BY <1>1, <1>4, <1>5, <1>6, CommandTypes DEF CommandInv, CommandTypeOK, ProcessRecords, Spawned
  <1>8. ProcessInv'
    BY <1>1, <1>2, <1>4, <1>6, CommandAssumption DEF ProcessInv, LastCode
  <1>9. BytesInv'
    BY <1>1 DEF CommandInv, BytesInv
  <1>10. WatcherInv'
    <2>1. Concluded => Concluded'
      BY <1>1, <1>5, <1>6 DEF Concluded
    <2> QED
      BY <1>1, <1>2, <2>1 DEF CommandInv, WatcherInv
  <1> QED
    BY <1>1, <1>2, <1>3, <1>4, <1>6, <1>7, <1>8, <1>9, <1>10 DEF CommandInv

\* A descendant leaves the containment, or ends.
LEMMA OrphanKeepsCommand ==
    ASSUME CommandInv, Escape \/ OrphanExits
    PROVE  CommandInv' /\ UNCHANGED <<windows, executables, watcher, ran>>
  <1>1. process \in ProcessRecords
    BY CommandTypes DEF CommandInv
  <1>2. /\ process # NoProcess
        /\ UNCHANGED <<windows, executables, watcher, output, frozen, overflow, ran>>
    BY DEF Escape, OrphanExits, NoProcess
  <1>3. PICK p \in ProcessRecords : process' = p /\ p.state = process.state
    <2>1. ASSUME NEW b \in BOOLEAN
          PROVE  [process EXCEPT !.orphan = b] \in ProcessRecords
                 /\ [process EXCEPT !.orphan = b].state = process.state
      BY <1>1 DEF ProcessRecords
    <2> QED
      BY <2>1 DEF Escape, OrphanExits
  <1>4. CommandTypeOK'
    BY <1>2, <1>3, CommandTypes DEF CommandInv, CommandTypeOK, ProcessRecords
  <1>5. ProcessInv'
    BY <1>2, <1>3 DEF CommandInv, ProcessInv, LastCode
  <1>6. BytesInv'
    BY <1>2 DEF CommandInv, BytesInv
  <1>7. WatcherInv'
    <2>1. Concluded => Concluded'
      BY <1>2, <1>3 DEF Concluded, LastCode
    <2>2. watcher.at # "done"
      BY <1>2 DEF CommandInv, ProcessInv
    <2> QED
      BY <1>2, <2>1, <2>2 DEF CommandInv, WatcherInv
  <1> QED
    BY <1>2, <1>4, <1>5, <1>6, <1>7 DEF CommandInv

\* Somebody replaces an executable; on Windows not one that is about to be
\* started.
LEMMA ReplaceKeepsCommand ==
    ASSUME CommandInv, NEW x \in Executables, ReplaceExecutable(x)
    PROVE  /\ CommandInv'
           /\ UNCHANGED <<windows, watcher, ran>>
           /\ windows /\ watcher.at = "spawning" =>
                executables'[watcher.executable] = executables[watcher.executable]
  <1>1. executables \in [Executables -> Files]
        /\ UNCHANGED <<windows, watcher, process, output, frozen, overflow, ran>>
    BY CommandTypes DEF CommandInv, ReplaceExecutable
  <1>2. PICK f \in Files : executables' = [executables EXCEPT ![x] = f]
    BY DEF ReplaceExecutable
  <1>3. CommandTypeOK'
    BY <1>1, <1>2 DEF CommandInv, CommandTypeOK
  <1>4. ProcessInv' /\ BytesInv'
    BY <1>1 DEF CommandInv, ProcessInv, BytesInv, LastCode
  <1>5. WatcherInv'
    BY <1>1 DEF CommandInv, WatcherInv, Concluded, CompletedWell, LastCode
  <1>6. windows /\ watcher.at = "spawning" =>
            executables'[watcher.executable] = executables[watcher.executable]
    BY <1>1, <1>2 DEF ReplaceExecutable, CommandInv, WatcherInv
  <1> QED
    BY <1>1, <1>3, <1>4, <1>5, <1>6 DEF CommandInv

\* The reply is taken, or the list of what ran is begun anew.
LEMMA IdleKeepsCommand ==
    ASSUME CommandInv, UNCHANGED <<windows, executables, process, output, frozen, overflow>>,
           \/ watcher.at = "done" /\ watcher' = NoCommand /\ ran' = ran
           \/ watcher.at = "idle" /\ watcher' = watcher /\ ran' = << >>
    PROVE  CommandInv'
  <1>1. watcher' = NoCommand /\ process' = NoProcess /\ ran' \in Seq(Spawned)
    <2>1. ran \in Seq(Spawned) /\ << >> \in Seq(Spawned)
      BY CommandTypes DEF CommandInv
    <2>2. process = NoProcess
      BY DEF CommandInv, ProcessInv
    <2>3. watcher' = NoCommand
      BY DEF CommandInv, WatcherInv
    <2> QED
      BY <2>1, <2>2, <2>3
  <1>2. CommandTypeOK'
    <2>1. NoCommand \in WatcherRecords
      BY DEF NoCommand, WatcherRecords, Places
    <2> QED
      BY <1>1, <2>1, CommandTypes DEF CommandInv, CommandTypeOK, WatcherRecords, Spawned
  <1>3. ProcessInv'
    BY <1>1 DEF ProcessInv, NoProcess, NoCommand
  <1>4. BytesInv'
    BY DEF CommandInv, BytesInv
  <1>5. WatcherInv'
    BY <1>1 DEF WatcherInv, NoCommand
  <1> QED
    BY <1>2, <1>3, <1>4, <1>5 DEF CommandInv

\* Nothing happens to the command.
LEMMA QuietKeepsCommand ==
    ASSUME CommandInv, UNCHANGED commandVars
    PROVE  CommandInv'
  BY DEF commandVars, CommandInv, CommandTypeOK, ProcessInv, BytesInv, WatcherInv, Concluded,
         CompletedWell, LastCode

-----------------------------------------------------------------------------
(* The plan.                                                               *)

\* What is said of one and goes on from each number is said of all up to n; the
\* numbers of which it is said are a set.
LEMMA UpTo ==
    ASSUME NEW n \in Nat, NEW S, 1 \in S,
           \A i \in 2..n : i - 1 \in S => i \in S
    PROVE  1..n \subseteq S
  <1> SUFFICES ASSUME 1..n \ S # {}
               PROVE  FALSE
    OBVIOUS
  <1>1. PICK m \in 1..n \ S : \A k \in 1..n \ S : ~(<<k, m>> \in OpToRel(<, Nat))
    <2>1. 1..n \ S \subseteq Nat
      OBVIOUS
    <2> QED
      BY <2>1, NatLessThanWellFounded, WFMin
  <1>2. m \in 2..n /\ m - 1 \in 1..n /\ m - 1 < m /\ m - 1 \in Nat /\ m \in Nat
    <2>1. m \in 1..n /\ m # 1
      BY <1>1
    <2> QED
      BY <2>1
  <1>3. m - 1 \in 1..n \ S
    BY <1>1, <1>2
  <1> QED
    BY <1>1, <1>2, <1>3 DEF OpToRel

\* The sequences that come one after the other, joined up to each of them.
JoinsTo(f, seqs, E, n) ==
    /\ f = [i \in 1..n |-> f[i]]
    /\ f[1] = seqs[1] /\ \A i \in 2..n : f[i] = f[i - 1] \o seqs[i]
    /\ \A i \in 1..n : f[i] \in Seq(E)

LEMMA Joins ==
    ASSUME NEW E, NEW n \in Nat \ {0}, NEW seqs \in [1..n -> Seq(E)]
    PROVE  \E f : JoinsTo(f, seqs, E, n)
  <1> DEFINE Good == {m \in 1..n : \E f : JoinsTo(f, seqs, E, m)}
  <1>1. 1 \in Good
    <2>1. PICK f : f = [i \in 1..1 |-> seqs[1]]
      OBVIOUS
    <2>2. JoinsTo(f, seqs, E, 1)
      BY <2>1 DEF JoinsTo
    <2> QED
      BY <2>2
  <1>2. ASSUME NEW m \in 2..n, m - 1 \in Good
        PROVE  m \in Good
    <2>1. PICK g : JoinsTo(g, seqs, E, m - 1)
      BY <1>2
    <2>2. PICK h : h = [i \in 1..m |-> IF i = m THEN g[m - 1] \o seqs[m] ELSE g[i]]
      OBVIOUS
    <2>3. m \in 1..m /\ m \in 1..n /\ m - 1 \in 1..(m - 1) /\ m - 1 \in 1..m /\ m - 1 # m
      OBVIOUS
    <2>4. /\ h[m] = h[m - 1] \o seqs[m] /\ h[m - 1] = g[m - 1]
          /\ \A i \in 1..(m - 1) : h[i] = g[i]
      BY <2>2, <2>3
    <2>5. h[m] \in Seq(E)
      BY <2>1, <2>3, <2>4, ConcatProperties DEF JoinsTo
    <2>6. \A i \in 1..m : i = m \/ i \in 1..(m - 1)
      OBVIOUS
    <2>7. \A i \in 2..m : i = m \/ (i \in 2..(m - 1) /\ i - 1 \in 1..(m - 1) /\ i \in 1..(m - 1))
      OBVIOUS
    <2>8. h = [i \in 1..m |-> h[i]] /\ 1 \in 1..(m - 1)
      BY <2>2
    <2>9. \A i \in 1..m : h[i] \in Seq(E)
      BY <2>1, <2>4, <2>5, <2>6 DEF JoinsTo
    <2>10. \A i \in 2..m : h[i] = h[i - 1] \o seqs[i]
      BY <2>1, <2>4, <2>7 DEF JoinsTo
    <2>11. JoinsTo(h, seqs, E, m)
      BY <2>1, <2>4, <2>8, <2>9, <2>10 DEF JoinsTo
    <2> QED
      BY <2>3, <2>11
  <1>3. n \in Good
    <2>1. 1..n \subseteq Good
      <3> HIDE DEF Good
      <3> QED
        BY <1>1, <1>2, UpTo
    <2> QED
      BY <2>1
  <1> QED
    BY <1>3

LEMMA FlattenJoins ==
    ASSUME NEW E, NEW n \in Nat \ {0}, NEW seqs \in [1..n -> Seq(E)], Len(seqs) = n
    PROVE  \E f : JoinsTo(f, seqs, E, n) /\ FlattenSeq(seqs) = f[n]
  <1> DEFINE Body(f, i) == IF i = 1 THEN seqs[i] ELSE f[i - 1] \o seqs[i]
             Is(f) == f = [i \in 1..n |-> Body(f, i)]
  <1>1. PICK g : JoinsTo(g, seqs, E, n)
    BY Joins
  <1>2. Is(g)
    <2>1. ASSUME NEW i \in 1..n
          PROVE  g[i] = Body(g, i)
      <3>1. i = 1 \/ i \in 2..n
        OBVIOUS
      <3> QED
        BY <1>1, <3>1 DEF JoinsTo
    <2> HIDE DEF Body
    <2> QED
      BY <1>1, <2>1 DEF JoinsTo
  <1>3. PICK f : f = CHOOSE h : Is(h)
    OBVIOUS
  <1>4. Is(f)
    <2> HIDE DEF Is
    <2> QED
      BY <1>2, <1>3
  <1>5. FlattenSeq(seqs) = f[n]
    BY <1>3 DEF FlattenSeq
  <1>6. \A i \in 1..n : f[i] = Body(f, i)
    <2> HIDE DEF Body
    <2> QED
      BY <1>4
  <1>7. f[1] = seqs[1] /\ \A i \in 2..n : f[i] = f[i - 1] \o seqs[i]
    <2>1. 1 \in 1..n /\ \A i \in 2..n : i \in 1..n /\ i # 1
      OBVIOUS
    <2> QED
      BY <1>6, <2>1
  <1>8. f = [i \in 1..n |-> f[i]]
    <2> HIDE DEF Body
    <2> QED
      BY <1>4
  <1>9. ASSUME NEW i \in 1..n
        PROVE  f[i] \in Seq(E)
    <2>1. PICK S : S = {m \in 1..n : f[m] \in Seq(E)}
      OBVIOUS
    <2>2. 1 \in S
      BY <1>7, <2>1
    <2>3. ASSUME NEW m \in 2..n, m - 1 \in S
          PROVE  m \in S
      <3>1. m \in 1..n /\ f[m - 1] \in Seq(E) /\ seqs[m] \in Seq(E)
        BY <2>1, <2>3
      <3>2. f[m] = f[m - 1] \o seqs[m]
        BY <1>7
      <3>3. f[m - 1] \o seqs[m] \in Seq(E)
        BY <3>1, ConcatProperties
      <3> QED
        BY <2>1, <3>1, <3>2, <3>3
    <2>4. 1..n \subseteq S
      BY <2>2, <2>3, UpTo
    <2> QED
      BY <2>1, <2>4
  <1>10. JoinsTo(f, seqs, E, n)
    BY <1>7, <1>8, <1>9 DEF JoinsTo
  <1> QED
    BY <1>5, <1>10

\* Each joined entry keeps the place of the sequence it came from.
LEMMA JoinsInOrder ==
    ASSUME NEW E, \A x \in E : x.capability \in Nat,
           NEW n \in Nat \ {0}, NEW seqs \in [1..n -> Seq(E)],
           \A i \in 1..n : \A k \in DOMAIN seqs[i] : seqs[i][k].capability = i,
           NEW f, JoinsTo(f, seqs, E, n)
    PROVE  \A i, j \in DOMAIN f[n] : i <= j => f[n][i].capability <= f[n][j].capability
  <1>1. PICK S : S = {m \in 1..n :
                        /\ \A i \in DOMAIN f[m] : f[m][i].capability <= m
                        /\ \A i, j \in DOMAIN f[m] :
                             i <= j => f[m][i].capability <= f[m][j].capability}
    OBVIOUS
  <1>3. 1 \in S
    <2>1. 1 \in 1..n /\ f[1] = seqs[1]
      BY DEF JoinsTo
    <2>2. \A i \in DOMAIN f[1] : f[1][i].capability = 1
      BY <2>1
    <2> QED
      BY <1>1, <2>1, <2>2
  <1>4. ASSUME NEW m \in 2..n, m - 1 \in S
        PROVE  m \in S
    <2>0. m \in 1..n /\ m - 1 \in 1..n
      OBVIOUS
    <2>1. PICK a, b, c : a = f[m - 1] /\ b = seqs[m] /\ c = f[m]
      OBVIOUS
    <2>10. c = a \o b /\ a \in Seq(E) /\ b \in Seq(E)
      BY <2>0, <2>1 DEF JoinsTo
    <2>2. /\ Len(a) \in Nat /\ Len(b) \in Nat /\ DOMAIN a = 1..Len(a) /\ DOMAIN b = 1..Len(b)
          /\ c \in Seq(E) /\ DOMAIN c = 1..(Len(a) + Len(b))
          /\ \A i \in 1..(Len(a) + Len(b)) :
               c[i] = IF i <= Len(a) THEN a[i] ELSE b[i - Len(a)]
      BY <2>10, ConcatProperties
    <2>3. \A i \in DOMAIN c : i <= Len(a) => i \in DOMAIN a /\ c[i] = a[i]
      BY <2>2
    <2>4. \A i \in DOMAIN c : ~(i <= Len(a)) => i - Len(a) \in DOMAIN b /\ c[i] = b[i - Len(a)]
      BY <2>2
    <2>5. \A i \in DOMAIN a : a[i].capability <= m - 1 /\ a[i].capability \in Nat
      <3>1. \A x \in E : x.capability \in Nat
        OBVIOUS
      <3>2. \A i \in DOMAIN a : a[i] \in E
        BY <2>10
      <3> QED
        BY <1>1, <1>4, <2>1, <3>1, <3>2
    <2>6. \A i \in DOMAIN b : b[i].capability = m
      BY <2>0, <2>1
    <2>7. \A i \in DOMAIN c : c[i].capability <= m
      BY <2>3, <2>4, <2>5, <2>6
    <2>8. ASSUME NEW i \in DOMAIN c, NEW j \in DOMAIN c, i <= j
          PROVE  c[i].capability <= c[j].capability
      <3>1. CASE j <= Len(a)
        <4>1. i <= Len(a)
          BY <2>2, <2>8, <3>1
        <4> QED
          BY <1>1, <1>4, <2>1, <2>3, <2>8, <3>1, <4>1
      <3>2. CASE ~(j <= Len(a))
        <4>1. c[j].capability = m
          BY <2>4, <2>6, <3>2
        <4> QED
          BY <2>7, <4>1
      <3> QED
        BY <3>1, <3>2
    <2>9. m \in 1..n
      OBVIOUS
    <2> QED
      BY <1>1, <2>1, <2>7, <2>8, <2>9
  <1>5. 1..n \subseteq S
    BY <1>3, <1>4, UpTo
  <1> QED
    BY <1>1, <1>5

\* Of a sequence of sequences, one after the other, each entry keeps the place of
\* the one it came from.
LEMMA PlanInOrder ==
    ASSUME NEW r \in Requests, NEW X, X = UNION {ToSet(d.commands) : d \in ToSet(r.capabilities)}
    PROVE  /\ Plan(r) \in Seq([capability : 1..Len(r.capabilities), executable : X])
           /\ \A i, j \in DOMAIN Plan(r) :
                i <= j => Plan(r)[i].capability <= Plan(r)[j].capability
  <1>0. r.capabilities \in Seq(Definitions)
    BY VerifierAssumption
  <1>1. PICK caps, n : /\ caps = r.capabilities /\ n = Len(caps) /\ n \in Nat
                       /\ DOMAIN caps = 1..n
    BY <1>0
  <1>2. PICK seqs : seqs = [i \in 1..n |->
                              [j \in 1..Len(caps[i].commands) |->
                                 [capability |-> i, executable |-> caps[i].commands[j]]]]
    OBVIOUS
  <1>3. Plan(r) = FlattenSeq(seqs)
    BY <1>1, <1>2 DEF Plan
  <1>4. PICK E : E = [capability : 1..n, executable : X]
    OBVIOUS
  <1>5. ASSUME NEW i \in 1..n
        PROVE  /\ seqs[i] \in Seq(E)
               /\ \A k \in DOMAIN seqs[i] : seqs[i][k].capability = i
    <2>1. PICK d : d = caps[i] /\ d \in ToSet(r.capabilities)
      BY <1>1 DEF ToSet
    <2>2. d.commands \in Seq(ToSet(d.commands))
      BY <2>1, VerifierAssumption
    <2>3. PICK m, C : /\ C = d.commands /\ m = Len(C) /\ m \in Nat /\ DOMAIN C = 1..m
      BY <2>2
    <2>4. PICK s : s = seqs[i] /\ s = [j \in 1..m |-> [capability |-> i, executable |-> C[j]]]
      BY <1>2, <2>1, <2>3
    <2>5. ASSUME NEW j \in 1..m
          PROVE  s[j] \in E /\ s[j].capability = i
      <3>1. C[j] \in ToSet(d.commands)
        BY <2>3 DEF ToSet
      <3>2. C[j] \in X
        BY <2>1, <3>1
      <3> QED
        BY <1>4, <2>4, <3>2
    <2>6. s = [j \in 1..m |-> s[j]] /\ DOMAIN s = 1..m
      BY <2>4
    <2>7. s \in [1..m -> E]
      BY <2>5, <2>6
    <2>8. s \in Seq(E)
      BY <2>3, <2>7, SeqDef
    <2> QED
      BY <2>4, <2>5, <2>6, <2>8
  <1>6. seqs \in [1..n -> Seq(E)] /\ Len(seqs) = n
    <2>1. seqs \in [1..n -> Seq(E)]
      BY <1>2, <1>5
    <2>2. seqs \in Seq(Seq(E))
      BY <1>1, <2>1, SeqDef
    <2>3. Len(seqs) \in Nat /\ 1..Len(seqs) = 1..n
      BY <2>1, <2>2
    <2> QED
      BY <1>1, <2>1, <2>3
  <1>7. \A x \in E : x.capability \in Nat
    BY <1>1, <1>4
  <1>8. /\ Plan(r) \in Seq(E)
        /\ \A i, j \in DOMAIN Plan(r) :
             i <= j => Plan(r)[i].capability <= Plan(r)[j].capability
    <2>1. CASE n = 0
      <3>1. Plan(r) = seqs /\ seqs = << >>
        BY <1>3, <1>6, <2>1 DEF FlattenSeq
      <3> QED
        BY <3>1
    <2>2. CASE n # 0
      <3>1. n \in Nat \ {0}
        BY <1>1, <2>2
      <3>2. PICK f : JoinsTo(f, seqs, E, n) /\ Plan(r) = f[n]
        BY <1>3, <1>6, <3>1, FlattenJoins
      <3>3. \A i, j \in DOMAIN f[n] : i <= j => f[n][i].capability <= f[n][j].capability
        BY <1>5, <1>6, <1>7, <3>1, <3>2, JoinsInOrder
      <3>4. f[n] \in Seq(E)
        BY <3>1, <3>2 DEF JoinsTo
      <3> QED
        BY <3>2, <3>3, <3>4
    <2> QED
      BY <2>1, <2>2
  <1> QED
    BY <1>1, <1>4, <1>8

\* Each entry of the plan is a command of a capability, and they come in the
\* order of the capabilities.
LEMMA PlanFacts ==
    ASSUME NEW r \in Requests, CrossBound(r), NEW plan, plan = Plan(r)
    PROVE  /\ Len(plan) \in Nat /\ DOMAIN plan = 1..Len(plan)
           /\ Len(r.capabilities) \in Nat /\ DOMAIN r.capabilities = 1..Len(r.capabilities)
           /\ \A i \in DOMAIN plan : /\ plan[i].capability \in 1..Len(r.capabilities)
                                     /\ plan[i].executable \in Executables
           /\ \A i, j \in DOMAIN plan : i <= j => plan[i].capability <= plan[j].capability
  <1>0. PICK X : X = UNION {ToSet(d.commands) : d \in ToSet(r.capabilities)}
    OBVIOUS
  <1>1. plan \in Seq([capability : 1..Len(r.capabilities), executable : X])
        /\ \A i, j \in DOMAIN plan : i <= j => plan[i].capability <= plan[j].capability
    BY <1>0, PlanInOrder
  <1>2. X \subseteq Executables
    BY <1>0 DEF CrossBound, CommandsValid
  <1>3. r.capabilities \in Seq(Definitions)
    BY VerifierAssumption
  <1>4. PICK Y : Y = [capability : 1..Len(r.capabilities), executable : X]
    OBVIOUS
  <1>5. plan \in Seq(Y)
    BY <1>1, <1>4
  <1>6. \A i \in DOMAIN plan : plan[i] \in Y
    BY <1>5
  <1> QED
    BY <1>1, <1>2, <1>3, <1>4, <1>5, <1>6

\* Where a plan is, its request was accepted.
JobPlanned == job.request \in Requests /\ CrossBound(job.request)

\* Places of a range that begins later.
LEMMA ShiftedRange ==
    ASSUME NEW a \in Nat, NEW b \in Nat, NEW n \in Nat, a <= b, b <= n
    PROVE  b - a + 1 \in 1..(n - a + 1)
  OBVIOUS

\* What counts for a command and everything after it counts for each later one.
LEMMA LaterCriteria ==
    ASSUME JobPlanned, NEW i \in DOMAIN Planned, NEW j \in DOMAIN Planned, i <= j
    PROVE  CriteriaAt(j) \subseteq CriteriaFrom(i)
  <1>1. PICK r \in Requests : r = job.request /\ CrossBound(r)
    BY DEF JobPlanned
  <1>2. PICK plan : plan = Plan(r)
    OBVIOUS
  <1>3. PICK a, b \in 1..Len(r.capabilities) :
            a = plan[i].capability /\ b = plan[j].capability /\ a <= b
    BY <1>1, <1>2, PlanFacts DEF Planned
  <1>4. PICK n \in Nat : n = Len(r.capabilities)
    BY <1>1, <1>2, PlanFacts
  <1>5. PICK s : s = r.capabilities
    OBVIOUS
  <1>6. s \in Seq(Definitions)
    BY <1>5, VerifierAssumption
  <1>7. PICK t : t = SubSeq(s, a, n)
    OBVIOUS
  <1>8. /\ b - a + 1 \in 1..(n - a + 1)
        /\ Len(t) = n - a + 1 /\ t \in Seq(Definitions)
        /\ \A k \in 1..(n - a + 1) : t[k] = s[a + k - 1]
    <2>1. a \in Int /\ n \in Int /\ \A k \in a..n : s[k] \in Definitions
      BY <1>3, <1>4, <1>5, <1>6
    <2>2. a <= n /\ a \in Nat /\ b \in Nat /\ b <= n
      BY <1>3, <1>4
    <2>3. t \in Seq(Definitions) /\ Len(t) = n - a + 1
          /\ \A k \in 1..(n - a + 1) : t[k] = s[a + k - 1]
      BY <1>7, <2>1, <2>2, SubSeqProperties
    <2>4. b - a + 1 \in 1..(n - a + 1)
      <3>1. a <= b
        BY <1>3
      <3> QED
        BY <2>2, <3>1, ShiftedRange
    <2> QED
      BY <2>3, <2>4
  <1>9. t[b - a + 1] = s[b]
    BY <1>3, <1>4, <1>8
  <1>10. s[b] \in ToSet(t)
    BY <1>3, <1>8, <1>9 DEF ToSet
  <1>11. CriteriaFrom(i) = CriteriaOf(t) /\ CriteriaAt(j) = s[b].criteria
    BY <1>1, <1>2, <1>3, <1>4, <1>5, <1>7 DEF CriteriaFrom, CriteriaAt, Planned
  <1> QED
    BY <1>10, <1>11 DEF CriteriaOf

-----------------------------------------------------------------------------
(* The verification.                                                       *)

Before == {"preparing", "copying", "copied", "rechecking"}
After == {"closing", "sealing", "publishing"}
Stages == {"idle", "running", "waiting", "done"} \cup Before \cup After

JobTyped ==
    /\ job \in [at : Stages, count : {job.count}, request : Requests \cup {None},
                expected : {job.expected}, next : Nat, verdicts : {job.verdicts},
                failures : {job.failures}, transcript : {job.transcript},
                post : {job.post}, reply : {job.reply}]
    /\ \A c \in DOMAIN job.verdicts : job.verdicts[c] \in Verdicts

Passes(c) == c \in DOMAIN job.verdicts /\ job.verdicts[c] = "Pass"

\* A pass stands for the commands before this one.
EarnedBefore(m) ==
    \A c, i : Passes(c) /\ i \in DOMAIN Planned /\ i < m /\ c \in CriteriaAt(i) => RanWell(i)

\* A pass stands for every command.
Settled ==
    \A c : Passes(c) =>
        job.post = "manifest" /\ \A i \in DOMAIN Planned : c \in CriteriaAt(i) => RanWell(i)

\* The command of the plan that is under way was started from what was checked.
Started ==
    /\ Len(ran) = job.next
    /\ ran[job.next].executable = Planned[job.next].executable
    /\ windows => ran[job.next].image = "approved"

Watched ==
    /\ watcher.at # "idle"
    /\ watcher.executable = Planned[job.next].executable
    /\ watcher.at = "spawning" =>
         /\ Len(ran) = job.next - 1
         /\ windows => executables[watcher.executable] = "approved"
    /\ watcher.at \in {"watching", "stopping", "joining"} => Started
    /\ watcher.at = "done" /\ watcher.reply.kind \in Terminations => Started

JobInv ==
    /\ JobTyped
    /\ job.at # "idle" => JobPlanned
    /\ job.at # "waiting" => watcher.at = "idle"
    /\ job.at # "done" => job.reply # "Published"
    /\ job.at = "idle" => job.verdicts = << >>
    /\ job.at \in Before =>
         job.verdicts = << >> /\ job.next # 0 /\ job.post = "manifest" /\ ran = << >>
    /\ job.at \in {"running", "waiting"} =>
         job.next # 0 /\ job.post = "manifest" /\ EarnedBefore(job.next)
    /\ job.at = "running" => Len(ran) = job.next - 1
    /\ job.at = "waiting" => job.next \in DOMAIN Planned /\ Watched
    /\ job.at \in After => Settled
    /\ job.at = "done" => Settled \/ job.reply # "Published"

VerifyInv == CommandInv /\ JobInv

\* The invariant holds at first.
LEMMA VerifyHolds == SystemInit => VerifyInv
  <1> SUFFICES ASSUME SystemInit
               PROVE  JobInv
    BY CommandInvHolds DEF VerifyInv
  <1>1. job = NoJob /\ watcher = NoCommand
    BY DEF SystemInit, VerifierInit, CommandInit
  <1>2. JobTyped
    BY <1>1 DEF JobTyped, NoJob, Stages
  <1> QED
    BY <1>1, <1>2, VerifierAssumption DEF JobInv, NoJob, NoCommand, Before, After

\* The plan is that of the request.
LEMMA SamePlan ==
    ASSUME job'.request = job.request
    PROVE  /\ Planned' = Planned /\ (JobPlanned => JobPlanned')
           /\ \A i : CriteriaAt(i)' = CriteriaAt(i)
           /\ \A i : CriteriaFrom(i)' = CriteriaFrom(i)
  BY DEF Planned, CriteriaAt, CriteriaFrom, JobPlanned

\* A command that ran well did so for good.
LEMMA RanWellStays ==
    ASSUME job'.request = job.request, windows' = windows, NEW i, RanWell(i),
           i \in DOMAIN ran', ran'[i] = ran[i]
    PROVE  RanWell(i)'
  BY SamePlan DEF RanWell

\* The request is taken.
LEMMA StartKeepsJob ==
    ASSUME VerifyInv, NEW r \in Requests, StartVerify(r)
    PROVE  VerifyInv'
  <1> PICK j : j = [NoJob EXCEPT !.at = "preparing", !.count = job.count + 1, !.request = r,
                                 !.expected = evidence[r.key], !.next = 1]
    OBVIOUS
  <1>1. /\ j \in [at : Stages, count : {j.count}, request : Requests \cup {None},
                  expected : {j.expected}, next : Nat, verdicts : {j.verdicts},
                  failures : {j.failures}, transcript : {j.transcript},
                  post : {j.post}, reply : {j.reply}]
        /\ j.at = "preparing" /\ j.request = r /\ j.next = 1 /\ j.verdicts = << >>
        /\ j.post = "manifest" /\ j.reply = None
    BY DEF NoJob, Stages, Before
  <1>2. job' = j /\ ran' = << >> /\ watcher' = watcher /\ job.at = "idle" /\ CrossBound(r)
    BY DEF StartVerify, Accepted
  <1>3. watcher.at = "idle"
    BY <1>2 DEF VerifyInv, JobInv
  <1>4. CommandInv'
    BY <1>2, <1>3, IdleKeepsCommand DEF StartVerify, VerifyInv
  <1>5. JobTyped'
    BY <1>1, <1>2 DEF JobTyped
  <1>6. JobInv'
    BY <1>1, <1>2, <1>3, <1>5, VerifierAssumption DEF JobInv, JobPlanned, Before, After
  <1> QED
    BY <1>4, <1>6 DEF VerifyInv

\* Everything is published with one verdict that is no pass.
LEMMA PublishAllKeepsJob ==
    ASSUME JobInv, job.at \in Before, UNCHANGED commandVars,
           NEW verdict \in Verdicts, verdict # "Pass", NEW failure, NEW post,
           job' = PublishAll(verdict, failure, post)
    PROVE  JobInv'
  <1>1. PICK v : v = ForAll(verdict)
    OBVIOUS
  <1>2. \A c \in DOMAIN v : v[c] = verdict
    BY <1>1 DEF ForAll
  <1>3. /\ job' = [job EXCEPT !.at = "publishing", !.verdicts = v,
                              !.failures = {failure}, !.post = post]
        /\ watcher' = watcher
    BY <1>1 DEF PublishAll, commandVars
  <1>4. JobTyped' /\ job'.at = "publishing" /\ job'.request = job.request /\ job'.verdicts = v
        /\ job'.reply = job.reply
    <2>1. PICK fs : fs = {failure}
      OBVIOUS
    <2>2. job' = [job EXCEPT !.at = "publishing", !.verdicts = v, !.failures = fs, !.post = post]
      BY <1>3, <2>1
    <2>3. /\ job'.at = "publishing" /\ job'.request = job.request /\ job'.verdicts = v
          /\ job'.reply = job.reply
      BY <2>2 DEF JobInv, JobTyped
    <2>4. job' \in [at : Stages, count : {job'.count}, request : Requests \cup {None},
                    expected : {job'.expected}, next : Nat, verdicts : {job'.verdicts},
                    failures : {job'.failures}, transcript : {job'.transcript},
                    post : {job'.post}, reply : {job'.reply}]
      BY <2>2 DEF JobInv, JobTyped, Stages, After
    <2>5. \A c \in DOMAIN job'.verdicts : job'.verdicts[c] \in Verdicts
      BY <1>2, <2>3
    <2> QED
      BY <2>3, <2>4, <2>5 DEF JobTyped
  <1>5. Settled'
    BY <1>2, <1>4 DEF Settled, Passes
  <1>6. JobPlanned'
    BY <1>4, SamePlan DEF JobInv, Before
  <1> QED
    BY <1>3, <1>4, <1>5, <1>6 DEF JobInv, Before, After

\* The job goes on before anything runs.
LEMMA GoOnKeepsJob ==
    ASSUME JobInv, job.at \in Before, UNCHANGED commandVars,
           NEW place \in Before, NEW n \in Nat, n # 0,
           job' = [job EXCEPT !.at = place, !.next = n]
    PROVE  JobInv'
  <1>1. /\ JobTyped' /\ job'.at = place /\ job'.next = n /\ job'.request = job.request
        /\ job'.verdicts = job.verdicts /\ job'.post = job.post /\ job'.reply = job.reply
    BY DEF JobInv, JobTyped, Stages
  <1>2. JobPlanned' /\ watcher' = watcher /\ ran' = ran
    BY <1>1, SamePlan DEF JobInv, Before, commandVars
  <1> QED
    BY <1>1, <1>2 DEF JobInv, Before, After

\* The commands are prepared, the source is copied and checked.
LEMMA PrepareKeepsJob ==
    ASSUME VerifyInv, Prepare \/ CopySource \/ CheckCopy
    PROVE  VerifyInv'
  <1>1. job.at \in Before /\ UNCHANGED commandVars /\ JobInv /\ job.next \in Nat
    BY DEF Prepare, CopySource, CheckCopy, Before, VerifyInv, JobInv, JobTyped
  <1>2. CASE Prepare
    <2>1. PICK f : f = PrepareFailure(Planned[job.next].executable)
      OBVIOUS
    <2>2. CASE job.next > Len(Planned)
      <3>1. job' = [job EXCEPT !.at = "copying", !.next = 1]
        BY <1>2, <2>2 DEF Prepare, Does, JobAt
      <3>2. "copying" \in Before /\ 1 \in Nat /\ 1 # 0
        BY DEF Before
      <3>3. JobInv'
        BY <1>1, <3>1, <3>2, GoOnKeepsJob, Zenon
      <3> QED
        BY <1>1, <3>3, QuietKeepsCommand DEF VerifyInv
    <2>3. CASE ~(job.next > Len(Planned)) /\ f = Absent
      <3>1. job.next + 1 \in Nat /\ job.next + 1 # 0
        BY <1>1
      <3>2. job' = [job EXCEPT !.next = job.next + 1]
        BY <1>2, <2>1, <2>3 DEF Prepare, Does
      <3>3. job' = [job EXCEPT !.at = job.at, !.next = job.next + 1]
        BY <3>2 DEF VerifyInv, JobInv, JobTyped
      <3> QED
        BY <1>1, <3>1, <3>3, GoOnKeepsJob, QuietKeepsCommand DEF VerifyInv
    <2>4. CASE ~(job.next > Len(Planned)) /\ f # Absent
      <3>1. f \in {"Refused", "Unavailable", "Tampered"}
        BY <2>1, <2>4 DEF PrepareFailure, FileFailure
      <3>2. PICK v : v = PreflightShape[f].verdict
        OBVIOUS
      <3>3. v \in Verdicts /\ v # "Pass"
        BY <3>1, <3>2 DEF PreflightShape, Verdicts
      <3>4. job' = PublishAll(v, Failure(PreflightShape[f].code, job.next), "manifest")
        BY <1>2, <2>1, <2>4, <3>2 DEF Prepare, Does
      <3> QED
        BY <1>1, <3>3, <3>4, PublishAllKeepsJob, QuietKeepsCommand DEF VerifyInv
    <2> QED
      BY <2>2, <2>3, <2>4
  <1>3. CASE CopySource
    <2>1. CASE source = "manifest"
      <3>1. job' = [job EXCEPT !.at = "copied", !.next = 1]
        BY <1>3, <2>1 DEF CopySource, Does, JobAt
      <3>2. "copied" \in Before /\ 1 \in Nat /\ 1 # 0
        BY DEF Before
      <3>3. JobInv'
        BY <1>1, <3>1, <3>2, GoOnKeepsJob, Zenon
      <3> QED
        BY <1>1, <3>3, QuietKeepsCommand DEF VerifyInv
    <2>2. CASE source # "manifest"
      <3>1. job' = PublishAll("Invalid", Failure("SourceDrift", None), "drifted")
        BY <1>3, <2>2 DEF CopySource, Does
      <3> QED
        BY <1>1, <3>1, PublishAllKeepsJob, QuietKeepsCommand DEF VerifyInv, Verdicts
    <2> QED
      BY <2>1, <2>2
  <1>4. CASE CheckCopy
    <2>1. \/ job' = PublishAll("Invalid", Failure("SourceDrift", None), "drifted")
          \/ job' = PublishAll("Invalid", Failure("SnapshotTamper", None), "manifest")
          \/ job' = JobAt("rechecking")
      BY <1>4 DEF CheckCopy, Does
    <2>2. CASE job' = JobAt("rechecking")
      <3>1. job' = [job EXCEPT !.at = "rechecking", !.next = 1]
        BY <2>2 DEF JobAt
      <3>2. "rechecking" \in Before /\ 1 \in Nat /\ 1 # 0
        BY DEF Before
      <3>3. JobInv'
        BY <1>1, <3>1, <3>2, GoOnKeepsJob, Zenon
      <3> QED
        BY <1>1, <3>3, QuietKeepsCommand DEF VerifyInv
    <2>3. CASE job' # JobAt("rechecking")
      BY <1>1, <2>1, <2>3, PublishAllKeepsJob, QuietKeepsCommand DEF VerifyInv, Verdicts
    <2> QED
      BY <2>2, <2>3
  <1> QED
    BY <1>2, <1>3, <1>4

\* Every executable is looked at once more; then the commands may run.
LEMMA RecheckKeepsJob ==
    ASSUME VerifyInv, Recheck
    PROVE  VerifyInv'
  <1>1. job.at \in Before /\ UNCHANGED commandVars /\ JobInv /\ job.next \in Nat
    BY DEF Recheck, Before, VerifyInv, JobInv, JobTyped
  <1>2. CommandInv'
    BY <1>1, QuietKeepsCommand DEF VerifyInv
  <1>3. CASE job.next > Len(Planned)
    <2>1. PICK v : v = ForAll("Pass")
      OBVIOUS
    <2>2. \A c \in DOMAIN v : v[c] = "Pass"
      BY <2>1 DEF ForAll
    <2>3. PICK j : j = [job EXCEPT !.at = "running", !.next = 1]
      OBVIOUS
    <2>4. job' = [job EXCEPT !.at = "running", !.next = 1, !.verdicts = v]
      BY <1>3, <2>1 DEF Recheck, Does, JobAt
    <2>5. /\ JobTyped' /\ job'.at = "running" /\ job'.next = 1 /\ job'.request = job.request
          /\ job'.verdicts = v /\ job'.post = job.post /\ job'.reply = job.reply
      BY <2>2, <2>4 DEF VerifyInv, JobInv, JobTyped, Stages, Verdicts
    <2>6. watcher' = watcher /\ ran' = ran /\ JobPlanned'
      BY <1>1, <2>5, SamePlan DEF JobInv, Before, commandVars
    <2>7. Len(ran) = 0 /\ watcher.at = "idle"
      BY <1>1 DEF JobInv, Before
    <2>8. EarnedBefore(1)'
      <3>1. \A i \in DOMAIN Planned' : ~(i < 1)
        <4>1. PICK r \in Requests : r = job'.request /\ CrossBound(r)
          BY <2>6 DEF JobPlanned
        <4> QED
          BY <4>1, PlanFacts DEF Planned
      <3> QED
        BY <3>1 DEF EarnedBefore
    <2>9. JobInv'
      BY <1>1, <2>5, <2>6, <2>7, <2>8 DEF JobInv, Before, After
    <2> QED
      BY <1>2, <2>9 DEF VerifyInv
  <1>4. CASE ~(job.next > Len(Planned)) /\ FileFailure(Planned[job.next].executable) = Absent
    <2>1. job.next + 1 \in Nat /\ job.next + 1 # 0
      BY <1>1
    <2>2. job' = [job EXCEPT !.next = job.next + 1]
      BY <1>4 DEF Recheck, Does
    <2>3. job' = [job EXCEPT !.at = job.at, !.next = job.next + 1]
      BY <2>2 DEF VerifyInv, JobInv, JobTyped
    <2> QED
      BY <1>1, <1>2, <2>1, <2>3, GoOnKeepsJob DEF VerifyInv
  <1>5. CASE ~(job.next > Len(Planned)) /\ FileFailure(Planned[job.next].executable) # Absent
    BY <1>1, <1>2, <1>5, PublishAllKeepsJob DEF Recheck, Does, VerifyInv, Verdicts
  <1> QED
    BY <1>3, <1>4, <1>5

\* The next command is begun.
LEMMA RunKeepsJob ==
    ASSUME VerifyInv, RunCommand
    PROVE  VerifyInv'
  <1>1. /\ job.at = "running" /\ job.next \in Nat /\ job.next # 0 /\ job.next <= Len(Planned)
        /\ JobPlanned /\ job.post = "manifest" /\ EarnedBefore(job.next)
        /\ Len(ran) = job.next - 1 /\ job.reply # "Published"
    BY DEF RunCommand, VerifyInv, JobInv, JobTyped
  <1>2. job.next \in DOMAIN Planned /\ Planned[job.next].executable \in Executables
    BY <1>1, PlanFacts DEF JobPlanned, Planned
  <1>3. PICK x \in Executables : x = Planned[job.next].executable
    BY <1>2
  <1>4. PICK directory : StartCommand(x, directory)
    BY <1>3 DEF RunCommand
  <1>5. /\ CommandInv' /\ watcher'.executable = x
        /\ \/ watcher'.at = "spawning" /\ executables[x] = "approved"
           \/ watcher'.at = "done"
                /\ watcher'.reply.kind \in {"SnapshotTamper", "Unavailable", "Tampered"}
    BY <1>4, StartKeepsCommand DEF VerifyInv
  <1>6. UNCHANGED <<windows, executables, ran>>
    BY <1>4 DEF StartCommand
  <1>7. job' = [job EXCEPT !.at = "waiting"]
    BY DEF RunCommand, Does
  <1>8. /\ JobTyped' /\ job'.at = "waiting" /\ job'.next = job.next /\ job'.request = job.request
        /\ job'.verdicts = job.verdicts /\ job'.post = job.post /\ job'.reply = job.reply
    BY <1>7 DEF VerifyInv, JobInv, JobTyped, Stages
  <1>9. Planned' = Planned /\ JobPlanned'
    BY <1>1, <1>8, SamePlan
  <1>10. EarnedBefore(job.next)'
    <2>1. PICK m : m = job.next
      OBVIOUS
    <2>2. ASSUME NEW c, NEW i, Passes(c)', i \in DOMAIN Planned', i < m, c \in CriteriaAt(i)'
          PROVE  RanWell(i)'
      <3>1. RanWell(i)
        BY <1>1, <1>8, <1>9, <2>1, <2>2, SamePlan DEF EarnedBefore, Passes
      <3> QED
        BY <1>6, <1>8, <3>1, RanWellStays DEF RanWell
    <2> QED
      BY <1>8, <2>1, <2>2 DEF EarnedBefore
  <1>11. Watched'
    BY <1>1, <1>3, <1>5, <1>6, <1>8, <1>9 DEF Watched, Terminations
  <1>12. JobInv'
    BY <1>1, <1>2, <1>8, <1>9, <1>10, <1>11 DEF JobInv, Before, After
  <1> QED
    BY <1>5, <1>12 DEF VerifyInv

\* What a verdict leaves of the passes.
LEMMA ApplyVerdictFacts ==
    ASSUME NEW v, \A c \in DOMAIN v : v[c] \in Verdicts, NEW criteria,
           NEW contribution \in Verdicts, NEW w, w = ApplyVerdict(v, criteria, contribution)
    PROVE  /\ DOMAIN w = DOMAIN v
           /\ \A c \in DOMAIN w : w[c] \in Verdicts
           /\ \A c \in DOMAIN w : w[c] = "Pass" =>
                v[c] = "Pass" /\ (c \in criteria => contribution = "Pass")
  <1>1. /\ DOMAIN w = DOMAIN v
        /\ \A c \in DOMAIN v : w[c] = IF c \in criteria /\ Rank[contribution] > Rank[v[c]]
                                      THEN contribution ELSE v[c]
    BY DEF ApplyVerdict
  <1>2. \A x \in Verdicts : Rank[x] \in Nat /\ (x # "Pass" => Rank[x] > 0)
    BY DEF Verdicts, Rank
  <1>3. Rank["Pass"] = 0
    BY DEF Rank
  <1>4. ASSUME NEW c \in DOMAIN w
        PROVE  /\ w[c] \in Verdicts
               /\ w[c] = "Pass" => v[c] = "Pass" /\ (c \in criteria => contribution = "Pass")
    <2>1. CASE v[c] = "Pass"
      BY <1>1, <1>2, <1>3, <1>4, <2>1
    <2>2. CASE v[c] # "Pass"
      <3>1. w[c] # "Pass"
        BY <1>1, <1>2, <1>3, <1>4, <2>2
      <3>2. w[c] \in Verdicts
        BY <1>1, <1>4
      <3> QED
        BY <3>1, <3>2
    <2> QED
      BY <2>1, <2>2
  <1> QED
    BY <1>1, <1>4

\* An end that stops the plan leaves only the passes that were earned.
LEMMA StopSettles ==
    ASSUME VerifyInv, job.at = "waiting", UNCHANGED <<ran, windows>>,
           NEW criteria, criteria = DOMAIN job.verdicts \/ criteria = CriteriaFrom(job.next),
           NEW verdict \in Verdicts, verdict # "Pass",
           job'.verdicts = ApplyVerdict(job.verdicts, criteria, verdict),
           job'.request = job.request, job'.post = job.post
    PROVE  Settled' /\ \A c \in DOMAIN job'.verdicts : job'.verdicts[c] \in Verdicts
  <1>1. PICK w : w = ApplyVerdict(job.verdicts, criteria, verdict)
    OBVIOUS
  <1>2. /\ DOMAIN w = DOMAIN job.verdicts
        /\ \A c \in DOMAIN w : w[c] \in Verdicts
        /\ \A c \in DOMAIN w : w[c] = "Pass" => job.verdicts[c] = "Pass" /\ c \notin criteria
    BY <1>1, ApplyVerdictFacts DEF VerifyInv, JobInv, JobTyped
  <1>3. job.next \in DOMAIN Planned /\ JobPlanned /\ EarnedBefore(job.next) /\ job.post = "manifest"
    BY DEF VerifyInv, JobInv
  <1>4. ASSUME NEW c, Passes(c)', NEW i \in DOMAIN Planned, c \in CriteriaAt(i)
        PROVE  RanWell(i)'
    <2>1. Passes(c) /\ c \notin criteria /\ criteria = CriteriaFrom(job.next)
      BY <1>1, <1>2, <1>4 DEF Passes
    <2>2. PICK n : n = job.next
      OBVIOUS
    <2>3. n \in Nat /\ i \in Nat
      <3>1. PICK r \in Requests : r = job.request /\ CrossBound(r)
        BY <1>3 DEF JobPlanned
      <3> QED
        BY <1>3, <1>4, <2>2, <3>1, PlanFacts DEF Planned
    <2>4. ~(n <= i)
      BY <1>3, <1>4, <2>1, <2>2, LaterCriteria
    <2>5. RanWell(i)
      BY <1>3, <1>4, <2>1, <2>2, <2>3, <2>4 DEF EarnedBefore
    <2> QED
      BY <2>5, RanWellStays DEF RanWell
  <1>5. Settled'
    BY <1>3, <1>4, SamePlan DEF Settled
  <1> QED
    BY <1>1, <1>2, <1>5

\* A command that ended by itself is one more that ran, and its code says
\* whether it ran well.
LEMMA CompletedEarns ==
    ASSUME VerifyInv, job.at = "waiting", watcher.at = "done", watcher.reply.kind = "Completed",
           UNCHANGED <<ran, windows>>,
           NEW verdict \in Verdicts, verdict = "Pass" => watcher.reply.code = 0,
           job'.verdicts = ApplyVerdict(job.verdicts, CriteriaAt(job.next), verdict),
           job'.request = job.request, job'.next = job.next + 1
    PROVE  /\ EarnedBefore(job.next)' /\ Len(ran) = job.next
           /\ \A c \in DOMAIN job'.verdicts : job'.verdicts[c] \in Verdicts
  <1>a. PICK own : own = CriteriaAt(job.next)
    OBVIOUS
  <1>1. PICK w : w = ApplyVerdict(job.verdicts, own, verdict)
    OBVIOUS
  <1>2. /\ DOMAIN w = DOMAIN job.verdicts
        /\ \A c \in DOMAIN w : w[c] \in Verdicts
        /\ \A c \in DOMAIN w : w[c] = "Pass" =>
             job.verdicts[c] = "Pass" /\ (c \in own => verdict = "Pass")
    BY <1>1, ApplyVerdictFacts DEF VerifyInv, JobInv, JobTyped
  <1>3. /\ job.next \in DOMAIN Planned /\ JobPlanned /\ EarnedBefore(job.next) /\ Started
        /\ watcher.reply.code = LastCode
    BY DEF VerifyInv, JobInv, Watched, Terminations, CommandInv, WatcherInv, CompletedWell
  <1>4. PICK n : n = job.next
    OBVIOUS
  <1>5. n \in Nat /\ n # 0 /\ \A i \in DOMAIN Planned : i \in Nat
    <2>1. PICK r \in Requests : r = job.request /\ CrossBound(r)
      BY <1>3 DEF JobPlanned
    <2> QED
      BY <1>3, <1>4, <2>1, PlanFacts DEF Planned
  <1>6. ran \in Seq(Spawned) /\ Len(ran) = n
    BY <1>3, <1>4, CommandTypes DEF VerifyInv, CommandInv, Started
  <1>7. verdict = "Pass" => RanWell(n)
    BY <1>3, <1>4, <1>5, <1>6 DEF Started, RanWell, LastCode
  <1>8. ASSUME NEW c, Passes(c)', NEW i \in DOMAIN Planned, i < n + 1, c \in CriteriaAt(i)
        PROVE  RanWell(i)'
    <2>1. Passes(c) /\ (c \in CriteriaAt(n) => verdict = "Pass")
      BY <1>a, <1>1, <1>2, <1>4, <1>8 DEF Passes
    <2>2. i < n \/ i = n
      BY <1>5, <1>8
    <2>3. RanWell(i)
      BY <1>3, <1>4, <1>7, <1>8, <2>1, <2>2 DEF EarnedBefore
    <2> QED
      BY <2>3, RanWellStays DEF RanWell
  <1>9. EarnedBefore(n + 1)'
    BY <1>8, SamePlan DEF EarnedBefore
  <1>10. job'.next = n + 1
    BY <1>4
  <1>11. job'.verdicts = w
    BY <1>a, <1>1
  <1> QED
    BY <1>2, <1>4, <1>6, <1>9, <1>10, <1>11

\* The reply of a command is taken.
LEMMA TakeReplyKeepsJob ==
    ASSUME VerifyInv, TakeReply
    PROVE  VerifyInv'
  <1>1. PICK reply : reply = watcher.reply
    OBVIOUS
  <1>2. /\ job.at = "waiting" /\ watcher.at = "done" /\ watcher' = NoCommand
        /\ UNCHANGED <<windows, executables, process, output, frozen, overflow, ran>>
        /\ job' = CASE reply.kind = "Error" -> [job EXCEPT !.at = "done", !.reply = "Error"]
                    [] reply.kind \in Refusals -> Refusal(reply.kind)
                    [] OTHER -> Executed(reply)
    BY <1>1 DEF TakeReply, Does
  <1>3. CommandInv'
    BY <1>2, IdleKeepsCommand DEF VerifyInv
  <1>4. /\ JobTyped /\ JobPlanned /\ job.next \in Nat /\ job.post = "manifest"
        /\ job.reply # "Published"
    BY <1>2 DEF VerifyInv, JobInv, JobTyped
  <1>5. watcher'.at = "idle"
    BY <1>2 DEF NoCommand
  <1>6. reply \in Replies
    BY <1>1, <1>2, CommandTypes DEF VerifyInv, CommandInv, WatcherInv, WatcherRecords
  <1>7. CASE reply.kind = "Error"
    <2>1. job' = [job EXCEPT !.at = "done", !.reply = "Error"]
      BY <1>2, <1>7 DEF Refusals
    <2>2. JobTyped' /\ job'.at = "done" /\ job'.request = job.request /\ job'.reply = "Error"
      BY <1>4, <2>1 DEF JobTyped, Stages
    <2>3. JobInv'
      BY <1>4, <1>5, <2>2, SamePlan DEF JobInv, Before, After
    <2> QED
      BY <1>3, <2>3 DEF VerifyInv
  <1>8. CASE reply.kind \in Refusals /\ reply.kind # "Error"
    <2>a. PICK k : k = reply.kind
      OBVIOUS
    <2>b. PICK criteria : criteria = IF k = "SnapshotTamper" THEN DOMAIN job.verdicts
                                     ELSE CriteriaFrom(job.next)
      OBVIOUS
    <2>c. PICK verdict : verdict = IF k = "SnapshotTamper" THEN "Invalid"
                                   ELSE PreflightShape[k].verdict
      OBVIOUS
    <2>1. verdict \in Verdicts /\ verdict # "Pass"
      <3>1. k \in {"SnapshotTamper", "Tampered", "Unavailable", "Refused"}
        BY <1>8, <2>a DEF Refusals
      <3> QED
        BY <3>1, <2>c DEF PreflightShape, Verdicts
    <2>2. PICK w : w = ApplyVerdict(job.verdicts, criteria, verdict)
      OBVIOUS
    <2>d. PICK fs : fs = job.failures \cup
                          {IF k = "SnapshotTamper" THEN Failure("SnapshotTamper", None)
                           ELSE Failure(PreflightShape[k].code, job.next)}
      OBVIOUS
    <2>3. job' = [job EXCEPT !.at = "closing", !.verdicts = w, !.failures = fs]
      <3>1. job' = Refusal(k)
        BY <1>2, <1>8, <2>a
      <3>2. CASE k = "SnapshotTamper"
        BY <1>4, <2>b, <2>c, <2>2, <2>d, <3>1, <3>2 DEF Refusal, JobTyped
      <3>3. CASE k # "SnapshotTamper"
        BY <1>4, <2>b, <2>c, <2>2, <2>d, <3>1, <3>3 DEF Refusal, JobTyped
      <3> QED
        BY <3>2, <3>3
    <2>4. /\ job'.at = "closing" /\ job'.request = job.request /\ job'.verdicts = w
          /\ job'.post = job.post /\ job'.reply = job.reply
          /\ job' \in [at : Stages, count : {job'.count}, request : Requests \cup {None},
                       expected : {job'.expected}, next : Nat, verdicts : {job'.verdicts},
                       failures : {job'.failures}, transcript : {job'.transcript},
                       post : {job'.post}, reply : {job'.reply}]
      BY <1>4, <2>3 DEF JobTyped, Stages, After
    <2>5. Settled' /\ \A c \in DOMAIN job'.verdicts : job'.verdicts[c] \in Verdicts
      BY <1>2, <2>b, <2>1, <2>2, <2>4, StopSettles
    <2>6. JobInv'
      BY <1>4, <1>5, <2>4, <2>5, SamePlan DEF JobInv, JobTyped, Before, After
    <2> QED
      BY <1>3, <2>6 DEF VerifyInv
  <1>9. CASE reply.kind \notin Refusals \cup {"Error"}
    <2>1. job' = Executed(reply) /\ reply.kind \in Terminations
      BY <1>2, <1>6, <1>9 DEF Replies
    <2>2. PICK verdict : verdict = ExecutionShape(reply).verdict
      OBVIOUS
    <2>3. /\ verdict \in Verdicts
          /\ Terminal(reply) => verdict # "Pass"
          /\ verdict = "Pass" => reply.code = 0
      BY <2>1, <2>2 DEF ExecutionShape, Terminations, Verdicts, Terminal
    <2>4. PICK w : w = ApplyVerdict(job.verdicts, Counted(reply), verdict)
      OBVIOUS
    <2>5. PICK place, t, fs :
              /\ place = IF Terminal(reply) THEN "closing" ELSE "running"
              /\ job' = [job EXCEPT !.at = place, !.next = job.next + 1, !.transcript = t,
                                    !.verdicts = w, !.failures = fs]
      <3>1. PICK place : place = IF Terminal(reply) THEN "closing" ELSE "running"
        OBVIOUS
      <3>2. PICK t : t = Append(job.transcript, reply)
        OBVIOUS
      <3>3. PICK fs : fs = IF ExecutionShape(reply).code = Absent THEN job.failures
                           ELSE job.failures \cup {Failure(ExecutionShape(reply).code, job.next)}
        OBVIOUS
      <3>4. job' = [job EXCEPT !.at = place, !.next = job.next + 1, !.transcript = t,
                               !.verdicts = w, !.failures = fs]
        BY <1>4, <2>1, <2>2, <2>4, <3>1, <3>2, <3>3 DEF Executed, JobTyped
      <3> QED
        BY <3>1, <3>4
    <2>6. /\ job'.at = place /\ job'.request = job.request /\ job'.verdicts = w
          /\ job'.next = job.next + 1 /\ job'.post = job.post /\ job'.reply = job.reply
          /\ job' \in [at : Stages, count : {job'.count}, request : Requests \cup {None},
                       expected : {job'.expected}, next : Nat, verdicts : {job'.verdicts},
                       failures : {job'.failures}, transcript : {job'.transcript},
                       post : {job'.post}, reply : {job'.reply}]
      <3>1. PICK n \in Nat : n = job.next + 1
        BY <1>4
      <3>2. place \in Stages
        BY <2>5 DEF Stages, After
      <3>3. job' = [job EXCEPT !.at = place, !.next = n, !.transcript = t, !.verdicts = w,
                               !.failures = fs]
        BY <2>5, <3>1
      <3> QED
        BY <1>4, <3>1, <3>2, <3>3 DEF JobTyped
    <2>7. CASE Terminal(reply)
      <3>1. PICK later : later = CriteriaFrom(job.next)
        OBVIOUS
      <3>2. job'.verdicts = ApplyVerdict(job.verdicts, later, verdict)
        BY <2>4, <2>6, <2>7, <3>1 DEF Counted
      <3>3. Settled' /\ \A c \in DOMAIN job'.verdicts : job'.verdicts[c] \in Verdicts
        BY <1>2, <2>3, <2>6, <2>7, <3>1, <3>2, StopSettles
      <3>4. JobInv'
        BY <1>4, <1>5, <2>5, <2>6, <2>7, <3>3, SamePlan DEF JobInv, JobTyped, Before, After
      <3> QED
        BY <1>3, <3>4 DEF VerifyInv
    <2>8. CASE ~Terminal(reply)
      <3>1. job'.verdicts = ApplyVerdict(job.verdicts, CriteriaAt(job.next), verdict)
        BY <2>4, <2>6, <2>8 DEF Counted
      <3>2. watcher.reply.kind = "Completed" /\ (verdict = "Pass" => watcher.reply.code = 0)
        BY <1>1, <2>3, <2>8 DEF Terminal
      <3>3. /\ EarnedBefore(job.next)' /\ Len(ran) = job.next
            /\ \A c \in DOMAIN job'.verdicts : job'.verdicts[c] \in Verdicts
        BY <1>2, <2>3, <2>6, <3>1, <3>2, CompletedEarns
      <3>4. job'.next # 0 /\ Len(ran') = job'.next - 1
        BY <1>2, <1>4, <2>6, <3>3
      <3>5. JobInv'
        BY <1>4, <1>5, <2>5, <2>6, <2>8, <3>3, <3>4, SamePlan DEF JobInv, JobTyped, Before, After
      <3> QED
        BY <1>3, <3>5 DEF VerifyInv
    <2> QED
      BY <2>7, <2>8
  <1> QED
    BY <1>7, <1>8, <1>9

\* All commands have run.
LEMMA LastKeepsJob ==
    ASSUME VerifyInv, LastCommand
    PROVE  VerifyInv'
  <1>1. /\ job.at = "running" /\ job.next > Len(Planned) /\ JobTyped /\ JobPlanned
        /\ EarnedBefore(job.next) /\ job.post = "manifest" /\ job.reply # "Published"
        /\ UNCHANGED commandVars /\ watcher.at = "idle" /\ job.next \in Nat
    BY DEF LastCommand, VerifyInv, JobInv, JobTyped
  <1>2. job' = [job EXCEPT !.at = "closing", !.next = 1]
    BY DEF LastCommand, Does, JobAt
  <1>3. /\ JobTyped' /\ job'.at = "closing" /\ job'.request = job.request
        /\ job'.verdicts = job.verdicts /\ job'.post = job.post /\ job'.reply = job.reply
    BY <1>1, <1>2 DEF JobTyped, Stages, After
  <1>4. Settled'
    <2>1. PICK r \in Requests : r = job.request /\ CrossBound(r)
      BY <1>1 DEF JobPlanned
    <2>2. \A i \in DOMAIN Planned : i < job.next
      BY <1>1, <2>1, PlanFacts DEF Planned
    <2>3. ASSUME NEW c, Passes(c)', NEW i \in DOMAIN Planned, c \in CriteriaAt(i)
          PROVE  RanWell(i)'
      <3>1. RanWell(i)
        BY <1>1, <1>3, <2>2, <2>3 DEF EarnedBefore, Passes
      <3> QED
        BY <1>1, <1>3, <3>1, RanWellStays DEF commandVars, RanWell
    <2> QED
      BY <1>1, <1>3, <2>3, SamePlan DEF Settled
  <1>5. JobInv'
    BY <1>1, <1>3, <1>4, SamePlan DEF JobInv, Before, After, commandVars
  <1> QED
    BY <1>1, <1>5, QuietKeepsCommand DEF VerifyInv

\* What was settled stays so while no command is under way.
LEMMA SettledStays ==
    ASSUME Settled, UNCHANGED <<ran, windows>>,
           UNCHANGED <<job.verdicts, job.post, job.request>>
    PROVE  Settled'
  <1>1. ASSUME NEW c, Passes(c)'
        PROVE  /\ job'.post = "manifest"
               /\ \A i \in DOMAIN Planned : c \in CriteriaAt(i) => RanWell(i)'
    <2>1. Passes(c)
      BY <1>1 DEF Passes
    <2>2. ASSUME NEW i \in DOMAIN Planned, c \in CriteriaAt(i)
          PROVE  RanWell(i)'
      <3>1. RanWell(i)
        BY <2>1, <2>2 DEF Settled
      <3> QED
        BY <3>1, RanWellStays DEF RanWell
    <2> QED
      BY <2>1, <2>2 DEF Settled
  <1> QED
    BY <1>1, SamePlan DEF Settled

\* The trees are looked at for the last time.
LEMMA CheckKeepsJob ==
    ASSUME VerifyInv, CheckSource \/ CheckSnapshot
    PROVE  VerifyInv'
  <1>1. /\ job.at \in {"closing", "sealing"} /\ JobTyped /\ JobPlanned /\ Settled
        /\ UNCHANGED commandVars /\ watcher.at = "idle" /\ job.reply # "Published"
    BY DEF CheckSource, CheckSnapshot, VerifyInv, JobInv, After
  <1>2. PICK w : w = ApplyVerdict(job.verdicts, DOMAIN job.verdicts, "Invalid")
    OBVIOUS
  <1>3. /\ \A c \in DOMAIN w : w[c] \in Verdicts
        /\ \A c \in DOMAIN w : w[c] # "Pass"
    <2>1. "Invalid" \in Verdicts
      BY DEF Verdicts
    <2>2. /\ DOMAIN w = DOMAIN job.verdicts
          /\ \A c \in DOMAIN w : w[c] \in Verdicts
          /\ \A c \in DOMAIN w : w[c] = "Pass" => ~(c \in DOMAIN job.verdicts)
      BY <1>1, <1>2, <2>1, ApplyVerdictFacts DEF JobTyped
    <2> QED
      BY <2>2
  <1>4. PICK place \in {"sealing", "publishing"} :
            \/ job' = [job EXCEPT !.at = place, !.next = 1]
            \/ \E fs, post : job' = [job EXCEPT !.at = place, !.next = 1, !.verdicts = w,
                                                !.failures = fs, !.post = post]
    <2>1. CASE CheckSource /\ source = "manifest"
      BY <2>1 DEF CheckSource, Does, JobAt
    <2>2. CASE CheckSource /\ source # "manifest"
      <3>1. PICK fs : fs = job.failures \cup {Failure("SourceDrift", None)}
        OBVIOUS
      <3>2. job' = [job EXCEPT !.at = "sealing", !.next = 1, !.verdicts = w,
                               !.failures = fs, !.post = "drifted"]
        BY <1>1, <1>2, <2>2, <3>1 DEF CheckSource, Does, JobAt, JobTyped
      <3> QED
        BY <3>2
    <2>3. CASE CheckSnapshot /\ snapshot = "whole"
      BY <2>3 DEF CheckSnapshot, Does, JobAt
    <2>4. CASE CheckSnapshot /\ snapshot # "whole"
      <3>1. PICK fs : fs = job.failures \cup {Failure("SnapshotTamper", None)}
        OBVIOUS
      <3>2. job' = [job EXCEPT !.at = "publishing", !.next = 1, !.verdicts = w,
                               !.failures = fs]
        BY <1>1, <1>2, <2>4, <3>1 DEF CheckSnapshot, Does, JobAt, JobTyped
      <3>3. job' = [job EXCEPT !.at = "publishing", !.next = 1, !.verdicts = w,
                               !.failures = fs, !.post = job.post]
        BY <1>1, <3>2 DEF JobTyped
      <3> QED
        BY <3>3
    <2> QED
      BY <2>1, <2>2, <2>3, <2>4
  <1>5. /\ JobTyped' /\ job'.at = place /\ job'.request = job.request /\ job'.reply = job.reply
        /\ Settled'
    <2>1. CASE job' = [job EXCEPT !.at = place, !.next = 1]
      <3>1. /\ JobTyped' /\ job'.at = place /\ job'.request = job.request
            /\ job'.reply = job.reply /\ job'.verdicts = job.verdicts /\ job'.post = job.post
        BY <1>1, <2>1 DEF JobTyped, Stages, After
      <3> QED
        BY <1>1, <3>1, SettledStays DEF commandVars
    <2>2. ASSUME NEW fs, NEW post, job' = [job EXCEPT !.at = place, !.next = 1, !.verdicts = w,
                                                      !.failures = fs, !.post = post]
          PROVE  /\ JobTyped' /\ job'.at = place /\ job'.request = job.request
                 /\ job'.reply = job.reply /\ Settled'
      <3>1. /\ job'.at = place /\ job'.request = job.request /\ job'.verdicts = w
            /\ job'.reply = job.reply
            /\ job' \in [at : Stages, count : {job'.count}, request : Requests \cup {None},
                         expected : {job'.expected}, next : Nat, verdicts : {job'.verdicts},
                         failures : {job'.failures}, transcript : {job'.transcript},
                         post : {job'.post}, reply : {job'.reply}]
        BY <1>1, <2>2 DEF JobTyped, Stages, After
      <3> QED
        BY <1>3, <3>1 DEF JobTyped, Settled, Passes
    <2> QED
      BY <1>4, <2>1, <2>2
  <1>6. JobInv'
    BY <1>1, <1>4, <1>5, SamePlan DEF JobInv, Before, After, commandVars
  <1> QED
    BY <1>1, <1>6, QuietKeepsCommand DEF VerifyInv

\* The caller is answered.
LEMMA AnswerKeepsJob ==
    ASSUME VerifyInv, Publish \/ PublishInvalid \/ PublishRefused
    PROVE  VerifyInv'
  <1>1. /\ job.at = "publishing" /\ JobTyped /\ JobPlanned /\ Settled
        /\ UNCHANGED commandVars /\ watcher.at = "idle"
    BY DEF Publish, PublishInvalid, PublishRefused, VerifyInv, JobInv, After
  <1>2. PICK reply : job' = [job EXCEPT !.at = "done", !.reply = reply]
    BY DEF Publish, PublishInvalid, PublishRefused, Replied, Does
  <1>3. /\ JobTyped' /\ job'.at = "done" /\ job'.request = job.request
        /\ job'.verdicts = job.verdicts /\ job'.post = job.post
    BY <1>1, <1>2 DEF JobTyped, Stages
  <1>4. Settled'
    BY <1>1, <1>3, SettledStays DEF commandVars
  <1>5. JobInv'
    BY <1>1, <1>3, <1>4, SamePlan DEF JobInv, Before, After, commandVars
  <1> QED
    BY <1>1, <1>5, QuietKeepsCommand DEF VerifyInv

\* The answer is taken.
LEMMA TakeKeepsJob ==
    ASSUME VerifyInv, TakeVerification
    PROVE  VerifyInv'
  <1>1. /\ job' = [NoJob EXCEPT !.count = job.count] /\ UNCHANGED commandVars
        /\ watcher.at = "idle"
    BY DEF TakeVerification, VerifyInv, JobInv
  <1>2. JobTyped' /\ job'.at = "idle" /\ job'.verdicts = << >> /\ job'.reply = None
    BY <1>1 DEF JobTyped, NoJob, Stages
  <1>3. JobInv'
    BY <1>1, <1>2, VerifierAssumption DEF JobInv, Before, After, commandVars
  <1> QED
    BY <1>1, <1>3, QuietKeepsCommand DEF VerifyInv

\* Where no command is under way, the job stays as it is.
LEMMA RestKeepsJob ==
    ASSUME JobInv, job.at # "waiting", UNCHANGED <<job, watcher, ran, windows>>
    PROVE  JobInv'
  <1>1. job.at \in After => Settled'
    BY SettledStays DEF JobInv
  <1>2. job.at = "done" => Settled' \/ job.reply # "Published"
    BY SettledStays DEF JobInv
  <1>3. job.at = "running" => EarnedBefore(job.next)'
    <2>1. ASSUME NEW c, NEW i, EarnedBefore(job.next), Passes(c)', i \in DOMAIN Planned',
                 i < job.next, c \in CriteriaAt(i)'
          PROVE  RanWell(i)'
      <3>1. RanWell(i)
        BY <2>1, SamePlan DEF EarnedBefore, Passes
      <3> QED
        BY <3>1, RanWellStays DEF RanWell
    <2> QED
      BY <2>1 DEF EarnedBefore, JobInv
  <1>4. JobTyped'
    BY DEF JobInv, JobTyped
  <1> QED
    BY <1>1, <1>2, <1>3, <1>4, SamePlan DEF JobInv

\* While one is, what ran before it stays as it is.
LEMMA WaitKeepsJob ==
    ASSUME JobInv, job.at = "waiting", UNCHANGED <<job, windows>>, Watched',
           \A i \in DOMAIN ran : i < job.next => i \in DOMAIN ran' /\ ran'[i] = ran[i]
    PROVE  JobInv'
  <1>1. EarnedBefore(job.next)'
    <2>1. ASSUME NEW c, NEW i, Passes(c)', i \in DOMAIN Planned',
                 i < job.next, c \in CriteriaAt(i)'
          PROVE  RanWell(i)'
      <3>1. RanWell(i)
        BY <2>1, SamePlan DEF JobInv, EarnedBefore, Passes
      <3>2. i \in DOMAIN ran' /\ ran'[i] = ran[i]
        BY <2>1, <3>1 DEF RanWell
      <3> QED
        BY <3>1, <3>2, RanWellStays
    <2> QED
      BY <2>1 DEF EarnedBefore
  <1>2. JobTyped'
    BY DEF JobInv, JobTyped
  <1> QED
    BY <1>1, <1>2, SamePlan DEF JobInv, Before, After

\* Nothing happens to the verification.
LEMMA NothingKeepsJob ==
    ASSUME VerifyInv, UNCHANGED <<job, commandVars>>
    PROVE  VerifyInv'
  <1>1. UNCHANGED <<job, watcher, ran, windows, executables>> /\ CommandInv'
    BY QuietKeepsCommand DEF commandVars, VerifyInv
  <1>2. CASE job.at # "waiting"
    BY <1>1, <1>2, RestKeepsJob DEF VerifyInv
  <1>3. CASE job.at = "waiting"
    <2>1. Watched'
      BY <1>1, <1>3, SamePlan DEF VerifyInv, JobInv, Watched, Started
    <2> QED
      BY <1>1, <1>3, <2>1, WaitKeepsJob DEF VerifyInv
  <1> QED
    BY <1>2, <1>3

\* The command under way makes a step.
LEMMA CommandKeepsJob ==
    ASSUME VerifyInv, CommandStep, UNCHANGED job
    PROVE  VerifyInv'
  <1>1. ran \in Seq(Spawned) /\ CommandInv /\ JobInv /\ DOMAIN ran = 1..Len(ran) /\ Len(ran) \in Nat
    BY CommandTypes DEF VerifyInv, CommandInv
  <1>2. CASE \E s \in Streams : Read(s) \/ Write(s)
    <2>1. CommandInv' /\ UNCHANGED <<windows, executables, watcher, ran>>
      BY <1>1, <1>2, ReadKeepsCommand, WriteKeepsCommand
    <2>2. job.at = "waiting" => Watched'
      BY <1>1, <2>1, SamePlan DEF JobInv, Watched, Started
    <2> QED
      BY <1>1, <2>1, <2>2, RestKeepsJob, WaitKeepsJob DEF VerifyInv
  <1>3. CASE Escape \/ OrphanExits
    <2>1. CommandInv' /\ UNCHANGED <<windows, executables, watcher, ran>>
      BY <1>1, <1>3, OrphanKeepsCommand
    <2>2. job.at = "waiting" => Watched'
      BY <1>1, <2>1, SamePlan DEF JobInv, Watched, Started
    <2> QED
      BY <1>1, <2>1, <2>2, RestKeepsJob, WaitKeepsJob DEF VerifyInv
  <1>4. CASE \E code \in ExitCodes : Exit(code)
    <2>1. PICK code \in ExitCodes : Exit(code)
      BY <1>4
    <2>2. /\ CommandInv'
          /\ watcher.at \in {"watching", "stopping"} /\ ran # << >>
          /\ UNCHANGED <<windows, executables, watcher>>
          /\ Len(ran') = Len(ran)
          /\ \A i \in 1..Len(ran) : i # Len(ran) => ran'[i] = ran[i]
          /\ ran'[Len(ran)].executable = ran[Len(ran)].executable
          /\ ran'[Len(ran)].image = ran[Len(ran)].image
      BY <1>1, <2>1, ExitKeepsCommand
    <2>3. job.at = "waiting" /\ Started
      BY <1>1, <2>2 DEF JobInv, Watched
    <2>4. ran' \in Seq(Spawned) /\ DOMAIN ran' = 1..Len(ran)
      BY <2>2, CommandTypes DEF CommandInv, CommandTypeOK, Spawned
    <2>5. Watched'
      BY <1>1, <2>2, <2>3, SamePlan DEF JobInv, Watched, Started
    <2>6. \A i \in DOMAIN ran : i < job.next => i \in DOMAIN ran' /\ ran'[i] = ran[i]
      BY <1>1, <2>2, <2>3, <2>4 DEF Started
    <2> QED
      BY <1>1, <2>2, <2>3, <2>5, <2>6, WaitKeepsJob DEF VerifyInv
  <1>5. CASE Spawn
    <2>1. /\ CommandInv'
          /\ watcher'.at = "watching" /\ watcher'.executable = watcher.executable
          /\ Len(ran') = Len(ran) + 1
          /\ \A i \in 1..Len(ran) : ran'[i] = ran[i]
          /\ ran'[Len(ran')].executable = watcher.executable
          /\ ran'[Len(ran')].image = executables[watcher.executable]
      BY <1>1, <1>5, SpawnKeepsCommand
    <2>2. /\ job.at = "waiting" /\ Len(ran) = job.next - 1 /\ job.next \in Nat
          /\ watcher.executable = Planned[job.next].executable
          /\ windows => executables[watcher.executable] = "approved"
      BY <1>1, <1>5 DEF JobInv, JobTyped, Watched, Spawn
    <2>3. UNCHANGED windows
      BY <1>5 DEF Spawn
    <2>4. Len(ran') = job.next
      BY <2>1, <2>2
    <2>5. Watched'
      BY <2>1, <2>2, <2>3, <2>4, SamePlan DEF Watched, Started
    <2>6. ran' \in Seq(Spawned) /\ DOMAIN ran' = 1..Len(ran')
      BY <2>1, CommandTypes DEF CommandInv, CommandTypeOK, Spawned
    <2>7. \A i \in DOMAIN ran : i \in DOMAIN ran' /\ ran'[i] = ran[i]
      BY <1>1, <2>1, <2>6
    <2> QED
      BY <1>1, <2>1, <2>2, <2>3, <2>5, <2>7, WaitKeepsJob DEF VerifyInv
  <1>6. CASE CommandFails \/ WatchOverflow \/ WatchTimeout \/ WatchExit \/ Terminate \/ Join
    <2>1. /\ CommandInv' /\ ran' = ran /\ watcher'.executable = watcher.executable
          /\ \/ watcher'.at \in {"stopping", "joining"}
             \/ watcher'.at = "done" /\ watcher'.reply.kind = "Error"
             \/ watcher'.at = "done" /\ watcher.at = "joining"
          /\ watcher'.at \in {"stopping", "joining"} => watcher.at \in {"watching", "stopping"}
      <3>1. CASE CommandFails
        BY <1>1, <3>1, FailureKeepsCommand
      <3>2. CASE WatchOverflow \/ WatchTimeout \/ WatchExit
        BY <1>1, <3>2, LoopEndKeepsCommand DEF WatchOverflow, WatchTimeout, WatchExit
      <3>3. CASE Terminate
        BY <1>1, <3>3, TerminateKeepsCommand DEF Terminate
      <3>4. CASE Join
        BY <1>1, <3>4, JoinKeepsCommand DEF Join
      <3> QED
        BY <1>6, <3>1, <3>2, <3>3, <3>4
    <2>2. watcher.at # "idle" /\ UNCHANGED windows
      BY <1>6 DEF CommandFails, WatchOverflow, WatchTimeout, WatchExit, Terminate, Join
    <2>3. job.at = "waiting"
      BY <1>1, <2>2 DEF JobInv
    <2>4. Watched'
      BY <1>1, <2>1, <2>2, <2>3, SamePlan DEF JobInv, Watched, Started, Terminations
    <2> QED
      BY <1>1, <2>1, <2>2, <2>3, <2>4, WaitKeepsJob DEF VerifyInv
  <1> QED
    BY <1>2, <1>3, <1>4, <1>5, <1>6 DEF CommandStep, WatcherStep, ProcessStep

\* The trees change, or an executable.
LEMMA MeddleKeepsJob ==
    ASSUME VerifyInv, Meddle
    PROVE  VerifyInv'
  <1>1. CASE SourceChanges \/ SnapshotChanges
    <2>1. UNCHANGED <<job, commandVars>>
      BY <1>1 DEF SourceChanges, SnapshotChanges
    <2> QED
      BY <2>1, NothingKeepsJob
  <1>2. CASE \E x \in Executables : ReplaceExecutable(x) /\ UNCHANGED <<jobVars, bankVars>>
    <2>1. /\ CommandInv' /\ UNCHANGED <<job, windows, watcher, ran>>
          /\ windows /\ watcher.at = "spawning" =>
               executables'[watcher.executable] = executables[watcher.executable]
      BY <1>2, ReplaceKeepsCommand DEF VerifyInv, jobVars
    <2>2. job.at = "waiting" => Watched'
      BY <2>1, SamePlan DEF VerifyInv, JobInv, Watched, Started
    <2> QED
      BY <2>1, <2>2, RestKeepsJob, WaitKeepsJob DEF VerifyInv
  <1> QED
    BY <1>1, <1>2 DEF Meddle

\* Every step of the system keeps the invariant.
LEMMA VerifyKept == VerifyInv /\ [SystemNext]_systemVars => VerifyInv'
  <1> SUFFICES ASSUME VerifyInv, [SystemNext]_systemVars
               PROVE  VerifyInv'
    OBVIOUS
  <1>1. CASE VerifierStep
    <2>1. CASE CommandStep /\ UNCHANGED <<jobVars, bankVars>>
      BY <2>1, CommandKeepsJob DEF jobVars
    <2>2. CASE ~(CommandStep /\ UNCHANGED <<jobVars, bankVars>>)
      BY <1>1, <2>2, StartKeepsJob, PrepareKeepsJob, RecheckKeepsJob, RunKeepsJob,
         TakeReplyKeepsJob, LastKeepsJob, CheckKeepsJob, AnswerKeepsJob, TakeKeepsJob
         DEF VerifierStep
    <2> QED
      BY <2>1, <2>2
  <1>2. CASE Meddle
    BY <1>2, MeddleKeepsJob
  <1>3. CASE UNCHANGED <<jobVars, commandVars>>
    BY <1>3, NothingKeepsJob DEF jobVars
  <1> QED
    BY <1>1, <1>2, <1>3 DEF SystemNext, Upkeep, Verify, Review, Classify, systemVars

\* Commands and verifications are as the invariant says, for any plans, rivals
\* and meddlers.
THEOREM VerificationsAreSound == SystemSpec => []VerifyInv
  BY VerifyHolds, VerifyKept, PTL DEF SystemSpec

\* A transcript that counts as complete has the code and every byte of its
\* command, for any number of streams and any cap (execute_prepared, read_stream,
\* freeze).
THEOREM TranscriptsAreWhole == SystemSpec => []TranscriptIsWhole
  <1>1. VerifyInv => TranscriptIsWhole
    <2> SUFFICES ASSUME VerifyInv, watcher.reply # Absent, watcher.reply.kind = "Completed"
                 PROVE  /\ watcher.reply.code = ran[Len(ran)].code
                        /\ watcher.reply.code # Absent
                        /\ \A s \in Streams : output[s].captured = output[s].written
      BY DEF TranscriptIsWhole
    <2>1. CompletedWell /\ BytesInv /\ output \in [Streams -> StreamRecords]
      BY CommandTypes DEF VerifyInv, CommandInv, WatcherInv
    <2>2. ASSUME NEW s \in Streams
          PROVE  output[s].captured = output[s].written
      <3>1. output[s].captured \in Nat /\ output[s].unread = 0
            /\ output[s].captured + output[s].unread = output[s].written
        BY <2>1, CommandAssumption DEF CompletedWell, BytesInv, StreamRecords
      <3> QED
        BY <3>1
    <2> QED
      BY <2>1, <2>2 DEF CompletedWell, LastCode
  <1> QED
    BY <1>1, VerificationsAreSound, PTL

\* A pass that was published was run: every command of every capability that
\* serves the criterion, from the approved file where the platform holds it, to
\* its end and with success, for any plan (verify_and_publish, apply_verdict).
THEOREM PassesWereRun == SystemSpec => []PassWasRun
  <1>1. VerifyInv => PassWasRun
    BY DEF VerifyInv, JobInv, Settled, Passes, PassWasRun
  <1> QED
    BY <1>1, VerificationsAreSound, PTL

-----------------------------------------------------------------------------
(* The bank in the system: the verifier publishes what the bank can hold.  *)

Running == {"running", "waiting"} \cup After

JobShape ==
    /\ job.transcript \in Seq(Replies)
    /\ job.post \in {"manifest", "drifted"}
    /\ job.at \in Running => job.verdicts \in [DOMAIN job.request.criteria -> Verdicts]

LEMMA ShapeHolds == SystemInit => JobShape
  BY EmptySeq DEF SystemInit, VerifierInit, NoJob, JobShape, Running, After

\* A verdict leaves a function on the criteria.
LEMMA VerdictsTyped ==
    ASSUME NEW criteria, NEW v \in [criteria -> Verdicts], NEW some,
           NEW verdict \in Verdicts
    PROVE  ApplyVerdict(v, some, verdict) \in [criteria -> Verdicts]
  BY DEF ApplyVerdict

\* What changes the place and the next command only.
LEMMA MovesKeepShape ==
    ASSUME VerifyInv, JobShape, NEW place, NEW n,
           job' = [job EXCEPT !.at = place, !.next = n],
           place \in Running => job.at \in Running
    PROVE  JobShape'
  <1>1. /\ job'.transcript = job.transcript /\ job'.post = job.post
        /\ job'.verdicts = job.verdicts /\ job'.request = job.request /\ job'.at = place
    BY DEF VerifyInv, JobInv, JobTyped
  <1> QED
    BY <1>1 DEF JobShape

LEMMA PublishAllKeepsShape ==
    ASSUME VerifyInv, JobShape, NEW verdict \in Verdicts, NEW failure,
           NEW post \in {"manifest", "drifted"},
           job' = PublishAll(verdict, failure, post)
    PROVE  JobShape'
  <1>1. PICK v, fs : v = ForAll(verdict) /\ fs = {failure}
    OBVIOUS
  <1>2. v \in [DOMAIN job.request.criteria -> Verdicts]
    BY <1>1 DEF ForAll
  <1>3. job' = [job EXCEPT !.at = "publishing", !.verdicts = v, !.failures = fs, !.post = post]
    BY <1>1 DEF PublishAll
  <1>4. /\ job'.transcript = job.transcript /\ job'.post = post
        /\ job'.verdicts = v /\ job'.request = job.request
    BY <1>3 DEF VerifyInv, JobInv, JobTyped
  <1> QED
    BY <1>2, <1>4 DEF JobShape

\* What is checked at the end may count against every criterion.
LEMMA EndKeepsShape ==
    ASSUME VerifyInv, JobShape, job.at \in Running, NEW place, NEW some, NEW failures,
           NEW verdict \in Verdicts, NEW post \in {"manifest", "drifted"}, NEW n,
           NEW transcript \in Seq(Replies),
           job' = [job EXCEPT !.at = place, !.next = n,
                     !.verdicts = ApplyVerdict(job.verdicts, some, verdict),
                     !.failures = failures, !.post = post, !.transcript = transcript]
    PROVE  JobShape'
  <1>1. PICK v : v = ApplyVerdict(job.verdicts, some, verdict)
    OBVIOUS
  <1>2. v \in [DOMAIN job.request.criteria -> Verdicts]
    BY <1>1, VerdictsTyped DEF JobShape
  <1>3. job' = [job EXCEPT !.at = place, !.next = n, !.verdicts = v,
                  !.failures = failures, !.post = post, !.transcript = transcript]
    BY <1>1
  <1>4. /\ job'.transcript = transcript /\ job'.post = post
        /\ job'.verdicts = v /\ job'.request = job.request
    BY <1>3 DEF VerifyInv, JobInv, JobTyped
  <1> QED
    BY <1>2, <1>4 DEF JobShape

LEMMA BeforeKeepsShape ==
    ASSUME VerifyInv, JobShape, Prepare \/ CopySource \/ CheckCopy \/ Recheck
    PROVE  JobShape'
  <1>1. job = [job EXCEPT !.at = job.at, !.next = job.next]
        /\ [job EXCEPT !.next = @ + 1] = [job EXCEPT !.at = job.at, !.next = job.next + 1]
    BY DEF VerifyInv, JobInv, JobTyped
  <1>2. \A place \in Before : place \notin Running
    BY DEF Before, Running, After
  <1>3. ASSUME NEW place \in Before, Does(JobAt(place))
        PROVE  JobShape'
    BY <1>2, <1>3, MovesKeepShape DEF Does, JobAt
  <1>4. CASE Does([job EXCEPT !.next = @ + 1])
    BY <1>1, <1>4, MovesKeepShape DEF Does
  <1>5. ASSUME NEW verdict \in Verdicts, NEW failure, NEW post \in {"manifest", "drifted"},
               Does(PublishAll(verdict, failure, post))
        PROVE  JobShape'
    BY <1>5, PublishAllKeepsShape DEF Does
  <1>6. CASE Prepare
    <2>1. PICK f : f = PrepareFailure(Planned[job.next].executable)
      OBVIOUS
    <2>2. \/ Does(JobAt("copying"))
          \/ Does([job EXCEPT !.next = @ + 1])
          \/ /\ f # Absent
             /\ Does(PublishAll(PreflightShape[f].verdict,
                                Failure(PreflightShape[f].code, job.next), "manifest"))
      BY <1>6, <2>1 DEF Prepare
    <2>3. CASE /\ f # Absent
               /\ Does(PublishAll(PreflightShape[f].verdict,
                                  Failure(PreflightShape[f].code, job.next), "manifest"))
      <3>1. f \in {"Refused", "Unavailable", "Tampered"}
        BY <2>1, <2>3 DEF PrepareFailure, FileFailure
      <3>2. PreflightShape[f].verdict \in Verdicts
        BY <3>1 DEF PreflightShape, Verdicts
      <3> QED
        BY <1>5, <2>3, <3>2
    <2> QED
      BY <1>3, <1>4, <2>2, <2>3 DEF Before
  <1>7. CASE CopySource
    <2>1. \/ Does(JobAt("copied"))
          \/ Does(PublishAll("Invalid", Failure("SourceDrift", None), "drifted"))
      BY <1>7 DEF CopySource
    <2> QED
      BY <1>3, <1>5, <2>1 DEF Before, Verdicts
  <1>8. CASE CheckCopy
    <2>1. \/ Does(PublishAll("Invalid", Failure("SourceDrift", None), "drifted"))
          \/ Does(PublishAll("Invalid", Failure("SnapshotTamper", None), "manifest"))
          \/ Does(JobAt("rechecking"))
      BY <1>8 DEF CheckCopy, Does
    <2> QED
      BY <1>3, <1>5, <2>1 DEF Before, Verdicts
  <1>9. CASE Recheck
    <2>1. \/ Does([JobAt("running") EXCEPT !.verdicts = ForAll("Pass")])
          \/ Does([job EXCEPT !.next = @ + 1])
          \/ Does(PublishAll("Invalid", Failure("ExecutableTamper", job.next), "manifest"))
      BY <1>9 DEF Recheck, Does
    <2>2. CASE Does([JobAt("running") EXCEPT !.verdicts = ForAll("Pass")])
      <3>1. PICK v : v = ForAll("Pass")
        OBVIOUS
      <3>2. v \in [DOMAIN job.request.criteria -> Verdicts]
        BY <3>1 DEF ForAll, Verdicts
      <3>3. job' = [job EXCEPT !.at = "running", !.next = 1, !.verdicts = v]
        BY <2>2, <3>1 DEF Does, JobAt
      <3>4. /\ job'.transcript = job.transcript /\ job'.post = job.post
            /\ job'.verdicts = v /\ job'.request = job.request
        BY <3>3 DEF VerifyInv, JobInv, JobTyped
      <3> QED
        BY <3>2, <3>4 DEF JobShape
    <2> QED
      BY <1>4, <1>5, <2>1, <2>2 DEF Verdicts
  <1> QED
    BY <1>6, <1>7, <1>8, <1>9

LEMMA ReplyKeepsShape ==
    ASSUME VerifyInv, JobShape, TakeReply
    PROVE  JobShape'
  <1>1. PICK reply : reply = watcher.reply
    OBVIOUS
  <1>2. /\ job.at = "waiting" /\ watcher.at = "done"
        /\ job' = CASE reply.kind = "Error" -> [job EXCEPT !.at = "done", !.reply = "Error"]
                    [] reply.kind \in Refusals -> Refusal(reply.kind)
                    [] OTHER -> Executed(reply)
    BY <1>1 DEF TakeReply, Does
  <1>3. reply \in Replies
    BY <1>1, <1>2, CommandTypes DEF VerifyInv, CommandInv, WatcherInv, WatcherRecords
  <1>4. job.at \in Running /\ job.post \in {"manifest", "drifted"}
        /\ job.transcript \in Seq(Replies)
    BY <1>2 DEF Running, JobShape
  <1>5. job = [at |-> job.at, count |-> job.count, request |-> job.request,
               expected |-> job.expected, next |-> job.next, verdicts |-> job.verdicts,
               failures |-> job.failures, transcript |-> job.transcript,
               post |-> job.post, reply |-> job.reply]
    BY DEF VerifyInv, JobInv, JobTyped
  <1>6. CASE reply.kind = "Error"
    <2>1. job' = [job EXCEPT !.at = "done", !.reply = "Error"]
      BY <1>2, <1>6 DEF Refusals
    <2>2. /\ job'.transcript = job.transcript /\ job'.post = job.post /\ job'.at = "done"
      BY <1>5, <2>1
    <2> QED
      BY <2>2 DEF JobShape, Running, After
  <1>7. CASE reply.kind \in Refusals /\ reply.kind # "Error"
    <2>1. PICK k : k = reply.kind
      OBVIOUS
    <2>2. job' = Refusal(k) /\ k \in {"SnapshotTamper", "Tampered", "Unavailable", "Refused"}
      BY <1>2, <1>7, <2>1 DEF Refusals
    <2>3. CASE k = "SnapshotTamper"
      <3>1. PICK some, failures :
              /\ some = DOMAIN job.verdicts
              /\ failures = job.failures \cup {Failure("SnapshotTamper", None)}
        OBVIOUS
      <3>2. job' = [job EXCEPT !.at = "closing",
                      !.verdicts = ApplyVerdict(job.verdicts, some, "Invalid"),
                      !.failures = failures]
        BY <1>5, <2>2, <2>3, <3>1 DEF Refusal
      <3>3. job' = [job EXCEPT !.at = "closing", !.next = job.next,
                      !.verdicts = ApplyVerdict(job.verdicts, some, "Invalid"),
                      !.failures = failures, !.post = job.post,
                      !.transcript = job.transcript]
        BY <1>5, <3>2
      <3>4. "Invalid" \in Verdicts
        BY DEF Verdicts
      <3> QED
        BY <1>4, <3>3, <3>4, EndKeepsShape
    <2>4. CASE k # "SnapshotTamper"
      <3>1. PICK failures, verdict, some :
              /\ failures = job.failures \cup {Failure(PreflightShape[k].code, job.next)}
              /\ verdict = PreflightShape[k].verdict
              /\ some = CriteriaFrom(job.next)
        OBVIOUS
      <3>2. verdict \in Verdicts
        BY <2>2, <2>4, <3>1 DEF PreflightShape, Verdicts
      <3>3. job' = [job EXCEPT !.at = "closing",
                      !.verdicts = ApplyVerdict(job.verdicts, some, verdict),
                      !.failures = failures]
        BY <1>5, <2>2, <2>4, <3>1 DEF Refusal
      <3>4. job' = [job EXCEPT !.at = "closing", !.next = job.next,
                      !.verdicts = ApplyVerdict(job.verdicts, some, verdict),
                      !.failures = failures, !.post = job.post,
                      !.transcript = job.transcript]
        BY <1>5, <3>3
      <3> QED
        BY <1>4, <3>2, <3>4, EndKeepsShape
    <2> QED
      BY <2>3, <2>4
  <1>8. CASE reply.kind \notin Refusals \cup {"Error"}
    <2>1. job' = Executed(reply) /\ reply.kind \in Terminations
      BY <1>2, <1>3, <1>8 DEF Replies
    <2>2. PICK verdict : verdict = ExecutionShape(reply).verdict
      OBVIOUS
    <2>3. verdict \in Verdicts
      BY <2>1, <2>2 DEF ExecutionShape, Terminations, Verdicts
    <2>4. PICK place, some, failures, transcript :
            /\ place = IF Terminal(reply) THEN "closing" ELSE "running"
            /\ some = Counted(reply)
            /\ failures = IF ExecutionShape(reply).code = Absent THEN job.failures
                          ELSE job.failures \cup {Failure(ExecutionShape(reply).code, job.next)}
            /\ transcript = Append(job.transcript, reply)
      OBVIOUS
    <2>5. transcript \in Seq(Replies)
      BY <1>3, <1>4, <2>4
    <2>6. job' = [job EXCEPT !.at = place, !.next = job.next + 1,
                    !.verdicts = ApplyVerdict(job.verdicts, some, verdict),
                    !.failures = failures, !.transcript = transcript]
      BY <1>5, <2>1, <2>2, <2>4 DEF Executed
    <2>7. job' = [job EXCEPT !.at = place, !.next = job.next + 1,
                    !.verdicts = ApplyVerdict(job.verdicts, some, verdict),
                    !.failures = failures, !.post = job.post, !.transcript = transcript]
      BY <1>5, <2>6
    <2> QED
      BY <1>4, <2>3, <2>5, <2>7, EndKeepsShape
  <1> QED
    BY <1>6, <1>7, <1>8

LEMMA ClosingKeepsShape ==
    ASSUME VerifyInv, JobShape, LastCommand \/ CheckSource \/ CheckSnapshot
    PROVE  JobShape'
  <1>1. job = [at |-> job.at, count |-> job.count, request |-> job.request,
               expected |-> job.expected, next |-> job.next, verdicts |-> job.verdicts,
               failures |-> job.failures, transcript |-> job.transcript,
               post |-> job.post, reply |-> job.reply]
    BY DEF VerifyInv, JobInv, JobTyped
  <1>2. job.at \in Running
    BY DEF LastCommand, CheckSource, CheckSnapshot, Running, After
  <1>3. ASSUME NEW place, Does(JobAt(place))
        PROVE  JobShape'
    BY <1>2, <1>3, MovesKeepShape DEF Does, JobAt
  <1>4. ASSUME NEW place, NEW failures, NEW post \in {"manifest", "drifted"},
               Does([JobAt(place) EXCEPT !.verdicts = ApplyVerdict(@, DOMAIN @, "Invalid"),
                                         !.failures = failures, !.post = post])
        PROVE  JobShape'
    <2>1. PICK some : some = DOMAIN job.verdicts
      OBVIOUS
    <2>2. job' = [job EXCEPT !.at = place, !.next = 1,
                    !.verdicts = ApplyVerdict(job.verdicts, some, "Invalid"),
                    !.failures = failures, !.post = post, !.transcript = job.transcript]
      BY <1>1, <1>4, <2>1 DEF Does, JobAt
    <2>3. job.transcript \in Seq(Replies) /\ "Invalid" \in Verdicts
      BY DEF JobShape, Verdicts
    <2> QED
      BY <1>2, <2>2, <2>3, EndKeepsShape
  <1>5. CASE LastCommand
    BY <1>3, <1>5 DEF LastCommand
  <1>6. CASE CheckSource
    <2>1. PICK failures : failures = job.failures \cup {Failure("SourceDrift", None)}
      OBVIOUS
    <2>2. \/ Does(JobAt("sealing"))
          \/ Does([JobAt("sealing") EXCEPT !.verdicts = ApplyVerdict(@, DOMAIN @, "Invalid"),
                                           !.failures = failures, !.post = "drifted"])
      BY <1>1, <1>6, <2>1 DEF CheckSource, Does, JobAt
    <2> QED
      BY <1>3, <1>4, <2>2
  <1>7. CASE CheckSnapshot
    <2>1. PICK failures : failures = job.failures \cup {Failure("SnapshotTamper", None)}
      OBVIOUS
    <2>2. \/ Does(JobAt("publishing"))
          \/ Does([JobAt("publishing") EXCEPT !.verdicts = ApplyVerdict(@, DOMAIN @, "Invalid"),
                                              !.failures = failures, !.post = job.post])
      BY <1>1, <1>7, <2>1 DEF CheckSnapshot, Does, JobAt
    <2> QED
      BY <1>3, <1>4, <2>2 DEF JobShape
  <1> QED
    BY <1>5, <1>6, <1>7

\* The other steps of the verifier.
LEMMA JobKeepsShape ==
    ASSUME VerifyInv, JobShape, UNCHANGED job
    PROVE  JobShape'
  BY DEF JobShape

LEMMA StartKeepsShape ==
    ASSUME (\E r \in Requests : StartVerify(r)) \/ TakeVerification
    PROVE  JobShape'
  <1>1. CASE TakeVerification
    BY <1>1, EmptySeq DEF TakeVerification, NoJob, JobShape, Running, After
  <1>2. ASSUME NEW r \in Requests, StartVerify(r)
        PROVE  JobShape'
    <2>1. job'.at = "preparing" /\ job'.post = "manifest" /\ job'.transcript = << >>
      BY <1>2 DEF StartVerify, NoJob
    <2> QED
      BY <2>1, EmptySeq DEF JobShape, Running, After
  <1> QED
    BY <1>1, <1>2

LEMMA RunKeepsShape ==
    ASSUME VerifyInv, JobShape, RunCommand
    PROVE  JobShape'
  <1>1. job' = [job EXCEPT !.at = "waiting", !.next = job.next] /\ job.at = "running"
    BY DEF RunCommand, Does, VerifyInv, JobInv, JobTyped
  <1> QED
    BY <1>1, MovesKeepShape DEF Running

LEMMA AnswerKeepsShape ==
    ASSUME VerifyInv, JobShape, Publish \/ PublishInvalid \/ PublishRefused
    PROVE  JobShape'
  <1>1. PICK reply : job' = [job EXCEPT !.at = "done", !.reply = reply]
    BY DEF Publish, PublishInvalid, PublishRefused, Replied, Does
  <1>2. job'.at = "done" /\ job'.post = job.post /\ job'.transcript = job.transcript
    BY <1>1 DEF VerifyInv, JobInv, JobTyped
  <1> QED
    BY <1>2 DEF JobShape, Running, After

LEMMA ShapeKept ==
    ASSUME VerifyInv, JobShape, [SystemNext]_systemVars
    PROVE  JobShape'
  <1>1. CASE UNCHANGED job
    BY <1>1, JobKeepsShape
  <1>2. CASE VerifierStep
    <2>1. CASE CommandStep /\ UNCHANGED <<jobVars, bankVars>>
      BY <2>1, JobKeepsShape DEF jobVars
    <2>2. CASE ~(CommandStep /\ UNCHANGED <<jobVars, bankVars>>)
      BY <1>2, <2>2, StartKeepsShape, BeforeKeepsShape, RunKeepsShape, ReplyKeepsShape,
         ClosingKeepsShape, AnswerKeepsShape DEF VerifierStep
    <2> QED
      BY <2>1, <2>2
  <1>3. CASE Meddle
    <2>1. UNCHANGED job
      BY <1>3 DEF Meddle, SourceChanges, SnapshotChanges, jobVars
    <2> QED
      BY <2>1, <1>1
  <1> QED
    BY <1>1, <1>2, <1>3 DEF SystemNext, Upkeep, Verify, Review, Classify, systemVars, jobVars

\* What the verifier publishes is a bundle the bank can hold: the transcript has
\* no more entries than the plan, the results are those of the criteria.
LEMMA VerifierPublishesBundles ==
    ASSUME VerifyInv, JobShape, job.at = "publishing",
           BundleValid(job.verdicts, job.failures, job.transcript, job.post)
    PROVE  BundleOf(job) \in Bundles
  <1>1. PICK r \in Requests : r = job.request /\ CrossBound(r)
    BY DEF VerifyInv, JobInv, JobPlanned
  <1>2. PICK plan : plan = Plan(r)
    OBVIOUS
  <1>3. Len(plan) \in Nat
    BY <1>1, <1>2, PlanFacts
  <1>4. PICK t : t = job.transcript /\ t \in Seq(Replies) /\ Len(t) <= Len(plan)
    BY <1>1, <1>2 DEF JobShape, BundleValid, TranscriptCovers, Planned
  <1>5. Len(t) \in 0..Len(plan) /\ t \in [1..Len(t) -> Replies]
    BY <1>3, <1>4
  <1>6. job.verdicts \in [DOMAIN r.criteria -> Verdicts] /\ job.post \in {"manifest", "drifted"}
    BY <1>1 DEF JobShape, Running, After
  <1>7. BundleOf(job) \in Publishable(r)
    BY <1>1, <1>2, <1>4, <1>5, <1>6 DEF BundleOf, Publishable
  <1> QED
    BY <1>7, PublishableAssumption

\* A step of the bank of which only the lease may have moved.
LEMMA LeaseKeepsBank ==
    ASSUME BankInv, lease' \in Holders \cup {None},
           UNCHANGED <<definitions, bundles, capability, evidence, capabilityMax,
                       evidenceMax, archives, migrated, minted>>
    PROVE  BankInv'
  BY RowsUntouched DEF BankInv, BankTypeOK, RecordsAreImmutable

\* A review reads the bank and holds its lease.
LEMMA ReviewKeepsBank ==
    ASSUME BankInv, ReviewStep
    PROVE  BankInv'
  <1>1. lease \in Holders \cup {None} /\ Drivers \subseteq Holders
    BY SystemAssumption DEF BankInv, BankTypeOK
  <1>2. CASE UNCHANGED bankVars
    BY <1>2, BankKept
  <1>3. ASSUME NEW d \in Drivers, TakeLease(d) \/ ReleaseLease(d)
        PROVE  BankInv'
    BY <1>1, <1>3, LeaseKeepsBank DEF TakeLease, ReleaseLease
  <1>4. ASSUME NEW d \in Drivers, NEW k \in Runs, NEW auditor, StartReview(d, k, auditor)
        PROVE  BankInv'
    BY <1>2, <1>4 DEF StartReview
  <1>5. ASSUME NEW d \in Drivers, DriverGoes(d)
        PROVE  BankInv'
    <2>1. CASE InstallReview(d) \/ ResumeTerminal(d) \/ ResumeReviewing(d) \/ ResumeAuditing(d)
      BY <1>2, <2>1 DEF InstallReview, ResumeTerminal, ResumeReviewing, ResumeAuditing
    <2>2. CASE LockFails(d) \/ InvokeRole(d) \/ RecordOutcome(d)
      BY <1>2, <2>2 DEF LockFails, InvokeRole, RecordOutcome
    <2>3. CASE LockEvidence(d) \/ CommitLease(d) \/ CommitFails(d) \/ FinishLogging(d)
      BY <1>3, <2>3 DEF LockEvidence, CommitLease, CommitFails, FinishLogging
    <2>4. CASE AppendDecision(d)
      BY <1>2, <1>3, <2>4 DEF AppendDecision
    <2>5. CASE ReplaceLocked(d)
      <3>1. lease' \in {lease, None}
            /\ UNCHANGED <<definitions, bundles, capability, evidence, capabilityMax,
                           evidenceMax, archives, migrated, minted>>
        BY <2>5 DEF ReplaceLocked
      <3> QED
        BY <1>1, <3>1, LeaseKeepsBank
    <2> QED
      BY <1>5, <2>1, <2>2, <2>3, <2>4, <2>5 DEF DriverGoes
  <1>6. ASSUME NEW d \in Drivers, StopDriver(d)
        PROVE  BankInv'
    BY <1>1, <1>6, LeaseKeepsBank DEF StopDriver
  <1>7. ASSUME NEW k, AdmitCandidate(k) \/ LifecycleWrites(k) \/ OtherEvent(k)
        PROVE  BankInv'
    BY <1>2, <1>7 DEF AdmitCandidate, LifecycleWrites, OtherEvent
  <1> QED
    BY <1>4, <1>5, <1>6, <1>7 DEF ReviewStep, DriverStep

\* Every step of the system keeps what the bank keeps by itself.
LEMMA SystemKeepsBank ==
    ASSUME VerifyInv, JobShape, BankInv, [SystemNext]_systemVars
    PROVE  BankInv'
  <1>1. CASE UNCHANGED bankVars
    BY <1>1, BankKept
  <1>2. CASE Upkeep
    BY <1>2, BankKept DEF Upkeep
  <1>3. CASE Verify
    <2>1. CASE VerifierStep
      <3>1. CASE Publish
        BY <3>1, VerifierPublishesBundles, PublishKeeps DEF Publish
      <3>2. CASE ~Publish
        <4>1. UNCHANGED bankVars
          BY <2>1, <3>2 DEF VerifierStep, StartVerify, Prepare, CopySource, CheckCopy, Recheck,
             RunCommand, TakeReply, LastCommand, CheckSource, CheckSnapshot, PublishInvalid,
             PublishRefused, TakeVerification
        <4> QED
          BY <1>1, <4>1
      <3> QED
        BY <3>1, <3>2
    <2>2. CASE Meddle
      BY <1>1, <2>2 DEF Meddle, SourceChanges, SnapshotChanges
    <2>3. CASE PublishRival
      BY <2>3, PublishKeeps, SystemAssumption DEF PublishRival
    <2> QED
      BY <1>3, <2>1, <2>2, <2>3 DEF Verify
  <1>4. CASE Review
    <2>1. CASE ReviewStep
      BY <2>1, ReviewKeepsBank
    <2>2. CASE PublishCandidate
      BY <2>2, PublishKeeps, SystemAssumption DEF PublishCandidate
    <2>3. CASE MarkAny
      BY <2>3, MarkKeeps, SystemAssumption DEF MarkAny
    <2> QED
      BY <1>4, <2>1, <2>2, <2>3 DEF Review
  <1>5. CASE Classify
    BY <1>1, <1>5 DEF Classify
  <1> QED
    BY <1>1, <1>2, <1>3, <1>4, <1>5 DEF SystemNext, systemVars

SystemBankInv == VerifyInv /\ JobShape /\ BankInv

LEMMA SystemBankHolds == SystemInit => SystemBankInv
  BY VerifyHolds, ShapeHolds, BankHolds DEF SystemInit, SystemBankInv

LEMMA SystemBankKept == SystemBankInv /\ [SystemNext]_systemVars => SystemBankInv'
  BY VerifyKept, ShapeKept, SystemKeepsBank DEF SystemBankInv

\* The bank keeps its types, its allocators and its records beside the verifier,
\* its rivals and the reviews that hold the lease.
THEOREM SystemBankInvariant == SystemSpec => []SystemBankInv
  BY SystemBankHolds, SystemBankKept, PTL DEF SystemSpec

\* The current row of a key is the newest it ever had in the system too: what a
\* verification publishes under the token of its start, and what a rival, an
\* operator or a review does meanwhile, never brings an old row back.
THEOREM SystemCurrentIsNewest == SystemSpec => []CurrentIsNewest
  <1>1. SystemBankInv => CurrentIsNewest
    BY DEF SystemBankInv, BankInv, AllocatorBounds, CurrentIsNewest
  <1> QED
    BY <1>1, SystemBankInvariant, PTL

=============================================================================
