------------------------- MODULE IndependentReview -------------------------
(***************************************************************************)
(* The independent review and audit of an admitted candidate               *)
(* (src/rust/ovca-runtime-core/src/independent_review.rs and               *)
(* src/rust/ovca-langgraph/src/review_audit_loop.rs): the projection that  *)
(* the execution row of a run carries, and the drivers that advance it.    *)
(*                                                                         *)
(* A driver loads the row, calls the reviewer and then the auditor at most *)
(* once each, resolves the two verdicts, and logs the decisions.  Drivers  *)
(* stop anywhere, run at the same time, and meet others who write the row, *)
(* the log and the evidence bank.  Instants are left out: clocks of the    *)
(* drivers never go back.                                                  *)
(***************************************************************************)
EXTENDS EvidenceBank, Sequences

CONSTANTS
    Drivers,        \* callers of drive
    Chain,          \* the runs of one repair chain, in order: keys of evidence
    Auditors,       \* invocations of the auditor that a caller may come with
    MaxLog,         \* bound: events after the admission
    Noisy           \* bound: the runs whose log others write, too

VARIABLES
    admitted,       \* the evidence row with which a run became reviewable
    reviews,        \* the projection of each run, or None
    decisions,      \* the event log of each run, after its admission
    driver,         \* drive: where each caller is
    fresh,          \* the drivers whose copy still has the stored revision
    invoked         \* how often each role was called, for each run

reviewVars == <<admitted, reviews, decisions, driver, fresh, invoked>>
loopVars == <<reviewVars, bankVars>>

-----------------------------------------------------------------------------
(***************************************************************************)
(* The projection and its rules.                                           *)
(***************************************************************************)

Runs == {Chain[i] : i \in DOMAIN Chain}
Cycle(k) == CHOOSE i \in DOMAIN Chain : Chain[i] = k
MaxCycle == Len(Chain)

Roles == {"review", "audit"}
Phases == {"Reviewing", "Auditing", "ResolvedPass", "RepairDirected", "OwnerEscalated"}
TerminalPhases == {"ResolvedPass", "RepairDirected", "OwnerEscalated"}

\* A recorded outcome: the execution failed, the decision does not bear
\* validation, or a verdict.
CallOutcomes == {"failed", "invalid", "pass", "fail"}
CallStates == {"NotStarted", "Started"} \cup CallOutcomes

Reasons == {"ReviewerOutcomeUnknown", "ReviewerExecutionFailed", "AuditorOutcomeUnknown",
            "AuditorExecutionFailed", "EvidenceInvalid", "VerdictDisagreement",
            "RepairBudgetExhausted"}
ReviewResolutions == {"Pass", "Repair"} \cup Reasons

Reviews == [phase : Phases, review : CallStates, audit : CallStates \cup {None},
            auditor : Auditors \cup {None}, resolution : ReviewResolutions \cup {None}]

\* The runs of a chain are different runs, and nothing is none of all this.
ASSUME ReviewAssumption ==
    /\ Chain \in Seq(Keys)
    /\ \A i, j \in DOMAIN Chain : Chain[i] = Chain[j] => i = j
    /\ Noisy \subseteq Runs
    /\ None \notin Drivers \cup Keys \cup Auditors \cup Reviews
    /\ None \notin CallStates \cup ReviewResolutions

\* IndependentReviewStateV1::initial
InitialReview == [phase |-> "Reviewing", review |-> "NotStarted", audit |-> None,
                  auditor |-> None, resolution |-> None]

Recorded(call) == call \in CallOutcomes
Valid(call) == call \in {"pass", "fail"}

\* validate_owner_escalation: what each reason says of the calls.
EscalationFits(k, r) ==
    CASE r.resolution = "ReviewerOutcomeUnknown" -> r.review = "Started" /\ r.auditor = None
      [] r.resolution = "ReviewerExecutionFailed" -> r.review = "failed" /\ r.auditor = None
      [] r.resolution = "AuditorOutcomeUnknown" -> r.audit = "Started"
      [] r.resolution = "AuditorExecutionFailed" -> r.audit = "failed"
      [] r.resolution = "VerdictDisagreement" ->
            Valid(r.review) /\ Valid(r.audit) /\ r.review # r.audit
      [] r.resolution = "RepairBudgetExhausted" ->
            r.review = "fail" /\ r.audit = "fail" /\ Cycle(k) = MaxCycle
      [] r.resolution = "EvidenceInvalid" ->
            \/ r.audit = None /\ (r.review = "NotStarted" \/ r.review = "invalid")
            \/ r.audit \in {"NotStarted", "invalid"}
            \/ r.review = "pass" /\ r.audit = "pass"
      [] OTHER -> FALSE

\* validate_phase_shape, validate_audit_packet_binding and
\* validate_terminal_semantics.
ReviewFits(k, r) ==
    /\ (r.auditor = None) <=> (r.audit = None)
    /\ r.auditor # None => Valid(r.review)
    /\ CASE r.phase = "Reviewing" -> r.auditor = None /\ r.resolution = None
         [] r.phase = "Auditing" -> r.auditor # None /\ r.resolution = None
         [] r.phase = "ResolvedPass" ->
                r.resolution = "Pass" /\ r.review = "pass" /\ r.audit = "pass"
         [] r.phase = "RepairDirected" ->
                /\ r.resolution = "Repair" /\ r.review = "fail" /\ r.audit = "fail"
                /\ Cycle(k) < MaxCycle
         [] r.phase = "OwnerEscalated" -> r.resolution \in Reasons /\ EscalationFits(k, r)

\* What may follow one call state of the phase it belongs to.
CallAdvances(before, after) ==
    \/ before = "NotStarted" /\ after = "Started"
    \/ before = "Started" /\ Recorded(after)

\* validate_successor
ReviewSucceeds(old, new) ==
    /\ old.phase \notin TerminalPhases
    /\ CASE old.phase = "Reviewing" ->
                \/ /\ CallAdvances(old.review, new.review)
                   /\ new.phase = "Reviewing" /\ new.auditor = None /\ new.resolution = None
                \/ /\ new.review = old.review /\ Recorded(old.review)
                   /\ new.phase = "Auditing" /\ new.audit = "NotStarted" /\ new.resolution = None
                \/ /\ new.review = old.review /\ new.phase = "OwnerEscalated"
                   /\ CASE old.review = "NotStarted" -> new.resolution = "EvidenceInvalid"
                        [] old.review = "Started" -> new.resolution = "ReviewerOutcomeUnknown"
                        [] OTHER ->
                             /\ new.auditor = None
                             /\ new.resolution \in {"ReviewerExecutionFailed", "EvidenceInvalid"}
         [] old.phase = "Auditing" ->
                /\ new.review = old.review /\ new.auditor = old.auditor
                /\ \/ /\ CallAdvances(old.audit, new.audit)
                      /\ new.phase = "Auditing" /\ new.resolution = None
                   \/ /\ new.audit = old.audit
                      /\ CASE old.audit = "NotStarted" -> new.resolution = "EvidenceInvalid"
                           [] old.audit = "Started" -> new.resolution = "AuditorOutcomeUnknown"
                           [] OTHER -> new.phase \in TerminalPhases

\* compare_and_swap_independent_review, for a current revision.
ReviewAccepted(k, old, new) ==
    /\ ReviewFits(k, new)
    /\ IF old = None THEN new = InitialReview ELSE ReviewSucceeds(old, new)

\* Fault: a candidate of any cycle is reviewed.
RepairChainUnchecked(k) == TRUE

\* validate_repair_chain
RepairChainFits(k) ==
    Cycle(k) > 1 =>
        LET prior == reviews[Chain[Cycle(k) - 1]]
        IN prior # None /\ prior.phase = "RepairDirected"

-----------------------------------------------------------------------------
(***************************************************************************)
(* A driver.                                                               *)
(***************************************************************************)

NoDrive == [at |-> "idle", run |-> None, copy |-> None, auditor |-> None,
            outcome |-> None, seen |-> 0, refused |-> FALSE]

DriverPlaces == {"idle", "installing", "resuming", "review", "audit", "resolve", "project",
                 "locked review", "locked audit", "locked resolve", "committing",
                 "calling", "recording", "logging"}

ReviewInit ==
    /\ admitted = [k \in Runs |-> None]
    /\ reviews = [k \in Runs |-> None]
    /\ decisions = [k \in Runs |-> << >>]
    /\ driver = [d \in Drivers |-> NoDrive]
    /\ fresh = {}
    /\ invoked = [k \in Runs |-> [role \in Roles |-> 0]]

RunOf(d) == driver[d].run
CopyOf(d) == driver[d].copy
IsAt(d, label) == driver[d].at = label
Puts(d, state) == driver' = [driver EXCEPT ![d] = state]
Moves(d, label) == Puts(d, [driver[d] EXCEPT !.at = label])

\* drive returns; of its replies only a refusal by the rules of the row is kept.
Answers(d, reply) == Puts(d, [NoDrive EXCEPT !.refused = (reply = "Refused")])


\* Somebody wrote the row of a run: other copies of it are out of date.
Outdated(k) == {d \in Drivers : RunOf(d) = k}

Stores(d, next) == reviews' = [reviews EXCEPT ![RunOf(d)] = next]

\* cas_replace, when it does not apply.
Loses(d) ==
    /\ Answers(d, IF d \in fresh THEN "Refused" ELSE "InProgress")
    /\ fresh' = fresh \ {d}
    /\ UNCHANGED reviews

Applies(d, next) == d \in fresh /\ ReviewAccepted(RunOf(d), CopyOf(d), next)

\* cas_replace, and where the driver goes on with what it wrote.
Replaces(d, next, label) ==
    IF Applies(d, next)
    THEN /\ Stores(d, next)
         /\ fresh' = (fresh \ Outdated(RunOf(d))) \cup {d}
         /\ Puts(d, [driver[d] EXCEPT !.at = label, !.copy = next, !.outcome = None])
    ELSE Loses(d)

\* cas_replace, and the driver is done.
Concludes(d, next, reply) ==
    IF Applies(d, next)
    THEN Stores(d, next) /\ fresh' = fresh \ Outdated(RunOf(d)) /\ Answers(d, reply)
    ELSE Loses(d)

\* The driver returns without a write.
Returns(d, reply) == Answers(d, reply) /\ fresh' = fresh \ {d} /\ UNCHANGED reviews
GoesOn(d, label) == Moves(d, label) /\ UNCHANGED <<reviews, fresh>>

\* escalate
Escalated(copy, reason) ==
    [copy EXCEPT !.phase = "OwnerEscalated", !.resolution = reason]

Escalates(d, reason) ==
    Concludes(d, Escalated(CopyOf(d), reason), "OwnerEscalated")

\* drive: the candidate, the chain, and what is there already.
StartReview(d, k, auditor) ==
    /\ IsAt(d, "idle")
    /\ admitted[k] # None
    /\ RepairChainFits(k)
    /\ Puts(d, [NoDrive EXCEPT !.at = IF reviews[k] = None THEN "installing" ELSE "resuming",
                               !.run = k, !.copy = reviews[k], !.auditor = auditor])
    /\ fresh' = fresh \cup {d}
    /\ UNCHANGED <<admitted, reviews, decisions, invoked, bankVars>>

InstallReview(d) ==
    /\ IsAt(d, "installing")
    /\ Replaces(d, InitialReview, "resuming")
    /\ UNCHANGED <<admitted, decisions, invoked, bankVars>>

-----------------------------------------------------------------------------
(***************************************************************************)
(* resume_step: one action for each kind of state that is found.           *)
(***************************************************************************)
Resumes(d, phase) == IsAt(d, "resuming") /\ CopyOf(d).phase = phase

ResumeTerminal(d) ==
    /\ \/ Resumes(d, "ResolvedPass") /\ GoesOn(d, "project")
       \/ /\ Resumes(d, "RepairDirected")
          /\ \E reply \in {"RepairDirected", "ProjectionConflict"} : Returns(d, reply)
       \/ Resumes(d, "OwnerEscalated") /\ Returns(d, "OwnerEscalated")
    /\ UNCHANGED <<admitted, decisions, invoked, bankVars>>

\* Fault: a call without an outcome is made again.
OnStartedAgain(d, role, reason) == GoesOn(d, "calling")

\* A call that was started and has no outcome is never repeated.
OnStarted(d, role, reason) == Escalates(d, reason)

\* Fault: a decision that does not bear validation counts as a failed call.
ReviewerReasonAlways(call) == "ReviewerExecutionFailed"

ReviewerReason(call) ==
    IF call = "failed" THEN "ReviewerExecutionFailed" ELSE "EvidenceInvalid"

\* after_review: the decision is validated and handed to the auditor; the caller
\* may have come with a manifest that does not fit.
AfterReview(d) ==
    LET copy == CopyOf(d)
    IN IF ~Valid(copy.review)
       THEN Escalates(d, ReviewerReason(copy.review))
       ELSE \/ Returns(d, "InvalidInput")
            \/ Replaces(d, [copy EXCEPT !.phase = "Auditing", !.audit = "NotStarted",
                                        !.auditor = driver[d].auditor], "resuming")

ResumeReviewing(d) ==
    /\ Resumes(d, "Reviewing")
    /\ CASE CopyOf(d).review = "NotStarted" -> GoesOn(d, "review")
         [] CopyOf(d).review = "Started" -> OnStarted(d, "review", "ReviewerOutcomeUnknown")
         [] OTHER -> AfterReview(d)
    /\ UNCHANGED <<admitted, decisions, invoked, bankVars>>

\* resolve, for two verdicts that are not both a pass; the caller may not have
\* come with a task for the repair.
Resolve(d) ==
    LET copy == CopyOf(d)
    IN IF copy.review # copy.audit
       THEN Escalates(d, "VerdictDisagreement")
       ELSE IF Cycle(RunOf(d)) = MaxCycle
       THEN Escalates(d, "RepairBudgetExhausted")
       ELSE \/ Returns(d, "InvalidInput")
            \/ Concludes(d, [copy EXCEPT !.phase = "RepairDirected", !.resolution = "Repair"],
                         "RepairDirected")

ResumeAuditing(d) ==
    LET copy == CopyOf(d)
    IN /\ Resumes(d, "Auditing")
       /\ CASE copy.audit = "NotStarted" ->
                 IF copy.auditor = driver[d].auditor THEN GoesOn(d, "audit")
                 ELSE Returns(d, "ProjectionConflict")
            [] copy.audit = "Started" -> OnStarted(d, "audit", "AuditorOutcomeUnknown")
            [] copy.audit = "failed" -> Escalates(d, "AuditorExecutionFailed")
            [] copy.audit = "invalid" -> Escalates(d, "EvidenceInvalid")
            [] copy.review = "pass" /\ copy.audit = "pass" ->
                 GoesOn(d, "resolve")
            [] OTHER -> Resolve(d)
       /\ UNCHANGED <<admitted, decisions, invoked, bankVars>>

-----------------------------------------------------------------------------
(***************************************************************************)
(* What is done under a completion admission lease.                        *)
(***************************************************************************)

\* Fault: evidence that is fresh is taken for the evidence that was admitted.
EvidenceIsFresh(k) == Admissible(k)

\* validate_current, of the snapshot of the lease.
EvidenceIsAdmitted(k) == Admissible(k) /\ evidence[k] = admitted[k]

LeasePlaces == {"review", "audit", "resolve", "project"}
Locked(place) ==
    CASE place = "review" -> "locked review"
      [] place = "audit" -> "locked audit"
      [] OTHER -> "locked resolve"

LockEvidence(d) ==
    /\ driver[d].at \in LeasePlaces
    /\ EvidenceIsAdmitted(RunOf(d))
    /\ TakeLease(d)
    /\ Puts(d, IF IsAt(d, "project")
               THEN [driver[d] EXCEPT !.at = "logging", !.seen = Len(decisions[RunOf(d)])]
               ELSE [driver[d] EXCEPT !.at = Locked(@)])
    /\ UNCHANGED <<admitted, reviews, decisions, fresh, invoked>>

\* The evidence is not what was admitted, or the bank stays busy too long.
LockFails(d) ==
    /\ driver[d].at \in LeasePlaces
    /\ lease # None \/ ~EvidenceIsAdmitted(RunOf(d))
    /\ IF IsAt(d, "project")
       THEN Returns(d, "Storage")
       ELSE Escalates(d, "EvidenceInvalid")
    /\ UNCHANGED <<admitted, decisions, invoked, bankVars>>

\* Inside the lease: the call is recorded as started, or the pass as resolved.
ReplaceLocked(d) ==
    /\ \/ /\ IsAt(d, "locked review")
          /\ Replaces(d, [CopyOf(d) EXCEPT !.review = "Started"], "committing")
       \/ /\ IsAt(d, "locked audit")
          /\ Replaces(d, [CopyOf(d) EXCEPT !.audit = "Started"], "committing")
       \/ /\ IsAt(d, "locked resolve")
          /\ Replaces(d, [CopyOf(d) EXCEPT !.phase = "ResolvedPass", !.resolution = "Pass"],
                      "committing")
    /\ IF driver'[d].at = "idle" THEN lease' = None ELSE UNCHANGED lease
    /\ UNCHANGED <<admitted, decisions, invoked, definitions, bundles, capability, evidence,
                   capabilityMax, evidenceMax, archives, migrated, minted>>

CommitLease(d) ==
    /\ IsAt(d, "committing")
    /\ ReleaseLease(d)
    /\ Moves(d, IF CopyOf(d).phase = "ResolvedPass" THEN "project" ELSE "calling")
    /\ UNCHANGED <<admitted, reviews, decisions, fresh, invoked>>

\* The lease cannot be committed: the driver escalates with the copy it had
\* before, and loses to its own write.
CommitFails(d) ==
    /\ IsAt(d, "committing")
    /\ ReleaseLease(d)
    /\ Returns(d, "InProgress")
    /\ UNCHANGED <<admitted, decisions, invoked>>

-----------------------------------------------------------------------------
(***************************************************************************)
(* The calls.                                                              *)
(***************************************************************************)
Role(d) == IF CopyOf(d).phase = "Reviewing" THEN "review" ELSE "audit"

InvokeRole(d) ==
    /\ IsAt(d, "calling")
    /\ invoked' = [invoked EXCEPT ![RunOf(d)][Role(d)] = @ + 1]
    /\ \/ Returns(d, "Executor")
       \/ /\ \E outcome \in CallOutcomes :
                Puts(d, [driver[d] EXCEPT !.at = "recording", !.outcome = outcome])
          /\ UNCHANGED <<reviews, fresh>>
    /\ UNCHANGED <<admitted, decisions, bankVars>>

RecordOutcome(d) ==
    /\ IsAt(d, "recording")
    /\ Replaces(d, [CopyOf(d) EXCEPT ![Role(d)] = driver[d].outcome], "resuming")
    /\ UNCHANGED <<admitted, decisions, invoked, bankVars>>

-----------------------------------------------------------------------------
(***************************************************************************)
(* project_passing_pair, under its lease.                                  *)
(***************************************************************************)
Decision(kind, sequence) == [kind |-> kind, sequence |-> sequence]

\* validate_terminal_reviewing_projection_chain, of what follows.
ChainHolds(log) == \A i \in DOMAIN log : log[i].sequence = i

\* classify_decision_projection
Classified(log) ==
    LET kinds == [i \in DOMAIN log |-> log[i].kind]
    IN CASE kinds = << >> -> "Absent"
         [] kinds = <<"review">> -> "ReviewOnly"
         [] /\ Len(kinds) >= 2 /\ kinds[1] = "review" /\ kinds[2] = "audit"
            /\ \A i \in 3..Len(kinds) : kinds[i] = "other" -> "Complete"
         [] OTHER -> "Conflict"

\* The decision that is missing, if the log is otherwise as expected.
Wanted(log) ==
    CASE Classified(log) = "Absent" -> "review"
      [] Classified(log) = "ReviewOnly" -> "audit"
      [] OTHER -> None

AppendDecision(d) ==
    LET k == RunOf(d)
        known == SubSeq(decisions[k], 1, driver[d].seen)
    IN /\ IsAt(d, "logging")
       /\ Wanted(known) # None
       /\ Len(decisions[k]) < MaxLog
       /\ decisions' = [decisions EXCEPT ![k] =
                Append(@, Decision(Wanted(known), driver[d].seen + 1))]
       /\ IF ChainHolds(decisions'[k])
          THEN /\ Puts(d, [driver[d] EXCEPT !.seen = Len(decisions'[k])])
               /\ UNCHANGED <<reviews, fresh, bankVars>>
          ELSE Returns(d, "ProjectionConflict") /\ ReleaseLease(d)
       /\ UNCHANGED <<admitted, invoked>>

FinishLogging(d) ==
    LET known == SubSeq(decisions[RunOf(d)], 1, driver[d].seen)
    IN /\ IsAt(d, "logging")
       /\ Wanted(known) = None
       /\ Returns(d, IF Classified(known) = "Complete" THEN "ResolvedPass"
                     ELSE "ProjectionConflict")
       /\ ReleaseLease(d)
       /\ UNCHANGED <<admitted, decisions, invoked>>

-----------------------------------------------------------------------------
\* The process ends; SQLite drops its reservation.
StopDriver(d) ==
    /\ ~IsAt(d, "idle")
    /\ Puts(d, NoDrive)
    /\ fresh' = fresh \ {d}
    /\ lease' = IF lease = d THEN None ELSE lease
    /\ UNCHANGED <<admitted, reviews, decisions, invoked, definitions, bundles, capability,
                   evidence, capabilityMax, evidenceMax, archives, migrated, minted>>

DriverGoes(d) ==
    \/ InstallReview(d) \/ ResumeTerminal(d) \/ ResumeReviewing(d) \/ ResumeAuditing(d)
    \/ LockEvidence(d) \/ LockFails(d) \/ ReplaceLocked(d)
    \/ CommitLease(d) \/ CommitFails(d) \/ InvokeRole(d) \/ RecordOutcome(d)
    \/ AppendDecision(d) \/ FinishLogging(d)

DriverStep(d) ==
    \/ \E k \in Runs, auditor \in Auditors : StartReview(d, k, auditor)
    \/ DriverGoes(d)
    \/ StopDriver(d)

-----------------------------------------------------------------------------
(***************************************************************************)
(* What others do.                                                         *)
(***************************************************************************)

\* The controller of Issue 6 admits the run with its current evidence.
AdmitCandidate(k) ==
    /\ lease = None
    /\ admitted[k] = None /\ Admissible(k)
    /\ admitted' = [admitted EXCEPT ![k] = evidence[k]]
    /\ UNCHANGED <<reviews, decisions, driver, fresh, invoked, bankVars>>

\* A worker's heartbeat or completion writes the row beside the projection.
LifecycleWrites(k) ==
    /\ fresh \cap Outdated(k) # {}
    /\ fresh' = fresh \ Outdated(k)
    /\ UNCHANGED <<admitted, reviews, decisions, driver, invoked, bankVars>>

\* Another event of the run reaches the log.
OtherEvent(k) ==
    /\ admitted[k] # None
    /\ Len(decisions[k]) < MaxLog
    /\ decisions' = [decisions EXCEPT ![k] = Append(@, Decision("other", Len(@) + 1))]
    /\ UNCHANGED <<admitted, reviews, driver, fresh, invoked, bankVars>>

ReviewStep ==
    \/ \E d \in Drivers : DriverStep(d)
    \/ \E k \in Runs : AdmitCandidate(k) \/ LifecycleWrites(k)
    \/ \E k \in Noisy : OtherEvent(k)

\* Beside the loop, everything that the bank is for.
BankStep ==
    \/ Publication \/ Choice \/ Operation
    \/ \E h \in Holders \ Drivers : TakeLease(h) \/ ReleaseLease(h)

LoopNext ==
    \/ ReviewStep
    \/ BankStep /\ UNCHANGED reviewVars

LoopSpec == BankInit /\ ReviewInit /\ [][LoopNext]_loopVars

-----------------------------------------------------------------------------
(***************************************************************************)
(* Properties.                                                             *)
(***************************************************************************)

ReviewTypeOK ==
    /\ admitted \in [Runs -> EvidenceRows \cup {None}]
    /\ reviews \in [Runs -> Reviews \cup {None}]
    /\ decisions \in [Runs -> Seq([kind : {"review", "audit", "other"}, sequence : Nat])]
    /\ driver \in [Drivers -> [at : DriverPlaces, run : Runs \cup {None},
                               copy : Reviews \cup {None}, auditor : Auditors \cup {None},
                               outcome : CallOutcomes \cup {None}, seen : Nat, refused : BOOLEAN]]
    /\ fresh \subseteq Drivers
    /\ invoked \in [Runs -> [Roles -> Nat]]

\* The reviewer and the auditor of a run are called at most once each, whoever
\* drives, stops and drives again (OutcomeUnknown, start_review, start_audit).
CalledAtMostOnce == \A k \in Runs, role \in Roles : invoked[k][role] <= 1

\* The loop and the rules of the row were written apart: no step that the loop
\* takes from any state it may find is refused by validate_successor or validate.
LoopIsNeverRefused == \A d \in Drivers : ~driver[d].refused

\* A run resolves as passed only when the reviewer and the auditor both said so
\* and its evidence is, at that very step, the row it was admitted with
\* (resolve, with_completion_admission_lease, validate_current).
PassIsCurrent ==
    [][\A k \in Runs :
        /\ reviews'[k] # None /\ reviews'[k].phase = "ResolvedPass"
        /\ reviews[k] # reviews'[k]
        => /\ reviews'[k].review = "pass" /\ reviews'[k].audit = "pass"
           /\ evidence[k] # None /\ evidence[k] = admitted[k] /\ evidence[k].causes = {}]_loopVars

\* Each decision of a pass is logged at most once and in order, through crashes,
\* repeated drives and drivers that log at the same time, and nothing is logged
\* of a run that did not pass (project_passing_pair, classify_decision_projection).
DecisionsLoggedOnce ==
    \A k \in Runs :
        LET logged(kind) == {i \in DOMAIN decisions[k] : decisions[k][i].kind = kind}
        IN /\ \A i, j \in logged("review") : i = j
           /\ \A i, j \in logged("audit") : i = j
           /\ \A j \in logged("audit") : \E i \in logged("review") : i < j
           /\ logged("review") # {} => reviews[k] # None /\ reviews[k].phase = "ResolvedPass"

\* Each verdict is asked for once and told once.
VerdictsHappenOnce == CalledAtMostOnce /\ DecisionsLoggedOnce

\* A candidate is reviewed only after the review of the one before it directed
\* a repair, and a verdict stands: so a chain has at most as many reviews as its
\* budget, and none after a pass or an escalation (validate_repair_chain).
RepairsFollowDirectives ==
    \A i \in 2..Len(Chain) :
        reviews[Chain[i]] # None =>
            reviews[Chain[i - 1]] # None /\ reviews[Chain[i - 1]].phase = "RepairDirected"
=============================================================================
