--------------------------- MODULE EvidenceSystem ---------------------------
(***************************************************************************)
(* Local evidence as a whole: the bank, the verifier that fills it, and    *)
(* the review that relies on it (ovca-storage local_verification,          *)
(* ovca-verifier, ovca-runtime-core independent_review and ovca-langgraph  *)
(* review_audit_loop).                                                     *)
(*                                                                         *)
(* What the three share is the bank.  A behaviour runs one errand: the     *)
(* upkeep of the bank by capability owners and operators, a verification   *)
(* whose bundle a rival publication may meet, or a review while bundles    *)
(* are published, chosen and marked stale.                                 *)
(***************************************************************************)
EXTENDS Verifier, IndependentReview, FailureRouting

CONSTANTS
    Errands,        \* those that are looked at
    Rivals,         \* bundles that others publish beside the verifier
    Candidates,     \* bundles of the runs of the repair chain
    Meetings,       \* bound: where the verifier may be when a rival publishes
    Markable        \* bound: the keys that are marked stale during a review

VARIABLE errand     \* the errand of this behaviour

systemVars == <<errand, jobVars, commandVars, reviewVars, routingVars, bankVars>>

ASSUME SystemAssumption ==
    /\ Errands \subseteq {"upkeep", "verify", "review", "classify"}
    /\ Rivals \cup Candidates \subseteq Bundles
    /\ Drivers \subseteq Holders
    /\ Runs \subseteq Keys /\ Markable \subseteq Keys

SystemInit ==
    /\ errand \in Errands
    /\ BankInit
    /\ IF errand = "verify" THEN CommandInit
       ELSE /\ windows = (CHOOSE w \in Platforms : TRUE)
            /\ executables = [x \in Executables |-> "approved"]
            /\ watcher = NoCommand /\ process = NoProcess /\ output = NoOutput
            /\ frozen = FALSE /\ overflow = FALSE /\ ran = << >>
    /\ VerifierInit
    /\ ReviewInit
    /\ RoutingInit

\* Another verifier, which began when the key had nothing.
PublishRival == job.at \in Meetings /\ \E b \in Rivals : PublishAndCas(b, None)

PublishCandidate ==
    \E b \in Candidates : \E expected \in Tokens(b.key) : PublishAndCas(b, expected)

MarkAny ==
    \E k \in Markable : \E expected \in minted[k] :
        \E causes \in SUBSET Aspects : MarkStale(k, expected, causes)

Upkeep ==
    /\ errand = "upkeep"
    /\ BankNext
    /\ UNCHANGED <<errand, jobVars, commandVars, reviewVars, routingVars>>

Verify ==
    /\ errand = "verify"
    /\ \/ VerifierStep
       \/ Meddle
       \/ PublishRival /\ UNCHANGED <<jobVars, commandVars>>
    /\ UNCHANGED <<errand, reviewVars, routingVars>>

Review ==
    /\ errand = "review"
    /\ \/ ReviewStep
       \/ (PublishCandidate \/ MarkAny) /\ UNCHANGED reviewVars
    /\ UNCHANGED <<errand, jobVars, commandVars, routingVars>>

Classify ==
    /\ errand = "classify"
    /\ RoutingStep
    /\ UNCHANGED <<errand, jobVars, commandVars, reviewVars, bankVars>>

SystemNext == Upkeep \/ Verify \/ Review \/ Classify

SystemSpec == SystemInit /\ [][SystemNext]_systemVars

-----------------------------------------------------------------------------
(***************************************************************************)
(* Properties: those of the parts, in the composition.                     *)
(***************************************************************************)

\* The parts keep their types.
SystemTypeOK == BankTypeOK /\ CommandTypeOK /\ VerifierTypeOK /\ ReviewTypeOK
=============================================================================
