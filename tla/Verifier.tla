------------------------------ MODULE Verifier ------------------------------
(***************************************************************************)
(* The independent local verifier (src/rust/ovca-verifier/src/lib.rs,      *)
(* bundle.rs, snapshot.rs): a request names capabilities; their commands   *)
(* are prepared, the source is copied into a snapshot, the commands run    *)
(* there one after the other, and the verdict on every criterion is        *)
(* published as one immutable bundle.                                      *)
(*                                                                         *)
(* Files are trees that equal the manifest or do not.  While the verifier  *)
(* works, the source, the snapshot and the executables may change.         *)
(***************************************************************************)
EXTENDS EvidenceBank, CommandExecution, SequencesExt

CONSTANTS
    Requests,       \* records [id, key, capabilities, criteria]: the selection
                    \* and its instant, and what each criterion relies on
    MaxJobs         \* bound: how often the verifier is asked

VARIABLES
    job,            \* verify_and_publish
    source,         \* the source tree, against the manifest
    snapshot        \* the snapshot tree, against the manifest

jobVars == <<job, source, snapshot>>
verifierVars == <<jobVars, commandVars, bankVars>>

Verdicts == {"Pass", "Fail", "Blocked", "Timeout", "Invalid"}

\* verdict_rank: the worst wins.
Rank == [Pass |-> 0, Fail |-> 1, Blocked |-> 2, Timeout |-> 3, Invalid |-> 4]

\* failure_shape: the category of each code.
CategoryOf ==
    [TestFailedUnclassified |-> "test", PolicyBlock |-> "policy",
     ExecutableUnavailable |-> "infrastructure", ExecutableTamper |-> "contract",
     CommandTimeout |-> "timeout", OutputLimit |-> "policy",
     SourceDrift |-> "drift", SnapshotTamper |-> "contract"]

\* failure_matches_verdict: a verdict that is no pass needs a failure of its kind.
CategoriesFor ==
    [Fail |-> {"test", "infrastructure"}, Blocked |-> {"policy", "infrastructure"},
     Timeout |-> {"timeout"}, Invalid |-> {"contract", "drift"}]

NoJob == [at |-> "idle", count |-> 0, request |-> None, expected |-> None,
          next |-> 0, verdicts |-> << >>, failures |-> {}, transcript |-> << >>,
          post |-> "manifest", reply |-> None]

ASSUME VerifierAssumption ==
    /\ MaxJobs \in Nat
    /\ None # "Published"
    /\ \A r \in Requests : r.key \in Keys /\ r.capabilities \in Seq(Definitions)
    /\ \A r \in Requests : \A d \in ToSet(r.capabilities) :
            d.commands \in Seq(ToSet(d.commands))

VerifierInit ==
    /\ job = NoJob
    /\ source = "manifest"
    /\ snapshot = "empty"

-----------------------------------------------------------------------------
(***************************************************************************)
(* Requests.                                                               *)
(***************************************************************************)

CapabilityNames(r) == {d.id : d \in ToSet(r.capabilities)}
CriteriaOf(capabilities) == UNION {d.criteria : d \in ToSet(capabilities)}

\* CapabilityDefinition::validate_commands
CommandsValid(d) == d.commands # << >> /\ ToSet(d.commands) \subseteq Executables

\* validate_cross_bindings: criteria and capabilities name each other, and the
\* dependencies are selected too.
CrossBound(r) ==
    /\ r.capabilities # << >>
    /\ \A d \in ToSet(r.capabilities) : CommandsValid(d)
    /\ \A c \in DOMAIN r.criteria :
        /\ r.criteria[c] # {} /\ r.criteria[c] \subseteq CapabilityNames(r)
        /\ \A d \in ToSet(r.capabilities) : d.id \in r.criteria[c] => c \in d.criteria
    /\ \A d \in ToSet(r.capabilities) :
        /\ d.dependencies \subseteq CapabilityNames(r)
        /\ \A c \in d.criteria : c \in DOMAIN r.criteria /\ d.id \in r.criteria[c]

\* structural_preflight; preflight_roots wants the source to be the selected
\* one and the snapshot root to be empty.
Accepted(r) == CrossBound(r) /\ source = "manifest" /\ snapshot = "empty"

\* planned_commands
Plan(r) ==
    FlattenSeq([i \in 1..Len(r.capabilities) |->
        [j \in 1..Len(r.capabilities[i].commands) |->
            [capability |-> i, executable |-> r.capabilities[i].commands[j]]]])

\* What a verification of the request may publish (BundleOf).
Publishable(r) ==
    [id : [request : {r.id},
           transcript : UNION {[1..n -> Replies] : n \in 0..Len(Plan(r))}],
     key : {r.key},
     capabilities : {ToSet(r.capabilities)},
     prints : [source : {"manifest", "drifted"}],
     results : [DOMAIN r.criteria -> Verdicts]]

ASSUME PublishableAssumption == \A r \in Requests : Publishable(r) \subseteq Bundles

Planned == Plan(job.request)

-----------------------------------------------------------------------------
(***************************************************************************)
(* Verdicts and failures.                                                  *)
(***************************************************************************)

\* apply_verdict
ApplyVerdict(verdicts, criteria, contribution) ==
    [c \in DOMAIN verdicts |->
        IF c \in criteria /\ Rank[contribution] > Rank[verdicts[c]]
        THEN contribution ELSE verdicts[c]]

ForAll(verdict) == [c \in DOMAIN job.request.criteria |-> verdict]

Failure(code, sequence) == [code |-> code, sequence |-> sequence]

\* runtime_preflight_shape
PreflightShape ==
    [Refused |-> [verdict |-> "Blocked", code |-> "PolicyBlock"],
     Unavailable |-> [verdict |-> "Blocked", code |-> "ExecutableUnavailable"],
     Tampered |-> [verdict |-> "Invalid", code |-> "ExecutableTamper"]]

\* execution_shape
ExecutionShape(reply) ==
    CASE reply.kind = "Completed" /\ reply.code = 0 -> [verdict |-> "Pass", code |-> Absent]
      [] reply.kind = "Completed" /\ reply.code # 0 ->
            [verdict |-> "Fail", code |-> "TestFailedUnclassified"]
      [] reply.kind = "Timeout" -> [verdict |-> "Timeout", code |-> "CommandTimeout"]
      [] reply.kind = "OutputLimit" -> [verdict |-> "Blocked", code |-> "OutputLimit"]
      [] reply.kind = "Invalid" -> [verdict |-> "Invalid", code |-> "ExecutableTamper"]

\* What stops the plan and counts for everything that has not run.
Terminal(reply) == reply.kind # "Completed"

\* The criteria of the capability of a command and of the later ones.
CriteriaFrom(i) ==
    CriteriaOf(SubSeq(job.request.capabilities, Planned[i].capability,
                      Len(job.request.capabilities)))
CriteriaAt(i) == job.request.capabilities[Planned[i].capability].criteria

\* build_bundle: the worst result is the verdict of the bundle.
Worst(results) ==
    CHOOSE v \in {results[c] : c \in DOMAIN results} :
        \A c \in DOMAIN results : Rank[results[c]] <= Rank[v]

\* VerificationBundle::validate
VerdictExplained(verdict, failures, post) ==
    LET categories == {CategoryOf[f.code] : f \in failures} IN
    IF verdict = "Pass" THEN failures = {} /\ post = "manifest"
    ELSE /\ categories \cap CategoriesFor[verdict] # {}
         /\ (post # "manifest") <=> "drift" \in categories
         /\ post # "manifest" => verdict = "Invalid"

\* VerificationTranscriptIdentity::validate: who was stopped has no exit code.
TranscriptValid(transcript) ==
    \A i \in DOMAIN transcript :
        /\ transcript[i].kind = "Completed" => transcript[i].code # Absent
        /\ transcript[i].kind \in {"Timeout", "OutputLimit"} => transcript[i].code = Absent

\* The transcript goes with the plan, and a pass with all of it.
TranscriptCovers(verdict, transcript) ==
    /\ Planned # << >> /\ Len(transcript) <= Len(Planned)
    /\ verdict = "Pass" =>
        /\ Len(transcript) = Len(Planned)
        /\ \A i \in DOMAIN transcript : transcript[i] = [kind |-> "Completed", code |-> 0]

\* validate_verification_bundle_bindings: the results are those of the worst
\* verdict, for just the criteria of a request that is bound as it was at first.
BundleValid(results, failures, transcript, post) ==
    /\ DOMAIN results = DOMAIN job.request.criteria /\ DOMAIN results # {}
    /\ CrossBound(job.request)
    /\ VerdictExplained(Worst(results), failures, post)
    /\ TranscriptValid(transcript)
    /\ TranscriptCovers(Worst(results), transcript)

\* derive_verification_bundle_id: the identity binds the selection, the instant
\* and the transcript, and neither the results nor the failures.
BundleOf(j) ==
    [id |-> [request |-> j.request.id, transcript |-> j.transcript],
     key |-> j.request.key,
     capabilities |-> ToSet(j.request.capabilities),
     prints |-> [source |-> j.post],
     results |-> j.verdicts]

-----------------------------------------------------------------------------
(***************************************************************************)
(* verify_and_publish.                                                     *)
(***************************************************************************)
StartVerify(r) ==
    /\ job.at = "idle" /\ job.count < MaxJobs
    /\ Accepted(r)
    /\ job' = [NoJob EXCEPT !.at = "preparing", !.count = job.count + 1, !.request = r,
                            !.expected = evidence[r.key], !.next = 1]
    /\ ran' = << >>
    /\ UNCHANGED <<source, snapshot, windows, executables, watcher, process,
                   output, frozen, overflow, bankVars>>

Does(j) == job' = j
JobAt(label) == [job EXCEPT !.at = label, !.next = 1]

\* publish_pre_spawn and publish_global_integrity: one failure for everything.
PublishAll(verdict, failure, post) ==
    [job EXCEPT !.at = "publishing", !.verdicts = ForAll(verdict),
                !.failures = {failure}, !.post = post]

\* The registry prepares one command after the other.
Prepare ==
    /\ job.at = "preparing"
    /\ IF job.next > Len(Planned) THEN Does(JobAt("copying"))
       ELSE LET failure == PrepareFailure(Planned[job.next].executable)
                shape == PreflightShape[failure]
            IN Does(IF failure = Absent THEN [job EXCEPT !.next = @ + 1]
                    ELSE PublishAll(shape.verdict, Failure(shape.code, job.next), "manifest"))
    /\ UNCHANGED <<source, snapshot, commandVars, bankVars>>

\* FrozenSnapshot::materialize
CopySource ==
    /\ job.at = "copying"
    /\ IF source = "manifest"
       THEN Does(JobAt("copied")) /\ snapshot' = "whole"
       ELSE /\ Does(PublishAll("Invalid", Failure("SourceDrift", None), "drifted"))
            /\ UNCHANGED snapshot
    /\ UNCHANGED <<source, commandVars, bankVars>>

CheckCopy ==
    /\ job.at = "copied"
    /\ Does(CASE source # "manifest" ->
                PublishAll("Invalid", Failure("SourceDrift", None), "drifted")
              [] source = "manifest" /\ snapshot # "whole" ->
                PublishAll("Invalid", Failure("SnapshotTamper", None), "manifest")
              [] OTHER -> JobAt("rechecking"))
    /\ UNCHANGED <<source, snapshot, commandVars, bankVars>>

\* Every executable once more, before the first spawn.
Recheck ==
    /\ job.at = "rechecking"
    /\ Does(IF job.next > Len(Planned)
            THEN [JobAt("running") EXCEPT !.verdicts = ForAll("Pass")]
            ELSE IF FileFailure(Planned[job.next].executable) = Absent
            THEN [job EXCEPT !.next = @ + 1]
            ELSE PublishAll("Invalid", Failure("ExecutableTamper", job.next), "manifest"))
    /\ UNCHANGED <<source, snapshot, commandVars, bankVars>>

\* The directory of a command may be gone when the snapshot was touched.
RunCommand ==
    /\ job.at = "running" /\ job.next <= Len(Planned)
    /\ \E directory \in IF snapshot = "whole" THEN {TRUE} ELSE BOOLEAN :
            StartCommand(Planned[job.next].executable, directory)
    /\ Does([job EXCEPT !.at = "waiting"])
    /\ UNCHANGED <<source, snapshot, bankVars>>

\* A directory that is gone, or an executable that is not the prepared one.
Refusal(kind) ==
    IF kind = "SnapshotTamper"
    THEN [job EXCEPT !.at = "closing",
              !.verdicts = ApplyVerdict(@, DOMAIN @, "Invalid"),
              !.failures = @ \cup {Failure("SnapshotTamper", None)}]
    ELSE LET shape == PreflightShape[kind]
         IN [job EXCEPT !.at = "closing",
                 !.verdicts = ApplyVerdict(@, CriteriaFrom(job.next), shape.verdict),
                 !.failures = @ \cup {Failure(shape.code, job.next)}]

\* Fault: a terminal end counts for its own capability only.
CountedOwnCapability(reply) == CriteriaAt(job.next)

Counted(reply) == IF Terminal(reply) THEN CriteriaFrom(job.next) ELSE CriteriaAt(job.next)

Executed(reply) ==
    LET shape == ExecutionShape(reply)
    IN [job EXCEPT !.at = IF Terminal(reply) THEN "closing" ELSE "running",
            !.next = @ + 1,
            !.transcript = Append(@, reply),
            !.verdicts = ApplyVerdict(@, Counted(reply), shape.verdict),
            !.failures = IF shape.code = Absent THEN @
                         ELSE @ \cup {Failure(shape.code, job.next)}]

TakeReply ==
    LET reply == watcher.reply
    IN /\ job.at = "waiting" /\ watcher.at = "done"
       /\ Does(CASE reply.kind = "Error" -> [job EXCEPT !.at = "done", !.reply = "Error"]
                 [] reply.kind \in Refusals -> Refusal(reply.kind)
                 [] OTHER -> Executed(reply))
       /\ watcher' = NoCommand
       /\ UNCHANGED <<source, snapshot, windows, executables, process, output,
                      frozen, overflow, ran, bankVars>>

LastCommand ==
    /\ job.at = "running" /\ job.next > Len(Planned)
    /\ Does(JobAt("closing"))
    /\ UNCHANGED <<source, snapshot, commandVars, bankVars>>

\* source_post_fingerprint, then verify_snapshot_integrity.
CheckSource ==
    /\ job.at = "closing"
    /\ Does(IF source = "manifest" THEN JobAt("sealing")
            ELSE [JobAt("sealing") EXCEPT
                    !.verdicts = ApplyVerdict(@, DOMAIN @, "Invalid"),
                    !.failures = @ \cup {Failure("SourceDrift", None)},
                    !.post = "drifted"])
    /\ UNCHANGED <<source, snapshot, commandVars, bankVars>>

CheckSnapshot ==
    /\ job.at = "sealing"
    /\ Does(IF snapshot = "whole" THEN JobAt("publishing")
            ELSE [JobAt("publishing") EXCEPT
                    !.verdicts = ApplyVerdict(@, DOMAIN @, "Invalid"),
                    !.failures = @ \cup {Failure("SnapshotTamper", None)}])
    /\ UNCHANGED <<source, snapshot, commandVars, bankVars>>

Replied(reply) == Does([job EXCEPT !.at = "done", !.reply = reply])

\* publish, when the bundle is valid and the bank takes it.
Publish ==
    /\ job.at = "publishing"
    /\ BundleValid(job.verdicts, job.failures, job.transcript, job.post)
    /\ PublishAndCas(BundleOf(job), job.expected)
    /\ Replied("Published")
    /\ UNCHANGED <<source, snapshot, commandVars>>

\* build_bundle refuses what it was given.
PublishInvalid ==
    /\ job.at = "publishing"
    /\ ~BundleValid(job.verdicts, job.failures, job.transcript, job.post)
    /\ Replied("InvalidBinding")
    /\ UNCHANGED <<source, snapshot, commandVars, bankVars>>

\* The identity has other contents, or the bundle is current and stale.
PublishRefused ==
    LET b == BundleOf(job)
    IN /\ job.at = "publishing" /\ lease = None
       /\ BundleValid(job.verdicts, job.failures, job.transcript, job.post)
       /\ \/ ~BundleFits(b)
          \/ ExpectationMatches(job.expected, evidence[b.key]) /\ Revives(b, evidence[b.key])
       /\ Replied("Storage")
       /\ UNCHANGED <<source, snapshot, commandVars, bankVars>>

\* The caller takes the reply; the next call comes with a root of its own.
TakeVerification ==
    /\ job.at = "done"
    /\ job' = [NoJob EXCEPT !.count = job.count]
    /\ snapshot' = "empty"
    /\ UNCHANGED <<source, commandVars, bankVars>>

VerifierStep ==
    \/ \E r \in Requests : StartVerify(r)
    \/ Prepare \/ CopySource \/ CheckCopy \/ Recheck
    \/ RunCommand \/ TakeReply \/ LastCommand
    \/ CheckSource \/ CheckSnapshot
    \/ Publish \/ PublishInvalid \/ PublishRefused \/ TakeVerification
    \/ CommandStep /\ UNCHANGED <<jobVars, bankVars>>

-----------------------------------------------------------------------------
(***************************************************************************)
(* What others do to the trees and to the executables meanwhile.           *)
(***************************************************************************)
SourceChanges ==
    /\ source' = IF source = "manifest" THEN "drifted" ELSE "manifest"
    /\ UNCHANGED <<job, snapshot, commandVars, bankVars>>

SnapshotChanges ==
    /\ snapshot = "whole"
    /\ snapshot' = "tampered"
    /\ UNCHANGED <<job, source, commandVars, bankVars>>

Meddle ==
    \/ SourceChanges \/ SnapshotChanges
    \/ \E x \in Executables : ReplaceExecutable(x) /\ UNCHANGED <<jobVars, bankVars>>

-----------------------------------------------------------------------------
(***************************************************************************)
(* Properties.                                                             *)
(***************************************************************************)

VerifierTypeOK ==
    /\ job \in [at : {"idle", "preparing", "copying", "copied", "rechecking", "running",
                      "waiting", "closing", "sealing", "publishing", "done"},
                count : 0..MaxJobs, request : Requests \cup {None},
                expected : UNION {Tokens(k) : k \in Keys}, next : Nat,
                verdicts : UNION {[DOMAIN r.criteria -> Verdicts] : r \in Requests}
                             \cup {<< >>},
                failures : SUBSET [code : DOMAIN CategoryOf, sequence : Nat \cup {None}],
                transcript : Seq(Replies), post : {"manifest", "drifted"},
                reply : {None, "Published", "InvalidBinding", "Storage", "Error"}]
    /\ source \in {"manifest", "drifted"}
    /\ snapshot \in {"empty", "whole", "tampered"}

\* Command i of the plan was spawned from the approved file (where the platform
\* can promise it) and ended with 0.
RanWell(i) ==
    /\ i \in DOMAIN ran
    /\ ran[i].executable = Planned[i].executable
    /\ windows => ran[i].image = "approved"
    /\ ran[i].code = 0

\* A criterion that a published bundle calls passed was earned: every command
\* of every capability that serves it ran and ended with 0, whatever failed,
\* ran out of time or was replaced before, between and after them, and the trees
\* were those of the manifest at the end (verify_and_publish, apply_verdict).
PassWasRun ==
    job.reply = "Published" =>
        \A c \in DOMAIN job.verdicts : job.verdicts[c] = "Pass" =>
            /\ job.post = "manifest"
            /\ \A i \in DOMAIN Planned : c \in CriteriaAt(i) => RanWell(i)
=============================================================================
