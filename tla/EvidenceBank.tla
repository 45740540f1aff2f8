---------------------------- MODULE EvidenceBank ----------------------------
(***************************************************************************)
(* The local verification store (src/rust/ovca-storage/src/                *)
(* local_verification.rs and local_verification/operations.rs): immutable  *)
(* capability definitions and verification bundles, the mutable choice of  *)
(* the current ones with its generations, and the archives from which an   *)
(* operator recovers that choice.                                          *)
(*                                                                         *)
(* Every write is one IMMEDIATE transaction of SQLite, so it is one step,  *)
(* and no write commits while a completion admission lease is held.  A     *)
(* call that is refused changes nothing and has no action; a caller that   *)
(* kept an old token may present it at any time.                           *)
(***************************************************************************)
EXTENDS Integers, FiniteSets

CONSTANTS
    CapabilityIds,  \* names of capabilities
    Definitions,    \* records [id, revision, dependencies, text]
    Keys,           \* evidence keys: one run, goal and task
    Bundles,        \* records [id, key, capabilities, prints, ..]
    Offered,        \* those of them that a caller may come with
    Aspects,        \* the fingerprints that can differ, each a stale cause
    Prints,         \* fingerprints a caller may hold: functions on Aspects
    ArchiveIds,     \* names of archives
    Drafts,         \* the selections an operator may come with
    Legacy,         \* [ArchiveIds -> selection or None], the old files
    Holders,        \* callers that take the completion admission lease
    MaxGeneration,  \* bound: the largest generation
    None            \* nothing

VARIABLES
    definitions,    \* capability_records
    bundles,        \* bundle_records
    capability,     \* capability_current
    evidence,       \* bundle_current
    capabilityMax,  \* capability_generations: the row last bound
    evidenceMax,    \* bundle_generations: the row last bound
    archives,       \* projection_archives
    migrated,       \* the marker of the import of the old archives
    lease,          \* who holds the write reservation, or None
    minted          \* every row that was ever current, for each key

bankVars == <<definitions, bundles, capability, evidence, capabilityMax,
              evidenceMax, archives, migrated, lease, minted>>

Generations == 1..MaxGeneration
CapabilityRows == [definition : Definitions, generation : Generations]
EvidenceRows == [bundle : Bundles, causes : SUBSET Aspects, generation : Generations]

CapabilityChoices == [CapabilityIds -> CapabilityRows \cup {None}]
EvidenceChoices == [Keys -> EvidenceRows \cup {None}]
Selections == [intent : {"Replace", "Genesis", "Reset"},
               capability : CapabilityChoices, evidence : EvidenceChoices]

Chosen(choice) == {x \in DOMAIN choice : choice[x] # None}
Nothing(ids) == [x \in ids |-> None]

\* CapabilityDefinition::validate, for what a definition is here.
DefinitionValid(d) == d.revision > 0 /\ d.id \notin d.dependencies

ASSUME BankAssumption ==
    /\ None \notin CapabilityRows \cup EvidenceRows \cup Selections
    /\ MaxGeneration \in Nat
    /\ \A d \in Definitions : d.id \in CapabilityIds /\ d.dependencies \subseteq CapabilityIds
    /\ \A d \in Definitions : DefinitionValid(d)
    /\ Offered \subseteq Bundles
    /\ \A b \in Bundles : b.key \in Keys /\ b.capabilities \subseteq Definitions
    /\ Drafts \subseteq Selections
    /\ Legacy \in [ArchiveIds -> Selections \cup {None}]

-----------------------------------------------------------------------------
(***************************************************************************)
(* Immutable records.                                                      *)
(***************************************************************************)

\* publish_capability_tx: one identity and revision, one content.
DefinitionFits(d) ==
    \A other \in definitions :
        other.id = d.id /\ other.revision = d.revision => other = d

\* publish_bundle_tx
BundleFits(b) == \A other \in bundles : other.id = b.id => other = b

\* seed_capability: the very first sight of a capability without dependencies.
Seedable(d) ==
    /\ d.dependencies = {}
    /\ capability[d.id] = None
    /\ capabilityMax[d.id] = None
    /\ \A other \in definitions : other.id = d.id => other.revision = d.revision

-----------------------------------------------------------------------------
(***************************************************************************)
(* The current rows and their generations.                                 *)
(***************************************************************************)

\* Fault: the next generation is taken from the current row.
NextGenerationOf(bound, row) == IF row = None THEN 1 ELSE row.generation + 1

\* next_bundle_generation: from the allocator, which outlives the row.
NextGeneration(bound, row) == IF bound = None THEN 1 ELSE bound.generation + 1

\* validate_generation_transition
GenerationFits(row, bound) ==
    bound # None =>
        /\ row.generation >= bound.generation
        /\ row.generation = bound.generation => row = bound

\* require_fresh_bundle_generation
GenerationIsFresh(row, bound) ==
    IF bound = None THEN row.generation = 1 ELSE row.generation > bound.generation

\* expectation_matches: None expects the absence of a row.
ExpectationMatches(expected, row) == expected = row

\* apply_bundle_cas refuses to make a stale bundle current again.
Revives(b, row) == row # None /\ row.causes # {} /\ row.bundle = b

NextEvidence(k, b, causes) ==
    [bundle |-> b, causes |-> causes,
     generation |-> NextGeneration(evidenceMax[k], evidence[k])]

\* write_bundle_current_cas and persist_bundle_generation.
BindEvidence(k, row) ==
    /\ row.generation <= MaxGeneration
    /\ evidence' = [evidence EXCEPT ![k] = row]
    /\ evidenceMax' = [evidenceMax EXCEPT ![k] = row]
    /\ minted' = [minted EXCEPT ![k] = @ \cup {row}]

\* apply_bundle_cas, when it applies.
ApplyBundleCas(b, expected) ==
    /\ ExpectationMatches(expected, evidence[b.key])
    /\ ~Revives(b, evidence[b.key])
    /\ BindEvidence(b.key, NextEvidence(b.key, b, {}))

\* A token that a caller may hold: one that was current, or none.
Tokens(k) == minted[k] \cup {None}

-----------------------------------------------------------------------------
(***************************************************************************)
(* Selections: what an archive may hold and what the health report says.   *)
(***************************************************************************)

\* exact_bundle_capability_fingerprints: a bundle goes with exactly the
\* definitions it was run with, closed under dependencies.
ExactCapabilities(b, choice) ==
    \A d \in b.capabilities :
        /\ choice[d.id] # None
        /\ choice[d.id].definition = d
        /\ d.dependencies \subseteq {other.id : other \in b.capabilities}

\* The dependencies of every chosen capability are chosen.
DependenciesChosen(choice) ==
    \A c \in Chosen(choice) : choice[c].definition.dependencies \subseteq Chosen(choice)

\* validate_capability_selection
CapabilityStored(c, row) == row.definition \in definitions /\ row.definition.id = c

\* validate_bundle_selection
EvidenceStored(k, row) == row.bundle \in bundles /\ row.bundle.key = k

SelectionStored(s) ==
    /\ \A c \in Chosen(s.capability) : CapabilityStored(c, s.capability[c])
    /\ \A k \in Chosen(s.evidence) : EvidenceStored(k, s.evidence[k])

\* validate_shape: an empty selection says why it is empty.
IntentFits(s) ==
    (s.intent = "Replace") <=> Chosen(s.capability) # {} \/ Chosen(s.evidence) # {}

\* validate_selection_records
SelectionValid(s) ==
    /\ IntentFits(s)
    /\ SelectionStored(s)
    /\ DependenciesChosen(s.capability)
    /\ \A k \in Chosen(s.evidence) : ExactCapabilities(s.evidence[k].bundle, s.capability)

\* local_verification_health: evidence_binding_health.
EvidenceHealth ==
    \A k \in Chosen(evidence) :
        /\ EvidenceStored(k, evidence[k])
        /\ evidenceMax[k] = evidence[k]
        /\ ExactCapabilities(evidence[k].bundle, capability)

\* local_verification_health: current_projection_integrity, for capabilities.
CapabilityHealth ==
    \A c \in Chosen(capability) :
        CapabilityStored(c, capability[c]) /\ capabilityMax[c] = capability[c]

\* local_verification_health: no section of the report has an issue.
Healthy == CapabilityHealth /\ EvidenceHealth /\ DependenciesChosen(capability)

\* require_complete_allocator_selection: nothing that ever had a generation
\* is left out.
CoversAllocators(s) ==
    /\ Chosen(capabilityMax) \cup Chosen(capability) \subseteq Chosen(s.capability)
    /\ Chosen(evidenceMax) \cup Chosen(evidence) \subseteq Chosen(s.evidence)

\* The projection is replaced by a selection, the allocators follow.
Project(s) ==
    /\ capability' = s.capability
    /\ evidence' = s.evidence
    /\ capabilityMax' = [c \in CapabilityIds |->
            IF s.capability[c] = None THEN capabilityMax[c] ELSE s.capability[c]]
    /\ evidenceMax' = [k \in Keys |->
            IF s.evidence[k] = None THEN evidenceMax[k] ELSE s.evidence[k]]
    /\ minted' = [k \in Keys |->
            IF s.evidence[k] = None THEN minted[k] ELSE minted[k] \cup {s.evidence[k]}]

-----------------------------------------------------------------------------
BankInit ==
    /\ definitions = {}
    /\ bundles = {}
    /\ capability = Nothing(CapabilityIds)
    /\ evidence = Nothing(Keys)
    /\ capabilityMax = Nothing(CapabilityIds)
    /\ evidenceMax = Nothing(Keys)
    /\ archives = Nothing(ArchiveIds)
    /\ migrated = FALSE
    /\ lease = None
    /\ minted = [k \in Keys |-> {}]

\* CapabilityRegistry::seed_capability
SeedCapability(d) ==
    /\ lease = None
    /\ Seedable(d) /\ DefinitionFits(d)
    /\ definitions' = definitions \cup {d}
    /\ UNCHANGED <<bundles, capability, evidence, capabilityMax, evidenceMax,
                   archives, migrated, lease, minted>>

\* CapabilityRegistry::publish
PublishCapability(d) ==
    /\ lease = None
    /\ DefinitionFits(d)
    /\ definitions' = definitions \cup {d}
    /\ UNCHANGED <<bundles, capability, evidence, capabilityMax, evidenceMax,
                   archives, migrated, lease, minted>>

\* CapabilityRegistry::compare_and_swap_current
CasCapability(d, expected) ==
    LET row == [definition |-> d,
                generation |-> NextGeneration(capabilityMax[d.id], capability[d.id])]
    IN /\ lease = None
       /\ d \in definitions
       /\ ExpectationMatches(expected, capability[d.id])
       /\ row.generation <= MaxGeneration
       /\ capability' = [capability EXCEPT ![d.id] = row]
       /\ capabilityMax' = [capabilityMax EXCEPT ![d.id] = row]
       /\ UNCHANGED <<definitions, bundles, evidence, evidenceMax, archives,
                      migrated, lease, minted>>

\* EvidenceBank::publish_bundle
PublishBundle(b) ==
    /\ lease = None
    /\ BundleFits(b)
    /\ bundles' = bundles \cup {b}
    /\ UNCHANGED <<definitions, capability, evidence, capabilityMax, evidenceMax,
                   archives, migrated, lease, minted>>

\* EvidenceBank::compare_and_swap_current
CasEvidence(b, expected) ==
    /\ lease = None
    /\ b \in bundles
    /\ ApplyBundleCas(b, expected)
    /\ UNCHANGED <<definitions, bundles, capability, capabilityMax, archives,
                   migrated, lease>>

\* EvidenceBank::publish_bundle_and_cas: a conflict keeps the publication, a
\* refused revival undoes it.
PublishAndCas(b, expected) ==
    /\ lease = None
    /\ BundleFits(b)
    /\ bundles' = bundles \cup {b}
    /\ IF ExpectationMatches(expected, evidence[b.key])
       THEN ApplyBundleCas(b, expected)
       ELSE UNCHANGED <<evidence, evidenceMax, minted>>
    /\ UNCHANGED <<definitions, capability, capabilityMax, archives, migrated, lease>>

\* EvidenceBank::mark_stale: the causes add up.
MarkStale(k, expected, causes) ==
    /\ lease = None
    /\ causes # {}
    /\ evidence[k] # None /\ expected = evidence[k]
    /\ ~ causes \subseteq evidence[k].causes
    /\ BindEvidence(k, NextEvidence(k, evidence[k].bundle, evidence[k].causes \cup causes))
    /\ UNCHANGED <<definitions, bundles, capability, capabilityMax, archives,
                   migrated, lease>>

\* EvidenceBank::mark_stale_if_fingerprints_changed: what was compared with the
\* stored bundle is marked under the token of that bundle.
MarkStaleIfChanged(k, expected, prints) ==
    /\ expected # None
    /\ MarkStale(k, expected, {a \in Aspects : expected.bundle.prints[a] # prints[a]})

\* LocalVerificationStore::rebuild_projections: no closure and no completeness
\* is asked for, and an equal generation must mean the same row.
Rebuild(s) ==
    /\ lease = None
    /\ IntentFits(s) /\ SelectionStored(s)
    /\ \A c \in Chosen(s.capability) : GenerationFits(s.capability[c], capabilityMax[c])
    /\ \A k \in Chosen(s.evidence) : GenerationFits(s.evidence[k], evidenceMax[k])
    /\ Project(s)
    /\ UNCHANGED <<definitions, bundles, archives, migrated, lease>>

\* scan_archive_ownership: the old files that are found, by their names.
OldArchives == Chosen(Legacy)

\* ensure_projection_archive_migration: the first use of the archives imports
\* every old file, or none.
Migrate ==
    /\ lease = None /\ ~migrated
    /\ \A a \in OldArchives : SelectionValid(Legacy[a])
    /\ archives' = Legacy
    /\ migrated' = TRUE
    /\ UNCHANGED <<definitions, bundles, capability, evidence, capabilityMax,
                   evidenceMax, lease, minted>>

\* LocalVerificationStore::persist_projection_archive
PersistArchive(a, s) ==
    /\ lease = None /\ migrated
    /\ SelectionValid(s)
    /\ archives[a] = None
    /\ archives' = [archives EXCEPT ![a] = s]
    /\ UNCHANGED <<definitions, bundles, capability, evidence, capabilityMax,
                   evidenceMax, migrated, lease, minted>>

\* LocalVerificationStore::recover_projections_from_archive, for an archive of
\* a choice: one of nothing is checked against a pristine store and changes
\* nothing, one of a reset is refused.
Recover(a) ==
    LET s == archives[a]
    IN /\ lease = None /\ migrated
       /\ s # None
       /\ s.intent = "Replace"
       /\ SelectionValid(s) /\ CoversAllocators(s)
       /\ \A c \in Chosen(s.capability) : GenerationIsFresh(s.capability[c], capabilityMax[c])
       /\ \A k \in Chosen(s.evidence) : GenerationIsFresh(s.evidence[k], evidenceMax[k])
       /\ Project(s)
       /\ UNCHANGED <<definitions, bundles, archives, migrated, lease>>

\* with_completion_admission_lease: the write reservation, and what it reads.
TakeLease(h) ==
    /\ lease = None
    /\ lease' = h
    /\ UNCHANGED <<definitions, bundles, capability, evidence, capabilityMax,
                   evidenceMax, archives, migrated, minted>>

\* The reservation ends with the callback, or with the process.
ReleaseLease(h) ==
    /\ lease = h
    /\ lease' = None
    /\ UNCHANGED <<definitions, bundles, capability, evidence, capabilityMax,
                   evidenceMax, archives, migrated, minted>>

\* What the snapshot of a lease must show of a key.
Admissible(k) == evidence[k] # None /\ evidence[k].causes = {}

-----------------------------------------------------------------------------
Publication ==
    \/ \E d \in Definitions : SeedCapability(d) \/ PublishCapability(d)
    \/ \E b \in Offered : PublishBundle(b)

Choice ==
    \/ \E d \in Definitions : \E expected \in CapabilityRows \cup {None} :
            CasCapability(d, expected)
    \/ \E b \in Offered : \E expected \in Tokens(b.key) :
            CasEvidence(b, expected) \/ PublishAndCas(b, expected)
    \/ \E k \in Keys : \E expected \in minted[k] :
            \/ \E causes \in SUBSET Aspects : MarkStale(k, expected, causes)
            \/ \E prints \in Prints : MarkStaleIfChanged(k, expected, prints)

Operation ==
    \/ Migrate
    \/ \E s \in Drafts : Rebuild(s) \/ \E a \in ArchiveIds : PersistArchive(a, s)
    \/ \E a \in ArchiveIds : Recover(a)

Admission == \E h \in Holders : TakeLease(h) \/ ReleaseLease(h)

BankNext == Publication \/ Choice \/ Operation \/ Admission

BankSpec == BankInit /\ [][BankNext]_bankVars

-----------------------------------------------------------------------------
(***************************************************************************)
(* Properties.                                                             *)
(***************************************************************************)

\* The stores keep their types.
BankTypeOK ==
    /\ definitions \subseteq Definitions
    /\ bundles \subseteq Bundles
    /\ capability \in CapabilityChoices /\ capabilityMax \in CapabilityChoices
    /\ evidence \in EvidenceChoices /\ evidenceMax \in EvidenceChoices
    /\ archives \in [ArchiveIds -> Selections \cup {None}]
    /\ migrated \in BOOLEAN
    /\ lease \in Holders \cup {None}
    /\ minted \in [Keys -> SUBSET EvidenceRows]

\* Whatever was rebuilt, dropped, recovered or swapped, the current row is the
\* newest its key ever had, and no generation was given to two rows: a token
\* that somebody kept can never match another row than the one it was read from
\* (local_verification.rs: the generation allocators, expectation_matches).
CurrentIsNewest ==
    \A k \in Keys : \A old \in minted[k] :
        evidence[k] # None =>
            /\ old.generation <= evidence[k].generation
            /\ old.generation = evidence[k].generation => old = evidence[k]

\* A published record is never replaced, and two contents never share a name
\* (publish_capability_tx, publish_bundle_tx).
RecordsAreImmutable ==
    /\ \A d, e \in definitions : d.id = e.id /\ d.revision = e.revision => d = e
    /\ \A b, c \in bundles : b.id = c.id => b = c
=============================================================================
