---------------------------- MODULE ReviewPackets ----------------------------
(***************************************************************************)
(* What the reviewer and the auditor of a candidate are handed, and what   *)
(* sends it to repair: the packets and the directive of                    *)
(* src/rust/ovca-types/src/independent_review.rs, with the rules that      *)
(* src/rust/ovca-runtime-core/src/independent_review.rs and the loop over  *)
(* them (review_audit_loop.rs) add.  The functions are pure.               *)
(*                                                                         *)
(* Identifiers, texts, paths and digests are sound, and a digest is what   *)
(* it is taken of: a packet that was changed is another packet.  Whatever  *)
(* a packet repeats of its run, goal, task, invocation and bundle either   *)
(* agrees or does not.                                                     *)
(***************************************************************************)
EXTENDS ReviewAudit

CONSTANTS
    Casts,          \* who plays which role for a candidate
    Origins,        \* what the catalog says of the making of each reference
    MaxCycles       \* the repairs that a chain may have

Makers == {"engineer", "verifier", "reviewer"}

\* Role and integrity of an EvidenceRef.
Origin == {"engineer", "reviewer", "auditor", "coordinator", "undigested"}

ASSUME PacketAssumption ==
    /\ \A cast \in Casts : DOMAIN cast = Makers \cup {"auditor"}
    /\ Origins \subseteq [Bundles -> Origin]
    /\ MaxCycles \in Nat \ {0}

-----------------------------------------------------------------------------
(***************************************************************************)
(* Manifests: which reference speaks for which criterion, by whom.         *)
(***************************************************************************)

\* IndependentEvidenceActorV1
Producer(cast, role) == [by |-> cast[role], as |-> role]
Known(cast, roles) == {Producer(cast, role) : role \in roles}

\* The catalog knows no verifier.
CatalogRole(role) == IF role = "verifier" THEN "engineer" ELSE role

\* EvidenceManifestV1::validate_for
ManifestValid(entries, judge) ==
    /\ entries # {}
    /\ \A e \in entries : e.producer.by # judge

\* validate_manifest_bindings
ManifestBinds(entries, packet, known) ==
    /\ \A e \in entries :
        /\ e.criterion \in DOMAIN GoalCriteria
        /\ e.ref \in Members(packet.context.catalog) \cap Members(packet.context.claim.refs)
        /\ packet.origin[e.ref] = CatalogRole(e.producer.as)
        /\ e.producer \in known
    /\ {e.ref : e \in entries} = Members(packet.context.claim.refs)

\* decision_manifest_bindings: what an assessment rests on is in the manifest.
Backed(entries, d) ==
    \A c \in DOMAIN d.assessments : \A ref \in d.assessments[c].refs :
        \E e \in entries : e.criterion = c /\ e.ref = ref

\* validate_evidence_context
EvidenceContextValid(context) ==
    /\ Ordered(context.catalog)
    /\ Len(context.claim.refs) >= MinimumReferences(context.goal)
    /\ Ordered(context.claim.refs)
    /\ Members(context.claim.refs) \subseteq Members(context.catalog)
    /\ context.claim.satisfied \subseteq DOMAIN GoalCriteria

-----------------------------------------------------------------------------
(***************************************************************************)
(* Packets.                                                                *)
(***************************************************************************)

\* FrozenPathDiffV1: the one file of the effect, which has to have changed.
DiffValid(diff) == diff.before # diff.after

\* ReviewPacketV1.  bound: all that it repeats agrees, the bundle passed and is
\* the current one, and the invocation has no resource and no write key.
ReviewPacket(context, cast, origin, entries, cycle, continues) ==
    [context |-> context, cast |-> cast, origin |-> origin, entries |-> entries,
     cycle |-> cycle, continues |-> continues, bound |-> TRUE,
     diff |-> [before |-> None, after |-> "after"]]

\* ReviewPacketV1::validate; continues: it names a run and a directive before it.
ReviewPacketValid(p) ==
    /\ p.cycle <= MaxCycles
    /\ p.continues = (p.cycle # 0)
    /\ p.cast["engineer"] # p.cast["verifier"]
    /\ p.cast["reviewer"] \notin {p.cast["engineer"], p.cast["verifier"]}
    /\ p.bound
    /\ DiffValid(p.diff)
    /\ EvidenceContextValid(p.context)
    /\ ManifestValid(p.entries, p.cast["reviewer"])
    /\ ManifestBinds(p.entries, p, Known(p.cast, {"engineer", "verifier"}))

\* AuditPacketV1 on a review packet; own: its namespace is not the one of the
\* review; decision: what the packet repeats of the review.
AuditPacket(p, decision, entries) ==
    [packet |-> p, decision |-> decision, entries |-> entries, bound |-> TRUE, own |-> TRUE]

\* AuditPacketV1::validate
AuditPacketValid(a) ==
    /\ ReviewPacketValid(a.packet)
    /\ a.packet.cast["auditor"] \notin {a.packet.cast[r] : r \in Makers}
    /\ a.bound /\ a.decision.bound /\ a.decision.role = "reviewer"
    /\ a.own
    /\ ManifestValid(a.entries, a.packet.cast["auditor"])
    /\ ManifestBinds(a.entries, a.packet, Known(a.packet.cast, Makers))

\* IndependentReviewStateV1::validate, of the packets
PacketsFit(p, audit) ==
    /\ ReviewPacketValid(p)
    /\ ContextValid(p.context)
    /\ Members(p.context.claim.refs) \subseteq Members(p.context.catalog)
    /\ audit # None => AuditPacketValid(audit) /\ audit.packet = p

\* validate_audit_packet_binding
AuditFollowsReview(a) == ReviewValid(a.packet.context, a.decision)

-----------------------------------------------------------------------------
(***************************************************************************)
(* Repair.                                                                 *)
(***************************************************************************)

\* expected_unsatisfied_criteria
Unsatisfied(review, audit) ==
    {c \in DOMAIN GoalCriteria :
        ~review.assessments[c].satisfied \/ ~audit.assessments[c].satisfied}

\* derive_repair_successor_run_id: a run is known by what it follows from.
SuccessorRun(p, review, audit) == <<p, review, audit>>

\* build_directive
Directive(p, review, audit) ==
    [failed |-> p.cycle, successor |-> p.cycle + 1, continues |-> p.continues,
     run |-> SuccessorRun(p, review, audit), authority |-> FALSE,
     criteria |-> Unsatisfied(review, audit)]

\* RepairDirectiveV1::validate
DirectiveValid(d, run) ==
    /\ d.failed < MaxCycles
    /\ d.continues = (d.failed # 0)
    /\ d.successor = d.failed + 1
    /\ ~d.authority
    /\ d.criteria # {}
    /\ d.run = run

\* validate_terminal_semantics, for a run that is sent to repair
DirectiveFits(p, review, audit, d) ==
    /\ ReviewValid(p.context, review) /\ AuditValid(p.context, audit)
    /\ review.verdict = "fail" /\ audit.verdict = "fail"
    /\ p.cycle < MaxCycles
    /\ d = Directive(p, review, audit)

-----------------------------------------------------------------------------
(***************************************************************************)
(* What the packets are for.                                               *)
(***************************************************************************)

\* The manifests that a caller may come with: each reference speaks for some
\* criteria, and a role has something to show.
ManifestsOf(context, cast) ==
    {{[criterion |-> x[1], ref |-> x[2], producer |-> makers[x[2]]] : x \in spoken} :
        spoken \in SUBSET ((DOMAIN GoalCriteria) \X Members(context.claim.refs)),
        makers \in [Members(context.claim.refs) -> Known(cast, Makers)]}

PacketsOf(context, cast, origin) ==
    {ReviewPacket(context, cast, origin, entries, cycle, continues) :
        entries \in ManifestsOf(context, cast), cycle \in 0..(MaxCycles + 1),
        continues \in BOOLEAN}

AuditPacketsOf(p, decision) ==
    {AuditPacket(p, decision, entries) : entries \in ManifestsOf(p.context, p.cast)}

\* The decisions that the row records as such: validate_typed_completed_outcome.
ReviewsOf(p) == {d \in Every("reviewer") : ReviewValid(p.context, d) /\ Backed(p.entries, d)}
AuditsOf(a) ==
    {d \in Every("auditor") : AuditValid(a.packet.context, d) /\ Backed(a.entries, d)}

\* The criteria that a manifest has something on.
SpokenFor(entries) == {e.criterion : e \in entries}

Required(goal) == {c \in DOMAIN GoalCriteria : GoalCriteria[c] \in goal.requires \cup {"done"}}

\* Nobody judges a reference of his own or beside a role that he played, and
\* the maker of every reference is known.
Independent(packet, entries, judge) ==
    /\ \A r \in Makers \ {judge} : packet.cast[r] # packet.cast[judge]
    /\ \A ref \in Members(packet.context.claim.refs) :
            \E e \in entries : e.ref = ref /\ e.producer.by # packet.cast[judge]

\* What two decisions that fail lead to.
RepairHolds(p, review, audit) ==
    LET d == Directive(p, review, audit)
    IN review.verdict = "fail" /\ audit.verdict = "fail" =>
        /\ DirectiveValid(d, SuccessorRun(p, review, audit)) <=> p.cycle < MaxCycles
        /\ p.cycle < MaxCycles =>
            /\ DirectiveFits(p, review, audit, d)
            /\ ReviewPacketValid([p EXCEPT !.cycle = d.successor, !.continues = TRUE])

\* The rules of packets, of decisions and of directives are written in three
\* places.  A packet that is valid is never refused by the row, and whoever
\* judges is independent.  A reviewer can decide only in one way, the one of the
\* claim, and only if the manifest speaks for every criterion that is claimed,
\* which no rule of packets asks for; an auditor can always fail a candidate, and
\* pass it only if his manifest speaks for every criterion that is required.  Two
\* decisions that fail make a directive that the row accepts, as long as the
\* budget lasts, and a candidate that continues; a claim that covers its goal is
\* never sent to repair.
EveryPacketCanBeDecided ==
    \A context \in {x \in Contexts : EvidenceContextValid(x)}, cast \in Casts,
       origin \in Origins :
        \A p \in {q \in PacketsOf(context, cast, origin) : ReviewPacketValid(q)} :
            /\ PacketsFit(p, None)
            /\ Independent(p, p.entries, "reviewer")
            /\ ReviewsOf(p) # {} <=> context.claim.satisfied \subseteq SpokenFor(p.entries)
            /\ \A review \in ReviewsOf(p) :
                    review.verdict = "pass" <=> ClaimCovers(context.goal, context.claim)
            /\ ReviewsOf(p) # {} =>
                LET review == CHOOSE d \in ReviewsOf(p) : TRUE IN
                \A a \in {b \in AuditPacketsOf(p, review) : AuditPacketValid(b)} :
                    LET audits == AuditsOf(a) IN
                    /\ PacketsFit(p, a) /\ AuditFollowsReview(a)
                    /\ Independent(p, a.entries, "auditor")
                    /\ \E audit \in audits : audit.verdict = "fail"
                    /\ (\E audit \in audits : audit.verdict = "pass")
                            <=> Required(context.goal) \subseteq SpokenFor(a.entries)
                    /\ \A audit \in audits : RepairHolds(p, review, audit)
=============================================================================
