-------------------------- MODULE MCEvidenceSystem --------------------------
(***************************************************************************)
(* Two capabilities, two runs of one repair chain, two drivers of a        *)
(* review, one archive, two requests to the verifier.                      *)
(***************************************************************************)
EXTENDS EvidenceSystem

CONSTANTS k1, k2, d1, d2

Definition(id, revision, dependencies, criteria, commands) ==
    [id |-> id, revision |-> revision, dependencies |-> dependencies,
     criteria |-> criteria, commands |-> commands]

\* The check learns to depend on the lint; the first revision of the lint has
\* two contents, and in one it serves no criterion.
check1 == Definition("check", 1, {}, {"builds"}, <<"cargo">>)
check2 == Definition("check", 2, {"lint"}, {"builds"}, <<"cargo">>)
lint1 == Definition("lint", 1, {}, {"tidy"}, <<"cargo">>)
helper1 == Definition("lint", 1, {}, {}, <<"cargo">>)

MCDefinitions == {check1, check2, lint1, helper1}

Bundle(name, key, capabilities, print) ==
    [id |-> [request |-> name, transcript |-> << >>], key |-> key,
     capabilities |-> capabilities, prints |-> [source |-> print],
     results |-> [builds |-> "Pass"]]

b1 == Bundle("b1", k1, {check1}, "manifest")
b1x == Bundle("b1", k1, {check1}, "drifted")
b2 == Bundle("b2", k1, {check2, lint1}, "drifted")
MCOffered == {b1, b1x, b2}
MCCandidates == {b1, Bundle("b3", k2, {check1}, "manifest")}

\* The rival has the identity of a verification that stopped at once.
MCRivals == {Bundle("r1", k1, {check1, lint1}, "manifest")}

MCRequests ==
    {[id |-> "r1", key |-> k1, capabilities |-> <<check1, lint1>>,
      criteria |-> [builds |-> {"check"}, tidy |-> {"lint"}]],
     [id |-> "r2", key |-> k1, capabilities |-> <<check1, helper1>>,
      criteria |-> [builds |-> {"check"}]]}

MCBundles ==
    MCOffered \cup MCCandidates \cup MCRivals
    \cup [id : [request : {"r1", "r2"}, transcript : UNION {[1..n -> Replies] : n \in 0..2}],
          key : {k1},
          capabilities : {{check1, lint1}, {check1, helper1}},
          prints : [source : {"manifest", "drifted"}],
          results : [{"builds"} -> Verdicts] \cup [{"builds", "tidy"} -> Verdicts]]

MCPrints == {[source |-> "manifest"]}

\* The selections an operator comes with.
Capabilities(check, lint) == [Nothing(CapabilityIds) EXCEPT !["check"] = check, !["lint"] = lint]
Evidence(row) == [Nothing(Keys) EXCEPT ![k1] = row]
Row(d, g) == [definition |-> d, generation |-> g]
EvidenceRow(b, g) == [bundle |-> b, causes |-> {}, generation |-> g]

Selection(intent, capabilities, row) ==
    [intent |-> intent, capability |-> capabilities, evidence |-> Evidence(row)]

MCDrafts ==
    {Selection(intent, Capabilities(None, None), None) : intent \in {"Reset", "Genesis"}}
    \cup {Selection("Replace", Capabilities(Row(check1, g), None), row) :
            g \in 1..2, row \in {None, EvidenceRow(b1, 1), EvidenceRow(b1, 2)}}
    \cup {Selection("Replace", Capabilities(Row(check2, 2), Row(lint1, 1)), row) :
            row \in {None, EvidenceRow(b2, 2)}}

MCLegacy == [a \in ArchiveIds |-> None]
\* The first actor implements, the second verifies; the owners may be either,
\* a third, or nobody.
MCBindings ==
    {[o \in Owners |-> CASE o = "ImplementationActor" -> "a1"
                         [] o = "VerifierActor" -> verifier
                         [] o = "ConfirmationOwner" -> confirms
                         [] OTHER -> "a3"] :
        verifier \in {"a1", "a2"}, confirms \in {"a2", "a3", Nobody}}

MCChain == <<k1, k2>>

\* The drivers are alike.
MCSymmetry == Permutations({d1, d2})
=============================================================================
