------------------------ MODULE MCCompletionAdmission ------------------------
(***************************************************************************)
(* A goal of two tasks: one builds the source, one tidies the documents,   *)
(* and both use a tool.                                                    *)
(***************************************************************************)
EXTENDS CompletionAdmission

CONSTANTS k1, k2, h1, h2

Definition(id, revision, dependencies, criteria, selectors) ==
    [id |-> id, revision |-> revision, dependencies |-> dependencies,
     criteria |-> criteria, selectors |-> selectors]

Under(path) == [kind |-> "Prefix", path |-> path]
Exactly(path) == [kind |-> "Exact", path |-> path]

build1 == Definition("build", 1, {"tool"}, {"builds"}, {Under(<<"src">>)})
lint1 == Definition("lint", 1, {"tool"}, {"tidy"}, {Under(<<"docs">>)})
tool1 == Definition("tool", 1, {}, {}, {Exactly(<<"tools", "x">>)})
\* A tool that serves a criterion, and one that makes a cycle.
tool2 == Definition("tool", 2, {}, {"builds"}, {Exactly(<<"tools", "x">>)})
tool3 == Definition("tool", 3, {"build"}, {}, {Under(<<"tools">>)})
\* A capability of something else learns to care for the source.
style1 == Definition("style", 1, {"tool"}, {}, {Under(<<"art">>)})
style2 == Definition("style", 2, {}, {}, {Under(<<"src">>)})

MCDefinitions == {build1, lint1, tool1, tool2, tool3, style1, style2}
MCRegistered == {tool2, style2}

Sources == {"s1", "s2"}
MCPrints == [{"source"} -> Sources]

Bundle(key, capabilities, source, results, verdict, failures, drifted) ==
    [id |-> <<key, {<<d.id, d.revision>> : d \in capabilities}, source, verdict>>,
     key |-> key, capabilities |-> capabilities, prints |-> [source |-> source],
     results |-> results, verdict |-> verdict, failures |-> failures,
     drifted |-> drifted]

Passed(key, capabilities, source, criterion) ==
    Bundle(key, capabilities, source, [x \in {criterion} |-> "Pass"], "Pass", {}, FALSE)
Failed(key, capabilities, source, criterion) ==
    Bundle(key, capabilities, source, [x \in {criterion} |-> "Fail"], "Fail",
           {"TestFailedUnclassified"}, FALSE)

MCOffered ==
    {Passed(k1, {build1, tool1}, "s1", "builds"), Passed(k1, {build1, tool2}, "s1", "builds"),
     Failed(k1, {build1, tool1}, "s1", "builds"),
     Passed(k2, {lint1, tool1}, "s1", "tidy"),
     Passed(k2, {lint1, tool2}, "s1", "tidy")}

Changed(path) == Entry("Modified", path, None)
Moved(path, previous) == Entry("Renamed", path, previous)

code == {Changed(<<"src", "main">>)}
text == {Changed(<<"docs", "a">>)}
tools == {Changed(<<"tools", "x">>)}
moved == {Moved(<<"docs", "b">>, <<"src", "b">>)}
strange == {Changed(<<"srcs", "main">>), Changed(<<"docs">>)}
MCManifests == {{}, code, text, tools, moved, strange}

Request(manifest, unknown) == [manifest |-> manifest, unknown |-> unknown]
MCRequested ==
    {[k \in {k1, k2} |-> IF k = k1 THEN Request(m, "Blocked") ELSE Request(text, "Blocked")] :
        m \in {code, tools}}

MCBehavior ==
    [k \in {k1, k2} |-> IF k = k1 THEN [builds |-> {"build"}] ELSE [tidy |-> {"lint"}]]

MCLegacy == [a \in ArchiveIds |-> None]
=============================================================================
