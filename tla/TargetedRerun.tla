---------------------------- MODULE TargetedRerun ----------------------------
(***************************************************************************)
(* Which capabilities a change makes necessary: select_targeted_rerun of   *)
(* src/rust/ovca-types/src/goal_runtime/local_verification/                *)
(* targeted_rerun.rs over the registry snapshot that                       *)
(* src/rust/ovca-storage/src/local_verification/targeted_rerun.rs reads.   *)
(*                                                                         *)
(* The snapshot is the function `capability` of the bank: its digest       *)
(* covers identity, revision, content and generation of every current row, *)
(* so two snapshots have one digest just when they are the same function.  *)
(* A path is the sequence of its segments.                                 *)
(***************************************************************************)
EXTENDS EvidenceBank, Sequences

CONSTANTS
    Manifests       \* what a caller says has changed: sets of entries

Entry(kind, path, previous) == [kind |-> kind, path |-> path, previous |-> previous]

\* logical_paths: a rename touches both its ends.
PathsOf(entry) == {entry.path} \cup ({entry.previous} \ {None})
LogicalPaths(manifest) == UNION {PathsOf(entry) : entry \in manifest}

\* ChangedPathManifest::validate
ManifestFits(manifest) ==
    /\ \A e \in manifest :
        /\ e.kind = "Renamed" <=> e.previous # None
        /\ e.previous # e.path
    /\ \A e, f \in manifest : e # f => PathsOf(e) \cap PathsOf(f) = {}

ASSUME ManifestAssumption == \A manifest \in Manifests : ManifestFits(manifest)

\* A registry has finitely many rows, so that its loops and its search end.
ASSUME RegistryAssumption == IsFiniteSet(CapabilityIds)

-----------------------------------------------------------------------------
(***************************************************************************)
(* Paths and the capabilities that care for them.                          *)
(***************************************************************************)

\* selector_matches: a prefix ends where a segment ends.
Matches(selector, path) ==
    \/ selector.path = path
    \/ /\ selector.kind = "Prefix"
       /\ Len(selector.path) < Len(path)
       /\ SubSeq(path, 1, Len(selector.path)) = selector.path

Recognizes(row, path) == \E s \in row.definition.selectors : Matches(s, path)

DirectMatches(registry, paths) ==
    {c \in Chosen(registry) : \E p \in paths : Recognizes(registry[c], p)}

UnknownPaths(registry, paths) ==
    {p \in paths : \A c \in Chosen(registry) : ~Recognizes(registry[c], p)}

-----------------------------------------------------------------------------
(***************************************************************************)
(* The graph of dependencies.                                              *)
(***************************************************************************)
DependenciesOf(registry, c) == registry[c].definition.dependencies

\* validate_dependency_graph, visit_dependency: what the depth first search
\* leaves without meeting itself.
Settled(registry) ==
    LET settled[n \in 0..Cardinality(Chosen(registry))] ==
            IF n = 0 THEN {}
            ELSE LET before == settled[n - 1]
                 IN {c \in Chosen(registry) : DependenciesOf(registry, c) \subseteq before}
    IN settled[Cardinality(Chosen(registry))]

HasCycle(registry) == Settled(registry) # Chosen(registry)

\* selection_closure, first loop: what depends on something that is hit.
Impacted(registry, direct) ==
    LET impacted[n \in 0..Cardinality(Chosen(registry))] ==
            IF n = 0 THEN direct
            ELSE LET before == impacted[n - 1]
                 IN before \cup {c \in Chosen(registry) :
                                    DependenciesOf(registry, c) \cap before # {}}
    IN impacted[Cardinality(Chosen(registry))]

\* selection_closure, second loop: what all of that depends on.
Needed(registry, wanted) ==
    LET needed[n \in 0..Cardinality(Chosen(registry))] ==
            IF n = 0 THEN wanted
            ELSE LET before == needed[n - 1]
                 IN before \cup UNION {DependenciesOf(registry, c) : c \in before}
    IN needed[Cardinality(Chosen(registry))]

\* Fault: only the direct matches and what they depend on.
SelectionClosureOfDirect(registry, direct) == Needed(registry, direct)

SelectionClosure(registry, direct) == Needed(registry, Impacted(registry, direct))

-----------------------------------------------------------------------------
(***************************************************************************)
(* select_targeted_rerun.  A request has a manifest and says what becomes  *)
(* of a path that no capability recognizes.                                *)
(***************************************************************************)
RerunRequests == [manifest : Manifests, unknown : {"FullSafe", "Blocked"}]

Outcome(code, ids, registry) ==
    [code |-> code, capabilities |-> {registry[c].definition : c \in ids}]

SelectTargetedRerun(registry, request) ==
    LET paths == LogicalPaths(request.manifest)
        direct == DirectMatches(registry, paths)
        Refused(code) == Outcome(code, {}, registry)
    IN CASE ~DependenciesChosen(registry) -> Refused("MissingDependency")
         [] DependenciesChosen(registry) /\ HasCycle(registry) -> Refused("DependencyCycle")
         [] OTHER ->
            IF paths = {} THEN Refused("ZeroChangedPaths")
            ELSE IF Chosen(registry) = {}
            THEN Refused(IF request.unknown = "FullSafe" THEN "EmptyRegistry"
                         ELSE "UnknownPath")
            ELSE IF UnknownPaths(registry, paths) = {}
            THEN Outcome("Targeted", SelectionClosure(registry, direct), registry)
            ELSE IF request.unknown = "FullSafe"
            THEN Outcome("FullSafe", Chosen(registry), registry)
            ELSE Refused("UnknownPath")

Selected(outcome) == outcome.code \in {"Targeted", "FullSafe"}

-----------------------------------------------------------------------------
(***************************************************************************)
(* What the selection is for, said without the loops.                      *)
(***************************************************************************)

\* A way along the dependencies, for a graph without cycles.
Ways(registry) ==
    {way \in UNION {[1..n -> Chosen(registry)] : n \in 1..Cardinality(Chosen(registry))} :
        \A i \in 1..(Len(way) - 1) : way[i + 1] \in DependenciesOf(registry, way[i])}

\* c comes to d by its dependencies.
Relies(registry, c, d) ==
    \E way \in Ways(registry) : way[1] = c /\ way[Len(way)] = d

Circular(registry) ==
    \E way \in Ways(registry) : way[1] \in DependenciesOf(registry, way[Len(way)])

\* c can be affected by a change of the paths.
Affected(registry, paths) ==
    {c \in Chosen(registry) :
        \E d \in DirectMatches(registry, paths) : Relies(registry, c, d)}

\* Every registry that the definitions allow, whatever its generations.
Registries ==
    [CapabilityIds -> [definition : Definitions, generation : {1}] \cup {None}]

\* The loops and the search do what is said here, for every registry.
EverySelectionIsExact ==
    \A registry \in Registries :
        (\A c \in Chosen(registry) : registry[c].definition.id = c) =>
        \A request \in RerunRequests :
            LET outcome == SelectTargetedRerun(registry, request)
                paths == LogicalPaths(request.manifest)
                known == UnknownPaths(registry, paths) = {}
                affected == Affected(registry, paths)
            IN /\ Selected(outcome) <=>
                    /\ DependenciesChosen(registry) /\ ~Circular(registry)
                    /\ paths # {} /\ Chosen(registry) # {}
                    /\ known \/ request.unknown = "FullSafe"
               /\ Selected(outcome) =>
                    outcome.capabilities =
                        {registry[e].definition : e \in
                            {d \in Chosen(registry) :
                                ~known \/ \E c \in affected : Relies(registry, c, d)}}
=============================================================================
