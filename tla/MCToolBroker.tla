------------------------------ MODULE MCToolBroker ------------------------------
(***************************************************************************)
(* Instance for TLC: an engineer and a reviewer invoked for one task, one  *)
(* lease, two grants, two keys; and the invocations, answers, authorities  *)
(* and verifications over which the contracts are checked.                 *)
(***************************************************************************)
EXTENDS ToolBroker, RoleContracts, VerifierReplay

CONSTANTS c, d, odd   \* contents, and what is no ordinary file

AScope == [goal |-> "g", task |-> "t", run |-> "r"]
Coordinator == [id |-> "c", role |-> "coordinator"]
Engineer == [id |-> "e", role |-> "engineer"]
Reviewer == [id |-> "v", role |-> "reviewer"]

Authority(id, principal, resources, writes, from, until) ==
    [id |-> id, namespace |-> "code_review", principal |-> principal,
     scope |-> AScope, visibility |-> "role_scoped",
     profile |-> [resource_keys |-> resources, write_keys |-> writes],
     validity |-> [status |-> "active", from |-> from, until |-> until]]

Invoked(id, key, target, budget) ==
    [id |-> id, key |-> key, invoker |-> Coordinator, target |-> target,
     scope |-> AScope, task |-> "t", run |-> "r", budget |-> budget,
     invoked_at |-> 0, authority |-> Authority("a", Coordinator, <<>>, <<>>, 0, None)]

ByEngineer == Invoked("i1", "k1", Engineer, 2)
ByReviewer == Invoked("i2", "k2", Reviewer, 1)

-----------------------------------------------------------------------------
(* The broker.  Path 1 is granted, 2 is 1 in other letters, 3 is refused   *)
(* for its spelling, 4 holds what was seeded.                              *)

MCPaths == 1..4
MCFlaw == [p \in MCPaths |-> IF p = 3 THEN "path_forbidden" ELSE None]
MCFold == [p \in MCPaths |-> IF p = 2 THEN 1 ELSE p]
MCContents == {c, d}
MCLength == [x \in MCContents |-> IF x = c THEN 1 ELSE 2]

MCLeaseIds == {"l"}
MCExecutions == {[invocation |-> ByEngineer, attempt |-> 1],
                 [invocation |-> ByReviewer, attempt |-> 1]}
MCSeeds == {<<[path |-> 4, content |-> c]>>}
MCWindows == {[issued_at |-> 1, expires_at |-> 3]}

Form(grantee, reads, writes, max_write, until) ==
    [grantee |-> grantee, read_paths |-> reads, write_paths |-> writes,
     max_read |-> 2, max_write |-> max_write, from |-> 1, until |-> until,
     authority |-> Authority("b", Coordinator, ExpectedReadKeys(reads),
                             ExpectedWriteKeys(writes), 1, 3)]

MCForms == {Form(Engineer, <<4>>, <<1>>, 2, 3), Form(Reviewer, <<4>>, <<>>, 1, 2)}

Read4 == [type |-> "read", path |-> 4]
WriteTo(p, x) == [type |-> "write", path |-> p, content |-> x]
MCOperated == {Read4, WriteTo(1, c), WriteTo(1, d), WriteTo(2, c), WriteTo(3, c),
               [type |-> "unsupported"]}

MCMeddling == {<<1, d>>, <<4, d>>, <<4, odd>>}

-----------------------------------------------------------------------------
(* The contracts.                                                          *)

\* The invocation, and others that take its key or its name.
MCRequests ==
    [invocation : {ByEngineer, [ByEngineer EXCEPT !.key = "k3"],
                   [ByEngineer EXCEPT !.id = "i3"]},
     attempt : 1..3]

Result(i, state, attempt, code) ==
    [ResultOf(i, "one", state, attempt, 1) EXCEPT
       !.payload = IF state = "failed" THEN [type |-> "failure", code |-> code] ELSE @]

MCAnswered ==
    {[type |-> "retry", completed |-> n, next |-> m, usage |-> None] :
        n \in 1..2, m \in 2..3}
      \union {[type |-> x[1], result |-> Result(x[2], x[3], x[4], x[5]), usage |-> None] :
        x \in {<<"completed", ByEngineer, "completed", 1, "backend">>,
               <<"completed", ByEngineer, "completed", 2, "backend">>,
               <<"failed", ByEngineer, "failed", 1, "backend">>,
               <<"failed", ByEngineer, "failed", 1, "execution_timeout">>,
               <<"timed_out", ByEngineer, "failed", 2, "execution_timeout">>,
               <<"cancelled", ByEngineer, "cancelled", 2, "backend">>,
               <<"completed", [ByEngineer EXCEPT !.id = "i3"], "completed", 1, "backend">>}}

-----------------------------------------------------------------------------
(* The verification.  The engineer wrote path 1.                           *)

MCFrozen ==
    [run |-> "r", attempt |-> 1, engineer |-> "e", scope |-> AScope,
     initial |-> Snapshot("l", 0, 4 :> c), current |-> Snapshot("l", 1, 4 :> c @@ 1 :> d)]

Command(executable, names) == [executable |-> executable, names |-> names]
Capability(id, revision, commands, names) ==
    [id |-> id, revision |-> revision, commands |-> commands,
     policy |-> [executables |-> {"cc", "lint"}, names |-> names]]

builds == Capability(1, 1, <<Command("cc", {"HOME"})>>, {"HOME"})
relaxed == Capability(1, 1, <<Command("cc", {"HOME"})>>, {"HOME", "PATH"})
renewed == Capability(1, 2, <<Command("cc", {})>>, {"HOME"})
lints == Capability(2, 1, <<Command("lint", {})>>, {})

Registered(definitions, generation) ==
    [id \in {x.id : x \in definitions} |->
        [definition |-> CHOOSE x \in definitions : x.id = id, generation |-> generation]]
MCRegistries ==
    {Registered({builds, lints}, 1), Registered({builds, lints}, 2),
     Registered({renewed, lints}, 2), Registered({builds}, 1), Registered({lints}, 1)}

SelectedFrom(capabilities, registry) ==
    [run |-> "r", source |-> 4 :> c @@ 1 :> d, policy |-> PolicySet(capabilities),
     registry |-> registry,
     capabilities |-> [n \in DOMAIN capabilities |->
        [id |-> capabilities[n].id, revision |-> capabilities[n].revision,
         record |-> capabilities[n]]]]

Named(count, suffix) == [key \in FailureKeys(count) |-> <<key, suffix>>]

Profile(id, path, approved, names) ==
    [id |-> id, path |-> path, sha |-> id, enabled |-> TRUE, approved |-> approved,
     offline |-> TRUE, names |-> names]

Asks(capabilities, registry) ==
    [behavior |-> "b1", capabilities |-> capabilities,
     selection |-> SelectedFrom(capabilities, registry),
     manifest |-> 4 :> c @@ 1 :> d, failures |-> Named(Len(capabilities), 1),
     executables |-> [id \in {"cc", "lint"} |-> Profile(id, "/bin", TRUE, {"HOME"})],
     environment |-> [n \in {"HOME", "PATH"} |-> "1"], digest |-> "HOME" :> "1",
     limits |-> [timeout |-> 1, stdout |-> 1, stderr |-> 1],
     implementer |-> "e", verifier |-> "v", at |-> 1]

Bases ==
    {Asks(<<builds>>, Registered({builds, lints}, 1)),
     Asks(<<builds, lints>>, Registered({builds, lints}, 1)),
     [Asks(<<renewed>>, Registered({renewed, lints}, 2)) EXCEPT !.digest = <<>>]}

\* One thing or two are another.
Others ==
    {[behavior |-> "b2"], [capabilities |-> <<relaxed>>], [capabilities |-> <<lints, builds>>],
     [selection |-> SelectedFrom(<<builds>>, Registered({builds, lints}, 2))],
     [selection |-> SelectedFrom(<<renewed>>, Registered({builds, lints}, 1))],
     [manifest |-> 4 :> c], [failures |-> Named(1, 2)],
     [failures |-> [Named(1, 1) EXCEPT ![<<"source_drift", None>>] = <<<<"policy", 0>>, 1>>]],
     [executables |-> [id \in {"cc", "lint"} |-> Profile(id, "/usr", TRUE, {"HOME"})]],
     [executables |-> [id \in {"cc", "lint"} |-> Profile(id, "/bin", TRUE, {})]],
     [executables |-> [id \in {"cc"} |-> Profile(id, "/bin", TRUE, {"HOME"})]],
     [executables |-> [id \in {"cc", "lint"} |-> Profile(id, "/bin", id = "cc", {"HOME"})]],
     [environment |-> [n \in {"HOME", "PATH"} |-> IF n = "HOME" THEN "1" ELSE "2"]],
     [environment |-> [n \in {"HOME", "PATH"} |-> "2"]], [digest |-> "HOME" :> "2"],
     [limits |-> [timeout |-> 2, stdout |-> 1, stderr |-> 1]],
     [limits |-> [timeout |-> 1, stdout |-> 1, stderr |-> 0]],
     [implementer |-> "v"], [verifier |-> "w"], [verifier |-> "e"], [at |-> 2]}

MCSupplies ==
    UNION {{x} \union {o @@ x : o \in Others} : x \in Bases}
      \union {p @@ o @@ (CHOOSE x \in Bases : x.capabilities = <<builds>>) :
                 o \in Others, p \in Others}

-----------------------------------------------------------------------------
\* TLC evaluates what depends on no variable before it has any state.
JournalsTellOneStory == receipts # <<>> => EveryJournalIsOneStory
AnswersFitTheJournal == receipts # <<>> => EveryAnswerFits
ReplayExact == receipts # <<>> => ReplayIsExact
AuthoritiesAreOwned == receipts # <<>> => ChangesAreOwned
=============================================================================
