------------------------ MODULE MCExecutionLifecycle ------------------------
(* Two engineers and one reviewer on tasks a and b that share a write key,  *)
(* and a review task c that depends on a.                                   *)
EXTENDS ExecutionLifecycle, TLC

CONSTANTS a, b, c, w1, w2, w3, k, l1, l2, MaxTime

MCDependencies == a :> {} @@ b :> {} @@ c :> {a}
MCWriteKeysOf == a :> {k} @@ b :> {k} @@ c :> {}
MCAssignedRole == a :> "engineer" @@ b :> "engineer" @@ c :> "reviewer"
MCRoleOf == w1 :> "engineer" @@ w2 :> "engineer" @@ w3 :> "reviewer"
MCInitialStatus == a :> "ready" @@ b :> "pending" @@ c :> "pending"
MCTime == 0..MaxTime

Symmetry == Permutations({l1, l2}) \union Permutations({w1, w2})
=============================================================================
