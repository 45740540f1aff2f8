--------------------------- MODULE MCApprovalLedger ---------------------------
(* Three callers, one approval and five requests: a network action and     *)
(* another of the same guard request id, a repository write that declares  *)
(* a tier below its own, a local write, and a read.                        *)
EXTENDS ApprovalLedger, TLC

CONSTANTS c1, c2, c3, p1, g1, g2, x

Operation(id, label, effect, tier) ==
    [guardId |-> id, label |-> label, sideEffect |-> effect,
     resources |-> {x}, writes |-> IF effect = "read_only" THEN {} ELSE {x},
     tier |-> tier, permittedResources |-> {x}, permittedWrites |-> {x},
     approval |-> tier = 2, review |-> tier >= 1, audit |-> tier = 2,
     defects |-> {}]

MCRequests ==
    {Operation(g1, "send", "network_action", 2),
     Operation(g1, "send more", "network_action", 2),
     Operation(g2, "push", "repository_write", 1),
     Operation(g2, "edit", "reversible_local_write", 1),
     Operation(g2, "read", "read_only", 0)}

MCLabels == {"send", "send more", "push", "edit", "read"}
MCInstants == {0, 1}

Symmetry == Permutations(Callers)
=============================================================================
