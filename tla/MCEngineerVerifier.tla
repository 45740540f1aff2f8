------------------------- MODULE MCEngineerVerifier -------------------------
(* One run with the plan a configuration chooses. *)
EXTENDS EngineerVerifier, TLC

CONSTANTS b1, b2, v1

ReadThenWrite == <<"read", "write">>
OneWrite == <<"write">>

\* The brokers are alike.
MCSymmetry == Permutations(Brokers)
=============================================================================
