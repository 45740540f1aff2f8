--------------------------- MODULE ApprovalContract ---------------------------
(***************************************************************************)
(* What the approval ledger promises of each approval: it is requested,    *)
(* then decided once, an approval is spent once, and its effect runs at    *)
(* most once and only after it was spent.                                  *)
(***************************************************************************)
EXTENDS Naturals

CONSTANT ApprovalIds

VARIABLES
    status,     \* approval -> where it is in its life
    done        \* approval -> how often its effect was invoked

TypeOK ==
    /\ status \in [ApprovalIds ->
                     {"absent", "pending", "approved", "denied", "consumed"}]
    /\ done \in [ApprovalIds -> 0..1]

Init ==
    /\ status = [id \in ApprovalIds |-> "absent"]
    /\ done = [id \in ApprovalIds |-> 0]

Becomes(id, from, to) ==
    /\ status[id] = from
    /\ status' = [status EXCEPT ![id] = to]
    /\ UNCHANGED done

RequestApproval(id) == Becomes(id, "absent", "pending")

Decide(id) == \E verdict \in {"approved", "denied"} :
                 Becomes(id, "pending", verdict)

Spend(id) == Becomes(id, "approved", "consumed")

Perform(id) ==
    /\ status[id] = "consumed"
    /\ done[id] = 0
    /\ done' = [done EXCEPT ![id] = 1]
    /\ UNCHANGED status

Next == \E id \in ApprovalIds :
    RequestApproval(id) \/ Decide(id) \/ Spend(id) \/ Perform(id)

Spec == Init /\ [][Next]_<<status, done>>
=============================================================================
