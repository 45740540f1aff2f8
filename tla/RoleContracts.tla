----------------------------- MODULE RoleContracts -----------------------------
(***************************************************************************)
(* What the control plane promises, against a declaration of its own: the  *)
(* journal of an invocation tells one of the stories an invocation can     *)
(* have, an executor's answer continues it, and an authority becomes no    *)
(* more than its age and its owner allow.                                  *)
(***************************************************************************)
EXTENDS RoleExecution, SequencesExt

CONSTANTS
    Invocation,    \* an invocation that is sound
    Requests,      \* requests executors may be asked, not all of them sound
    Answered,      \* what executors may answer
    MaxScripts     \* bound: how many answers an executor is set up with

-----------------------------------------------------------------------------
(* The stories.                                                            *)

\* Up to the start of attempt k + 1: it was submitted, and k attempts were
\* started and sent back.
Rounds(k) ==
    <<"submitted">>
      \o [n \in 1..(2 * k) |-> IF n % 2 = 1 THEN "started" ELSE "retry"]

\* All that an invocation can come to, the budget being what it is.
Stories ==
    UNION {{Append(Rounds(k), "cancelled")}
             \union {Rounds(k) \o <<"started", end>> : end \in Ended} :
           k \in 0..(Invocation.budget - 1)}

StateAfter(kind) ==
    CASE kind \in {"submitted", "retry"} -> "pending"
      [] kind = "started" -> "running"
      [] OTHER -> kind

PayloadOf(state) ==
    CASE state = "completed" -> [type |-> "specialist"]
      [] state = "failed" -> [type |-> "failure", code |-> "backend"]
      [] state = "cancelled" -> [type |-> "cancellation"]

ResultOf(i, writer, state, attempt, at) ==
    [id |-> <<writer, attempt>>, invocation |-> i, producer |-> i.target,
     task |-> i.task, run |-> i.run, scope |-> i.scope, key |-> i.key,
     attempt |-> attempt, state |-> state, payload |-> PayloadOf(state),
     evidence |-> <<1>>, at |-> at]

\* The journal one writer keeps of a story; the writer before him wrote the
\* first `shared` events of it.
Journal(writer, shared, story) ==
    LET by(n) == IF n <= shared THEN "first" ELSE writer
        attempt(n) == 1 + Cardinality({m \in 1..(n - 1) : story[m] = "retry"})
        at(n) == Invocation.invoked_at + n
        event(n) ==
          [id |-> <<by(n), n>>, kind |-> story[n], attempt |-> attempt(n),
           next |-> attempt(n) + 1, scope |-> Invocation.scope,
           invocation |-> Invocation, sequence |-> n - 1, at |-> at(n),
           previous |-> IF n = 1 THEN None ELSE <<by(n - 1), n - 1>>,
           producer |-> IF story[n] = "submitted" THEN Invocation.invoker
                        ELSE Invocation.target,
           result |-> IF story[n] \in Ended
                      THEN ResultOf(Invocation, by(n), story[n], attempt(n), at(n))
                      ELSE None]
    IN  [n \in DOMAIN story |-> event(n)]

\* The results that belong to a journal.
ResultsOf(log) ==
    IF log # <<>> /\ Last(log).kind \in Ended THEN <<Last(log).result>> ELSE <<>>

\* Two writers that went on with the same events.
Pairs ==
    {<<Journal("one", n, s), Journal("two", n, t)>> :
        <<s, t, n>> \in {x \in Stories \X Stories \X (0..Len(Rounds(Invocation.budget))) :
                           /\ x[3] < Len(x[1]) /\ x[3] < Len(x[2])
                           /\ SubSeq(x[1], 1, x[3]) = SubSeq(x[2], 1, x[3])}}

\* What the events of two journals, in any order, are replayed to, and what they
\* should be: the state of a journal they are the beginning of.
TellOneStory(pair) ==
    LET journals == {pair[1], pair[2]}
        pool == ToSet(pair[1]) \union ToSet(pair[2])
        ended == {e \in pool : e.kind \in Ended}
        results == {<<>>} \union {<<e.result>> : e \in ended}
                     \union {<<e.result, f.result>> : e \in ended, f \in ended}
        told(log, res) ==
          IF \E j \in journals : IsPrefix(log, j) /\ res = ResultsOf(log)
          THEN StateAfter(Last(log).kind) ELSE None
        logs[n \in 0..(Len(pair[1]) + 1)] ==
          IF n = 0 THEN {<<>>}
          ELSE LET shorter == logs[n - 1]
               IN  {log \in {Append(l, e) : l \in shorter, e \in pool} :
                      \E res \in results : ReplayOf(Invocation, log, res) # None}
    IN  \A n \in DOMAIN logs : \A l \in logs[n], e \in pool, res \in results :
          LET log == Append(l, e) IN ReplayOf(Invocation, log, res) = told(log, res)

\* Whatever of what two writers recorded comes back, in whatever order, with
\* whichever results: it is replayed if and only if it is the beginning of one
\* of the two stories with its one result, and to the state of that story.  The
\* numbers alone do not tell the writers apart, the links do.
EveryJournalIsOneStory == \A pair \in Pairs : TellOneStory(pair)

-----------------------------------------------------------------------------
(* The executor.                                                           *)

Scripts == [request : Requests, outcome : Answered]

\* The journal of the invocation at the start of the attempt.
Started(attempt) == Rounds(attempt - 1) \o <<"started">>

\* The journal goes on with the answer.
Continues(request, outcome) ==
    LET kind == IF outcome.type = "retry" THEN "retry" ELSE StateOf(outcome.type)
        log == Journal("one", 0, Append(Started(request.attempt), kind))
        n == Len(log)
        last == IF kind = "retry" THEN [log[n] EXCEPT !.next = outcome.next]
                ELSE [log[n] EXCEPT !.result = outcome.result]
        told == [log EXCEPT ![n] = last]
    IN  ReplayOf(request.invocation, told, ResultsOf(told)) = StateAfter(kind)

\* The call as the controller's state keeps it.
Recorded(request, outcome) ==
    [state |-> "recorded", request |-> request, outcome |-> outcome,
     started_at |-> 0, recorded_at |-> 1]

\* Either the owner or the coordinator can use the result, and only one of them.
HandedOn(res) == (FinalResponse(res) = None) # (SpecialistOutput(res) = None)

\* What an executor that could be set up answers can be recorded, goes on with
\* the invocation's journal, within its budget, and is of use to just one of the
\* owner and the coordinator if the invocation completed; and neither an idempotency
\* key nor an invocation's identifier ever stands for two invocations.
EveryAnswerFits ==
    \A scripts \in UNION {[1..n -> Scripts] : n \in 1..MaxScripts} :
        LET table == TryNew(scripts) IN
        table # None =>
          /\ \A request \in Requests :
               LET outcome == Invoke(table, request) IN
               outcome # None =>
                 /\ CallRecordValid(Recorded(request, outcome), request)
                 /\ outcome.type = "completed" => HandedOn(outcome.result)
                 /\ request.invocation = Invocation => Continues(request, outcome)
          /\ \A one, two \in table :
               LET i == one.request.invocation
                   j == two.request.invocation
               IN  i.key = j.key \/ i.id = j.id => i = j

-----------------------------------------------------------------------------
(* Authorities.                                                            *)

\* The invocation's authority in every status and visibility.
Authorities ==
    {[Invocation.authority EXCEPT !.validity.status = status, !.visibility = v] :
        status \in Statuses, v \in {"private", "role_scoped", "shared"}}

\* What a caller may supply: the digest of an authority, or of none of them.
Digests == Authorities \union {None}

\* The owner's approval of a digest.
ApprovalOf(digest) ==
    [id |-> "approval", kind |-> "approval", status |-> "approved",
     namespace |-> Invocation.authority.namespace, scope |-> Invocation.authority.scope,
     actor |-> [id |-> "o", role |-> "owner"],
     subject |-> Invocation.authority.principal,
     of |-> digest, evidence |-> <<1>>, supersedes |-> None]

\* Decisions that approve of nothing here: not decided, decided otherwise,
\* replaced, by someone else, or about something else.
Worthless(digest) ==
    {change @@ ApprovalOf(digest) :
       change \in {[status |-> "pending"], [status |-> "rejected"],
                   [status |-> "superseded", supersedes |-> "earlier"],
                   [kind |-> "review", status |-> "passed",
                    actor |-> [id |-> "v", role |-> "reviewer"]],
                   [actor |-> [id |-> "v", role |-> "reviewer"]],
                   [namespace |-> "knowledge_review"], [subject |-> Invocation.target],
                   [scope |-> [Invocation.authority.scope EXCEPT !.run = None]]}}

\* What one change makes of an authority.  Whoever asks to show more of it has
\* a decision or none, and supplies the digest of what is there, or a kept one.
Changes(kept, decision) ==
    [a \in Authorities |->
       {b \in Authorities :
          \/ /\ a.visibility = b.visibility
             /\ <<a.validity.status, b.validity.status>> \in ValidityMoves
          \/ /\ a.validity.status = b.validity.status
             /\ \E digest \in kept \union {a}, approval \in {decision, None} :
                   MayShow(a, b.visibility, digest, approval)}]

\* What any number of changes make of it.
Becomes(a, changes) ==
    LET within[found \in SUBSET Authorities] ==
          LET more == found \union UNION {changes[b] : b \in found}
          IN  IF more = found THEN found ELSE within[more]
    IN  within[{a}]

\* The declaration: an authority ages and never grows younger, ...
Age(status) ==
    CASE status = "pending" -> 0
      [] status = "active" -> 1
      [] status = "stale" -> 2
      [] status \in {"rejected", "revoked", "superseded"} -> 3

Ages(a, b) ==
    LET from == a.validity.status
        to == b.validity.status
    IN  from = to \/ (Age(from) < Age(to) /\ (to = "rejected" => from = "pending"))

\* ... nobody has to be asked to show less of it, ...
Unasked(a, b) == Ages(a, b) /\ Rank(b.visibility) <= Rank(a.visibility)

\* ... and more of it is shown where it is what the owner approved of, on the
\* way from a to b, or a kept digest says so.
Owned(a, b, kept, digest) ==
    Ages(a, b) /\ \/ digest \in kept
                  \/ digest \in Authorities /\ Unasked(a, digest) /\ Ages(digest, b)

\* Over every sequence of changes an authority becomes exactly what is declared.
\* Nothing makes a lost one active again.  An approval of it while it was active
\* shows no more of it once it is stale, revoked or superseded if callers supply
\* the digest of what is there; a kept digest and its approval show all of it,
\* in any status.  Other decisions show nothing, whatever digest comes with them.
ChangesAreOwned ==
    /\ \A kept \in {{}} \union {{d} : d \in Digests}, digest \in Digests :
          LET changes == Changes(kept, ApprovalOf(digest))
          IN  \A a \in Authorities :
                 Becomes(a, changes) =
                   {b \in Authorities : Unasked(a, b) \/ Owned(a, b, kept, digest)}
    /\ \A digest \in Digests : \A decision \in Worthless(digest) :
          LET changes == Changes({digest}, decision)
          IN  \A a \in Authorities :
                 Becomes(a, changes) = {b \in Authorities : Unasked(a, b)}
=============================================================================
