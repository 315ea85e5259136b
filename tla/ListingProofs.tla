---------------------------- MODULE ListingProofs ----------------------------
(***************************************************************************)
(* Proofs about the two ways a list is put together from several reads:    *)
(* AllOrganizations, for any organizations, listings, failures and bound   *)
(* on the reads in flight; and Pagination, for any list, page size and     *)
(* service.  That they end (Ends, PagingEnds) is liveness and stays with   *)
(* TLC.                                                                    *)
(***************************************************************************)
EXTENDS AllOrganizations, Pagination, FiniteSetTheorems, FunctionTheorems, SequenceTheorems, TLAPS

-----------------------------------------------------------------------------
(* All organizations *)

AnyOutcome == UNION {Outcomes(o) : o \in Orgs}

\* What was taken is a prefix of the organizations' outcomes.
Taken ==
    /\ results \in Seq(AnyOutcome)
    /\ ResultsInOrder

\* A read is begun only within the window of those not taken yet.
Windowed == \A i \in Index : task[i] # "waiting" => i <= Len(results) + Concurrency

\* Of the failures taken so far one is the first.
HasFirst == FailedOnes # {} => \E k \in FailedOnes : \A l \in FailedOnes : k <= l

\* Nothing is read before the list is, and nothing is said before the end.
Begun ==
    /\ pc \in {"resolve", "list"} => organizations = <<>> /\ results = <<>>
    /\ pc # "ended" => report = Success /\ written = <<>>

Inv == TypeOK /\ Taken /\ Windowed /\ HasFirst /\ Begun /\ FailuresAreTold

-----------------------------------------------------------------------------

\* An outcome is a page, or one of the failures.
LEMMA OutcomeKinds ==
    ASSUME NEW o, NEW r \in Outcomes(o)
    PROVE  /\ r.ok \in BOOLEAN
           /\ ~r.ok => /\ r.failure \in Failures
                       /\ r.failure = [kind |-> r.failure.kind, message |-> r.failure.message]
<1>1. CASE \E rows \in {WalletsOf[o], <<>>} : r = Page(o, rows)
  BY <1>1 DEF Page
<1>2. CASE \E f \in Failures : r = Failed(o, f)
  BY <1>2, FailuresHaveKinds DEF Failed
<1> QED BY <1>1, <1>2 DEF Outcomes

\* The results are of the organizations, in order, and each has its kind.
LEMMA TakenOutcomes ==
    ASSUME TypeOK, Taken
    PROVE  /\ DOMAIN results = 1..Len(results) /\ Len(results) \in Nat
           /\ DOMAIN results \subseteq Index
           /\ Index = 1..Len(organizations) /\ Len(organizations) \in Nat
           /\ \A k \in DOMAIN results : results[k] = outcome[k] /\ results[k] \in Outcomes(organizations[k])
<1>1. DOMAIN results = 1..Len(results) /\ Len(results) \in Nat
  BY LenProperties DEF Taken
<1>2. Index = 1..Len(organizations) /\ Len(organizations) \in Nat
  BY LenProperties DEF TypeOK, Index
<1>3. DOMAIN results \subseteq Index
  BY <1>1, <1>2 DEF TypeOK
<1>4. \A k \in DOMAIN results : results[k] = outcome[k] /\ task[k] = "done"
  BY <1>1 DEF Taken, ResultsInOrder
<1> QED BY <1>1, <1>2, <1>3, <1>4 DEF TypeOK

\* Once all are taken, what failed is what did not succeed.
LEMMA AllSettled ==
    ASSUME TypeOK, Taken, Len(results) = Len(organizations)
    PROVE  /\ DOMAIN results = Index
           /\ \A i \in Index : /\ results[i] = outcome[i]
                               /\ results[i].ok \in BOOLEAN
                               /\ ~results[i].ok =>
                                    results[i].failure = [kind |-> results[i].failure.kind,
                                                          message |-> results[i].failure.message]
           /\ FailedOnes = Index \ Succeeded
           /\ Succeeded = Index \ FailedOnes
<1>1. DOMAIN results = Index
  BY TakenOutcomes
<1>2. \A i \in Index : results[i] = outcome[i] /\ results[i] \in Outcomes(organizations[i])
  BY <1>1, TakenOutcomes
<1>3. \A i \in Index : /\ results[i].ok \in BOOLEAN
                       /\ ~results[i].ok =>
                            results[i].failure = [kind |-> results[i].failure.kind,
                                                  message |-> results[i].failure.message]
  BY <1>2, OutcomeKinds
<1>4. FailedOnes = Index \ Succeeded /\ Succeeded = Index \ FailedOnes
  BY <1>1, <1>2, <1>3 DEF FailedOnes, Succeeded
<1> QED BY <1>1, <1>2, <1>3, <1>4

-----------------------------------------------------------------------------

LEMMA Initially == Init => Inv
<1> SUFFICES ASSUME Init PROVE Inv
  OBVIOUS
<1>1. TypeOK
  <2>1. organizations = <<>> /\ task = <<>> /\ outcome = <<>> /\ results = <<>> /\ revoked = FALSE /\ pc = "resolve"
    BY DEF Init
  <2>2. DOMAIN organizations = {} /\ DOMAIN task = {} /\ DOMAIN outcome = {}
    BY <2>1
  <2>3. organizations \in Seq(Orgs) /\ Len(results) <= Len(organizations)
    BY <2>1
  <2> QED BY <2>1, <2>2, <2>3 DEF TypeOK, Index
<1>2. Taken /\ Windowed /\ HasFirst
  BY DEF Init, Taken, ResultsInOrder, Windowed, HasFirst, FailedOnes, Index
<1>3. Begun
  BY DEF Init, Begun
<1>4. FailuresAreTold
  <2>1. pc # "ended" /\ written = <<>>
    BY DEF Init
  <2> QED BY <2>1 DEF FailuresAreTold, NoSilentGap, WrittenUnlessAllFailed, FirstFailureDecides, SharedFailureIsSaid
<1> QED BY <1>1, <1>2, <1>3, <1>4 DEF Inv

\* Before the end there is nothing said.
LEMMA Unsaid ==
    ASSUME pc # "ended", written = <<>>
    PROVE  FailuresAreTold
BY DEF FailuresAreTold, NoSilentGap, WrittenUnlessAllFailed, FirstFailureDecides, SharedFailureIsSaid

\* What the reads are at is of no account to a step that leaves them alone.
LEMMA KeepsReads ==
    ASSUME Inv, UNCHANGED <<organizations, task, outcome, results>>,
           pc' \in {"resolve", "list", "read", "ended"}, revoked' \in BOOLEAN
    PROVE  TypeOK' /\ Taken' /\ Windowed' /\ HasFirst'
<1>1. TypeOK'
  BY DEF Inv, TypeOK, Index
<1>2. Taken' /\ Windowed'
  BY DEF Inv, Taken, ResultsInOrder, Windowed, Index
<1>3. HasFirst'
  BY DEF Inv, HasFirst, FailedOnes
<1> QED BY <1>1, <1>2, <1>3

\* An end with an error that is not about organizations, before anything was written.
LEMMA EndsWithFailure ==
    ASSUME Inv, NEW f, Fails(f), f.message \notin {"success", "partial"},
           f = [kind |-> f.kind, message |-> f.message],
           pc # "ended", UNCHANGED <<organizations, outcome, results, written>>,
           \/ f.kind = "interrupted"
           \/ Index = {}
           \/ Len(results) # Len(organizations)
           \/ Succeeded # {}
           \/ \A i \in Index : f = outcome[i].failure
    PROVE  Begun' /\ FailuresAreTold'
<1>1. pc' = "ended" /\ report' = [kind |-> f.kind, message |-> f.message, organizations |-> {}]
  BY DEF Fails, End
<1>2. report'.message = f.message /\ report'.kind = f.kind
  BY <1>1
<1>3. written' = <<>>
  BY DEF Inv, Begun
<1>4. Index' = Index /\ Succeeded' = Succeeded
  BY DEF Index, Succeeded
<1>5. report' # Success
  BY <1>2 DEF Success
<1>6. NoSilentGap' /\ WrittenUnlessAllFailed' /\ FirstFailureDecides'
  BY <1>2, <1>3, <1>5 DEF NoSilentGap, WrittenUnlessAllFailed, FirstFailureDecides
<1>7. SharedFailureIsSaid'
  BY <1>2, <1>4 DEF SharedFailureIsSaid
<1>8. Begun'
  BY <1>1 DEF Begun
<1> QED BY <1>6, <1>7, <1>8 DEF FailuresAreTold

LEMMA ResolveKeeps == ASSUME Inv, Resolve PROVE Inv'
<1>1. pc = "resolve" /\ UNCHANGED <<organizations, task, outcome, results, written, revoked>>
  BY DEF Resolve
<1>2. pc' \in {"list", "ended"}
  BY DEF Resolve, Fails, End
<1>3. TypeOK' /\ Taken' /\ Windowed' /\ HasFirst'
  BY <1>1, <1>2, KeepsReads DEF Inv, TypeOK
<1>4. organizations = <<>> /\ results = <<>> /\ report = Success /\ written = <<>> /\ Index = {}
  BY <1>1 DEF Inv, Begun, Index
<1>5. CASE pc' = "list" /\ UNCHANGED report
  <2>1. Begun'
    BY <1>1, <1>4, <1>5 DEF Begun, Success
  <2>2. FailuresAreTold'
    BY <1>1, <1>4, <1>5 DEF FailuresAreTold, NoSilentGap, WrittenUnlessAllFailed, FirstFailureDecides, SharedFailureIsSaid
  <2> QED BY <1>3, <2>1, <2>2 DEF Inv
<1>6. CASE Fails([kind |-> "auth", message |-> "API key"])
  BY <1>1, <1>3, <1>4, <1>6, EndsWithFailure DEF Inv
<1>7. CASE \E f \in Failures : Fails(f)
  BY <1>1, <1>3, <1>4, <1>7, EndsWithFailure, FailuresHaveKinds DEF Inv
<1> QED BY <1>5, <1>6, <1>7 DEF Resolve

LEMMA ListKeeps == ASSUME Inv, List PROVE Inv'
<1>1. pc = "list" /\ UNCHANGED <<results, written, revoked>>
  BY DEF List
<1>2. organizations = <<>> /\ results = <<>> /\ report = Success /\ written = <<>> /\ Index = {}
  BY <1>1 DEF Inv, Begun, Index
<1>3. CASE \E entries \in Entries :
             /\ organizations' = WithId(entries)
             /\ task' = [i \in DOMAIN organizations' |-> "waiting"]
             /\ outcome' = [i \in DOMAIN organizations' |-> Unanswered]
             /\ pc' = "read" /\ UNCHANGED report
  <2>1. organizations' \in Seq(Orgs)
    BY <1>3, EntriesAreListings
  <2>2. /\ task' = [i \in Index' |-> "waiting"] /\ outcome' = [i \in Index' |-> Unanswered]
        /\ pc' = "read" /\ UNCHANGED report
    BY <1>3 DEF Index
  <2>3. Len(results') = 0 /\ DOMAIN results' = {} /\ Len(organizations') \in Nat
    BY <1>1, <1>2, <2>1, LenProperties
  <2>4. TypeOK'
    BY <1>1, <2>1, <2>2, <2>3 DEF Inv, TypeOK
  <2>5. Taken' /\ Windowed' /\ HasFirst'
    BY <1>1, <1>2, <2>2, <2>3 DEF Taken, ResultsInOrder, Windowed, HasFirst, FailedOnes
  <2>6. Begun'
    BY <1>1, <1>2, <2>2 DEF Begun, Success
  <2>7. FailuresAreTold'
    BY <1>1, <1>2, <2>2 DEF FailuresAreTold, NoSilentGap, WrittenUnlessAllFailed, FirstFailureDecides, SharedFailureIsSaid
  <2> QED BY <2>4, <2>5, <2>6, <2>7 DEF Inv
<1>4. CASE /\ \E f \in Failures : Fails(f)
           /\ UNCHANGED <<organizations, task, outcome>>
  <2>1. pc' = "ended"
    BY <1>4 DEF Fails, End
  <2>2. TypeOK' /\ Taken' /\ Windowed' /\ HasFirst'
    BY <1>1, <1>4, <2>1, KeepsReads DEF Inv, TypeOK
  <2> QED BY <1>1, <1>2, <1>4, <2>2, EndsWithFailure, FailuresHaveKinds DEF Inv
<1> QED BY <1>3, <1>4 DEF List

\* A read moves on: only its own state and outcome change, and nothing was said yet.
LEMMA ReadKeeps ==
    ASSUME Inv, pc = "read", UNCHANGED <<pc, organizations, results, written, report, revoked>>,
           NEW i \in Index, task[i] # "done",
           NEW state \in {"exchange", "read", "done"}, NEW o,
           DOMAIN task' = DOMAIN task, DOMAIN outcome' = DOMAIN outcome,
           \A j \in Index : /\ task'[j] = (IF j = i THEN state ELSE task[j])
                            /\ outcome'[j] = (IF j = i THEN o ELSE outcome[j]),
           IF state = "done" THEN o \in Outcomes(organizations[i]) ELSE o = Unanswered,
           task[i] = "waiting" => i <= Len(results) + Concurrency
    PROVE  Inv'
<1>1. DOMAIN task = Index /\ DOMAIN outcome = Index /\ Index' = Index
  BY DEF Inv, TypeOK, Index
<1>2. \A j \in Index : /\ task'[j] = (IF j = i THEN state ELSE task[j])
                       /\ outcome'[j] = (IF j = i THEN o ELSE outcome[j])
  OBVIOUS
<1>3. TypeOK'
  <2>1. \A j \in Index :
          /\ task'[j] \in {"waiting", "exchange", "read", "done"}
          /\ IF task'[j] = "done" THEN outcome'[j] \in Outcomes(organizations[j]) ELSE outcome'[j] = Unanswered
    BY <1>2 DEF Inv, TypeOK
  <2>2. DOMAIN task' = Index' /\ DOMAIN outcome' = Index'
    BY <1>1
  <2> QED BY <1>1, <2>1, <2>2 DEF Inv, TypeOK
<1>4. Taken'
  <2>1. \A k \in 1..Len(results) : k \in Index /\ task[k] = "done" /\ results[k] = outcome[k]
    BY TakenOutcomes DEF Inv, Taken, ResultsInOrder
  <2>2. \A k \in 1..Len(results) : task'[k] = "done" /\ results[k] = outcome'[k]
    BY <1>2, <2>1
  <2> QED BY <2>2 DEF Inv, Taken, ResultsInOrder
<1>5. Windowed'
  BY <1>1, <1>2 DEF Inv, Windowed
<1>6. HasFirst'
  BY DEF Inv, HasFirst, FailedOnes
<1>7. Begun' /\ pc' # "ended" /\ written' = <<>>
  BY DEF Inv, Begun, Success
<1>8. FailuresAreTold'
  BY <1>7 DEF FailuresAreTold, NoSilentGap, WrittenUnlessAllFailed, FirstFailureDecides, SharedFailureIsSaid
<1> QED BY <1>3, <1>4, <1>5, <1>6, <1>7, <1>8 DEF Inv

LEMMA StartKeeps == ASSUME Inv, NEW i \in Index, Start(i) PROVE Inv'
<1>1. /\ pc = "read" /\ task[i] = "waiting" /\ task' = [task EXCEPT ![i] = "exchange"]
      /\ UNCHANGED <<pc, organizations, outcome, results, written, report, revoked>>
      /\ i <= Len(results) + Concurrency
  BY DEF Start, HasRoom
<1>2. DOMAIN task = Index /\ outcome[i] = Unanswered
  BY <1>1 DEF Inv, TypeOK
<1> QED BY <1>1, <1>2, ReadKeeps

LEMMA ExchangeKeeps == ASSUME Inv, NEW i \in Index, Exchange(i) PROVE Inv'
<1>1. /\ pc = "read" /\ task[i] = "exchange"
      /\ UNCHANGED <<pc, organizations, results, written, report, revoked>>
  BY DEF Exchange
<1>2. CASE task' = [task EXCEPT ![i] = "read"] /\ UNCHANGED outcome
  <2>1. DOMAIN task = Index /\ outcome[i] = Unanswered
    BY <1>1 DEF Inv, TypeOK
  <2> QED BY <1>1, <1>2, <2>1, ReadKeeps
<1>3. CASE \E f \in Failures : Done(i, Failed(organizations[i], f))
  <2>1. PICK f \in Failures : Done(i, Failed(organizations[i], f))
    BY <1>3
  <2>2. Failed(organizations[i], f) \in Outcomes(organizations[i])
    BY DEF Outcomes
  <2>3. task' = [task EXCEPT ![i] = "done"] /\ outcome' = [outcome EXCEPT ![i] = Failed(organizations[i], f)]
    BY <2>1 DEF Done
  <2>4. DOMAIN task = Index /\ DOMAIN outcome = Index
    BY DEF Inv, TypeOK
  <2> QED BY <1>1, <2>2, <2>3, <2>4, ReadKeeps
<1> QED BY <1>2, <1>3 DEF Exchange

LEMMA AnswerKeeps == ASSUME Inv, NEW i \in Index, Read(i) PROVE Inv'
<1>1. /\ pc = "read" /\ task[i] = "read"
      /\ UNCHANGED <<pc, organizations, results, written, report, revoked>>
  BY DEF Read
<1>2. PICK o \in Outcomes(organizations[i]) : Done(i, o)
  BY DEF Read, Outcomes
<1>3. task' = [task EXCEPT ![i] = "done"] /\ outcome' = [outcome EXCEPT ![i] = o]
  BY <1>2 DEF Done
<1>4. DOMAIN task = Index /\ DOMAIN outcome = Index
  BY DEF Inv, TypeOK
<1> QED BY <1>1, <1>3, <1>4, ReadKeeps

LEMMA TakeKeeps == ASSUME Inv, NEW i \in Index, Take(i) PROVE Inv'
<1>1. /\ pc = "read" /\ task[i] = "done" /\ i = Len(results) + 1
      /\ results' = Append(results, outcome[i])
      /\ UNCHANGED <<pc, organizations, task, outcome, written, report, revoked>>
  BY DEF Take, Next_
<1>2. TypeOK /\ Taken /\ Windowed /\ HasFirst
  BY DEF Inv
<1>3. organizations[i] \in Orgs /\ outcome[i] \in AnyOutcome
  <2>1. organizations[i] \in Orgs
    BY <1>2, ElementOfSeq, TakenOutcomes DEF TypeOK
  <2>2. outcome[i] \in Outcomes(organizations[i])
    BY <1>1, <1>2 DEF TypeOK
  <2> QED BY <2>1, <2>2 DEF AnyOutcome
<1>4. /\ results' \in Seq(AnyOutcome) /\ Len(results') = i /\ i \in Nat
      /\ DOMAIN results' = 1..i /\ results'[i] = outcome[i]
      /\ DOMAIN results = 1..(i - 1)
      /\ \A k \in DOMAIN results : results'[k] = results[k]
  <2>1. results \in Seq(AnyOutcome) /\ DOMAIN results = 1..Len(results) /\ Len(results) \in Nat
    BY <1>2, TakenOutcomes DEF Taken
  <2> QED BY <1>1, <1>3, <2>1, AppendProperties
<1>5. TypeOK'
  <2>1. i <= Len(organizations)
    BY <1>2, TakenOutcomes
  <2>2. Index' = Index
    BY <1>1 DEF Index
  <2> QED BY <1>1, <1>2, <1>4, <2>1, <2>2 DEF TypeOK
<1>6. Taken'
  <2>1. \A k \in 1..i : task[k] = "done" /\ results'[k] = outcome[k]
    <3> SUFFICES ASSUME NEW k \in 1..i PROVE task[k] = "done" /\ results'[k] = outcome[k]
      OBVIOUS
    <3>1. CASE k = i
      BY <3>1, <1>1, <1>4
    <3>2. CASE k # i
      BY <3>2, <1>1, <1>2, <1>4, TakenOutcomes DEF Taken, ResultsInOrder
    <3> QED BY <3>1, <3>2
  <2> QED BY <1>1, <1>4, <2>1 DEF Taken, ResultsInOrder
<1>7. Windowed'
  <2>1. Index' = Index /\ Index \subseteq Nat
    BY <1>1, <1>2, TakenOutcomes DEF Index
  <2> QED BY <1>1, <1>2, <1>4, <2>1, ConcurrencyIsPositive DEF Windowed
<1>8. HasFirst'
  <2>1. FailedOnes \subseteq 1..(i - 1)
    BY <1>4 DEF FailedOnes
  <2>2. FailedOnes' = FailedOnes \/ FailedOnes' = FailedOnes \cup {i}
    BY <1>4 DEF FailedOnes
  <2>3. CASE FailedOnes = {}
    BY <1>4, <2>2, <2>3 DEF HasFirst
  <2>4. CASE FailedOnes # {}
    <3>1. PICK k \in FailedOnes : \A l \in FailedOnes : k <= l
      BY <1>2, <2>4 DEF HasFirst
    <3>2. k <= i
      BY <1>4, <2>1, <3>1
    <3> QED BY <2>2, <3>1, <3>2 DEF HasFirst
  <2> QED BY <2>3, <2>4
<1>9. Begun' /\ pc' # "ended" /\ written' = <<>>
  BY <1>1 DEF Inv, Begun, Success
<1>10. FailuresAreTold'
  BY <1>9 DEF FailuresAreTold, NoSilentGap, WrittenUnlessAllFailed, FirstFailureDecides, SharedFailureIsSaid
<1> QED BY <1>5, <1>6, <1>7, <1>8, <1>9, <1>10 DEF Inv

-----------------------------------------------------------------------------

\* `Partial` names what did not succeed, with the kind of the first failure.
LEMMA PartialSays ==
    ASSUME Inv, Len(results) = Len(organizations), FailedOnes # {}
    PROVE  /\ Partial.message = "partial"
           /\ Partial.organizations = {organizations[i] : i \in Index \ Succeeded}
           /\ \E i \in Index \ Succeeded :
                /\ \A j \in Index \ Succeeded : i <= j
                /\ Partial.kind = outcome[i].failure.kind
<1>1. TypeOK /\ Taken /\ HasFirst
  BY DEF Inv
<1> DEFINE k == CHOOSE first \in FailedOnes : \A l \in FailedOnes : first <= l
<1>3. k \in FailedOnes /\ \A l \in FailedOnes : k <= l
  BY <1>1 DEF HasFirst
<1>4. Partial = PartialAs(k)
  BY DEF Partial
<1>5. FailedOnes = Index \ Succeeded
  BY <1>1, AllSettled
<1>6. results[k] = outcome[k]
  BY <1>1, <1>3, <1>5, AllSettled
<1> QED BY <1>3, <1>4, <1>5, <1>6 DEF PartialAs

LEMMA EveryFailedKeeps == ASSUME Inv, EveryFailed PROVE Inv'
<1>1. /\ pc = "read" /\ Len(results) = Len(organizations) /\ FailedOnes # {} /\ FailedOnes = Index
      /\ UNCHANGED <<organizations, task, outcome, results, written, revoked>>
  BY DEF EveryFailed, AllRead, AllFailed
<1>2. TypeOK /\ Taken
  BY DEF Inv
<1>3. pc' = "ended"
  BY DEF EveryFailed, Fails, End
<1>4. TypeOK' /\ Taken' /\ Windowed' /\ HasFirst'
  BY <1>1, <1>3, KeepsReads DEF Inv, TypeOK
<1>5. Index # {} /\ Succeeded = {} /\ 1 \in Index
  <2>1. Index = 1..Len(organizations) /\ Len(organizations) \in Nat
    BY <1>2, TakenOutcomes
  <2> QED BY <1>1, <1>2, <2>1, AllSettled
<1>6. CASE SharedFailure /\ Fails(results[1].failure)
  <2> DEFINE f == results[1].failure
  <2>1. f = [kind |-> f.kind, message |-> f.message] /\ f.message \notin {"success", "partial"}
    <3>1. results[1] \in Outcomes(organizations[1]) /\ ~results[1].ok
      BY <1>1, <1>2, <1>5, TakenOutcomes, AllSettled DEF FailedOnes
    <3> QED BY <3>1, OutcomeKinds, FailuresHaveKinds
  <2>2. \A i \in Index : f = outcome[i].failure
    <3>1. \A i \in Index : /\ results[i] = outcome[i]
                           /\ results[i].failure = [kind |-> results[i].failure.kind,
                                                    message |-> results[i].failure.message]
      BY <1>1, <1>2, AllSettled DEF FailedOnes
    <3>2. \A i \in Index : results[i].failure.kind = f.kind /\ results[i].failure.message = f.message
      BY <1>1, <1>2, <1>6, AllSettled DEF SharedFailure
    <3> QED BY <2>1, <3>1, <3>2
  <2>3. Fails(f)
    BY <1>6
  <2>4. Begun' /\ FailuresAreTold'
    BY <1>1, <2>1, <2>2, <2>3, EndsWithFailure
  <2> QED BY <1>4, <2>4 DEF Inv
<1>7. CASE ~SharedFailure /\ End(Partial)
  <2>1. report' = Partial /\ written' = <<>>
    BY <1>1, <1>7 DEF End, Inv, Begun
  <2>2. Index' = Index /\ Succeeded' = Succeeded
    BY <1>1 DEF Index, Succeeded
  <2>3. /\ report'.message = "partial"
        /\ report'.organizations = {organizations[i] : i \in Index \ Succeeded}
        /\ \E i \in Index \ Succeeded :
             /\ \A j \in Index \ Succeeded : i <= j
             /\ report'.kind = outcome[i].failure.kind
    BY <1>1, <2>1, PartialSays
  <2>4. report' # Success
    BY <2>3 DEF Success
  <2>5. NoSilentGap'
    BY <1>1, <2>2, <2>3, <2>4 DEF NoSilentGap
  <2>6. WrittenUnlessAllFailed'
    BY <1>5, <2>1, <2>2 DEF WrittenUnlessAllFailed
  <2>7. FirstFailureDecides'
    BY <1>1, <2>2, <2>3 DEF FirstFailureDecides
  <2>8. \E i, j \in Index : outcome[i].failure # outcome[j].failure
    <3>1. PICK i \in DOMAIN results : ~(/\ results[i].failure.kind = results[1].failure.kind
                                        /\ results[i].failure.message = results[1].failure.message)
      BY <1>7 DEF SharedFailure
    <3>2. i \in Index /\ results[i] = outcome[i] /\ results[1] = outcome[1]
      BY <1>1, <1>2, <1>5, <3>1, AllSettled
    <3>3. outcome[i].failure # outcome[1].failure
      BY <3>1, <3>2
    <3> QED BY <1>5, <3>2, <3>3
  <2>9. SharedFailureIsSaid'
    BY <1>1, <2>2, <2>3, <2>8 DEF SharedFailureIsSaid
  <2>10. Begun'
    BY <1>3 DEF Begun
  <2> QED BY <1>4, <2>5, <2>6, <2>7, <2>9, <2>10 DEF Inv, FailuresAreTold
<1> QED BY <1>6, <1>7 DEF EveryFailed

LEMMA WriteKeeps == ASSUME Inv, Write PROVE Inv'
<1>1. /\ pc = "read" /\ Len(results) = Len(organizations) /\ (FailedOnes = {} \/ FailedOnes # Index)
      /\ UNCHANGED <<organizations, task, outcome, results, revoked>>
  BY DEF Write, AllRead, AllFailed
<1>2. TypeOK /\ Taken
  BY DEF Inv
<1>3. pc' = "ended"
  BY DEF Write, Fails, End
<1>4. TypeOK' /\ Taken' /\ Windowed' /\ HasFirst'
  BY <1>1, <1>3, KeepsReads DEF Inv, TypeOK
<1>5. Succeeded = Index \ FailedOnes /\ FailedOnes = Index \ Succeeded
  BY <1>1, <1>2, AllSettled
<1>6. Succeeded # {} \/ Index = {}
  BY <1>1, <1>5
<1>7. CASE written' = <<Merged>> /\ End(Outcome)
  <2>1. report' = Outcome /\ written' # <<>>
    BY <1>7 DEF End
  <2>2. Index' = Index /\ Succeeded' = Succeeded
    BY <1>1 DEF Index, Succeeded
  <2>3. Begun'
    BY <1>3 DEF Begun
  <2>4. CASE FailedOnes = {}
    <3>1. report' = Success /\ report'.message = "success"
      BY <2>1, <2>4 DEF Outcome, Success
    <3>2. NoSilentGap'
      BY <1>5, <2>1, <2>2, <2>4, <3>1 DEF NoSilentGap
    <3>3. WrittenUnlessAllFailed' /\ FirstFailureDecides'
      BY <1>6, <2>2, <3>1 DEF WrittenUnlessAllFailed, FirstFailureDecides
    <3>4. SharedFailureIsSaid'
      BY <1>6, <2>2 DEF SharedFailureIsSaid
    <3> QED BY <1>4, <2>3, <3>2, <3>3, <3>4 DEF Inv, FailuresAreTold
  <2>5. CASE FailedOnes # {}
    <3>1. report' = Partial
      BY <2>1, <2>5 DEF Outcome
    <3>2. /\ report'.message = "partial"
          /\ report'.organizations = {organizations[i] : i \in Index \ Succeeded}
          /\ \E i \in Index \ Succeeded :
               /\ \A j \in Index \ Succeeded : i <= j
               /\ report'.kind = outcome[i].failure.kind
      BY <1>1, <2>5, <3>1, PartialSays
    <3>3. report' # Success
      BY <3>2 DEF Success
    <3>4. NoSilentGap'
      BY <1>1, <2>2, <3>2, <3>3 DEF NoSilentGap
    <3>5. Succeeded # {}
      BY <1>5, <1>6, <2>5
    <3>6. WrittenUnlessAllFailed'
      BY <2>1, <2>2, <3>5 DEF WrittenUnlessAllFailed
    <3>7. FirstFailureDecides'
      BY <1>1, <2>2, <3>2 DEF FirstFailureDecides
    <3>8. SharedFailureIsSaid'
      BY <2>2, <3>5 DEF SharedFailureIsSaid
    <3> QED BY <1>4, <2>3, <3>4, <3>6, <3>7, <3>8 DEF Inv, FailuresAreTold
  <2> QED BY <2>4, <2>5
<1>8. CASE Fails([kind |-> "output", message |-> "broken pipe"]) /\ UNCHANGED written
  <2>1. Begun' /\ FailuresAreTold'
    BY <1>1, <1>6, <1>8, EndsWithFailure
  <2> QED BY <1>4, <2>1 DEF Inv
<1> QED BY <1>7, <1>8 DEF Write

LEMMA InterruptKeeps == ASSUME Inv, Interrupt PROVE Inv'
<1>1. /\ pc # "ended" /\ Fails([kind |-> "interrupted", message |-> "interrupted"])
      /\ UNCHANGED <<organizations, task, outcome, results, written, revoked>>
  BY DEF Interrupt
<1>2. pc' = "ended"
  BY <1>1 DEF Fails, End
<1>3. TypeOK' /\ Taken' /\ Windowed' /\ HasFirst'
  BY <1>1, <1>2, KeepsReads DEF Inv, TypeOK
<1>4. Begun' /\ FailuresAreTold'
  BY <1>1, EndsWithFailure
<1> QED BY <1>3, <1>4 DEF Inv

LEMMA RevokeKeeps == ASSUME Inv, Revoke PROVE Inv'
<1>1. UNCHANGED <<pc, organizations, task, outcome, results, written, report>> /\ revoked' = TRUE
  BY DEF Revoke
<1>2. TypeOK' /\ Taken' /\ Windowed' /\ HasFirst'
  BY <1>1, KeepsReads DEF Inv, TypeOK
<1>3. Begun'
  BY <1>1 DEF Inv, Begun, Success
<1>4. Index' = Index /\ Succeeded' = Succeeded
  BY <1>1 DEF Index, Succeeded
<1>5. NoSilentGap' /\ WrittenUnlessAllFailed'
  BY <1>1, <1>4 DEF Inv, FailuresAreTold, NoSilentGap, WrittenUnlessAllFailed, Success
<1>6. FirstFailureDecides' /\ SharedFailureIsSaid'
  BY <1>1, <1>4 DEF Inv, FailuresAreTold, FirstFailureDecides, SharedFailureIsSaid
<1> QED BY <1>2, <1>3, <1>5, <1>6 DEF Inv, FailuresAreTold

LEMMA StutterKeeps == ASSUME Inv, UNCHANGED vars PROVE Inv'
<1>1. UNCHANGED <<pc, organizations, task, outcome, results, written, report, revoked>>
  BY DEF vars
<1>2. TypeOK' /\ Taken' /\ Windowed' /\ HasFirst'
  BY <1>1, KeepsReads DEF Inv, TypeOK
<1>3. Begun'
  BY <1>1 DEF Inv, Begun, Success
<1>4. Index' = Index /\ Succeeded' = Succeeded
  BY <1>1 DEF Index, Succeeded
<1>5. NoSilentGap' /\ WrittenUnlessAllFailed'
  BY <1>1, <1>4 DEF Inv, FailuresAreTold, NoSilentGap, WrittenUnlessAllFailed, Success
<1>6. FirstFailureDecides' /\ SharedFailureIsSaid'
  BY <1>1, <1>4 DEF Inv, FailuresAreTold, FirstFailureDecides, SharedFailureIsSaid
<1> QED BY <1>2, <1>3, <1>5, <1>6 DEF Inv, FailuresAreTold

LEMMA EveryStepKeeps == Inv /\ [Next]_vars => Inv'
<1> SUFFICES ASSUME Inv, [Next]_vars PROVE Inv'
  OBVIOUS
<1>1. CASE Resolve
  BY <1>1, ResolveKeeps
<1>2. CASE List
  BY <1>2, ListKeeps
<1>3. CASE EveryFailed
  BY <1>3, EveryFailedKeeps
<1>4. CASE Write
  BY <1>4, WriteKeeps
<1>5. CASE \E i \in Index : Start(i) \/ Exchange(i) \/ Read(i) \/ Take(i)
  BY <1>5, StartKeeps, ExchangeKeeps, AnswerKeeps, TakeKeeps
<1>6. CASE Interrupt
  BY <1>6, InterruptKeeps
<1>7. CASE Revoke
  BY <1>7, RevokeKeeps
<1>8. CASE UNCHANGED vars
  BY <1>8, StutterKeeps
<1> QED BY <1>1, <1>2, <1>3, <1>4, <1>5, <1>6, <1>7, <1>8 DEF Next, Step

LEMMA Invariance == Spec => []Inv
BY Initially, EveryStepKeeps, PTL DEF Spec

\* The reads in flight are those of the window behind what was taken.
LEMMA WindowBounds ==
    ASSUME Inv
    PROVE  AtMostConcurrent
<1> DEFINE Window == (Len(results) + 1)..(Len(results) + Concurrency)
<1>1. TypeOK /\ Taken /\ Windowed
  BY DEF Inv
<1>2. Len(results) \in Nat /\ Concurrency \in Nat /\ Index \subseteq Nat \ {0}
  BY <1>1, TakenOutcomes, ConcurrencyIsPositive
<1>3. Running \subseteq Window
  <2> SUFFICES ASSUME NEW i \in Running PROVE i \in Window
    OBVIOUS
  <2>1. i \in Index /\ task[i] # "waiting" /\ task[i] # "done"
    BY DEF Running
  <2>2. i <= Len(results) + Concurrency
    BY <1>1, <2>1 DEF Windowed
  <2>3. i > Len(results)
    BY <1>1, <1>2, <2>1 DEF Taken, ResultsInOrder
  <2> QED BY <1>2, <2>1, <2>2, <2>3
<1>4. IsFiniteSet(Window) /\ Cardinality(Window) = Concurrency
  BY <1>2, FS_Interval, ConcurrencyIsPositive
<1>5. Cardinality(Running) <= Cardinality(Window)
  BY <1>3, <1>4, FS_Subset
<1> QED BY <1>4, <1>5 DEF AtMostConcurrent

-----------------------------------------------------------------------------

\* Every variable holds what it is meant to, and every outcome belongs to its organization.
THEOREM TypeCorrect == Spec => []TypeOK
<1>1. Inv => TypeOK
  BY DEF Inv
<1> QED BY <1>1, Invariance, PTL

\* The auth service never has more than CONCURRENCY exchanges and reads of one command at once
\* (all_orgs.rs:33), for any number of organizations and any bound.
THEOREM Bounded == Spec => []AtMostConcurrent
<1>1. Inv => AtMostConcurrent
  BY WindowBounds
<1> QED BY <1>1, Invariance, PTL

\* No answer is listed under the organization of another's, whichever ended first (`merge`).
THEOREM InOrder == Spec => []ResultsInOrder
<1>1. Inv => ResultsInOrder
  BY DEF Inv, Taken
<1> QED BY <1>1, Invariance, PTL

\* A partial list is never taken for a complete one: the error names exactly what is missing; what
\* was read is written unless every organization failed; the exit code does not depend on which
\* failure came first in time; one failure that all share is reported as itself (`partial`,
\* `every_failed`).
THEOREM FailuresTold == Spec => []FailuresAreTold
<1>1. Inv => FailuresAreTold
  BY DEF Inv
<1> QED BY <1>1, Invariance, PTL

-----------------------------------------------------------------------------
(* The listing *)

\* Folding's lemma on flattened sequences, of any step.
Flat == INSTANCE Folding WITH Op <- \o

Wallets == UNION {ToSet(WalletsOf[o]) : o \in Orgs}

Lines == [wallet : Wallets, organization : Orgs]

\* What `merge` makes of each result.
Pieces == [k \in DOMAIN results |-> IF results[k].ok THEN Tagged(k, results) ELSE <<>>]

\* The pages are lists of wallets.
LEMMA PagesAreLists ==
    ASSUME NEW o \in Orgs, NEW r \in Outcomes(o), r.ok
    PROVE  r.items \in Seq(Wallets)
<1>1. PICK rows \in {WalletsOf[o], <<>>} : r = Page(o, rows)
  BY DEF Outcomes, Failed
<1>2. r.items = rows
  BY <1>1 DEF Page
<1>3. ToSet(WalletsOf[o]) \subseteq Wallets /\ WalletsOf[o] \in Seq(ToSet(WalletsOf[o]))
  BY WalletsAreListed DEF Wallets
<1>4. WalletsOf[o] \in Seq(Wallets)
  <2>1. PICK T : T = ToSet(WalletsOf[o])
    OBVIOUS
  <2> QED
    BY <1>3, <2>1
<1>5. <<>> \in Seq(Wallets)
  OBVIOUS
<1> QED BY <1>1, <1>2, <1>4, <1>5

\* Each wallet of a page becomes a line of the listing, with the organization of the page.
LEMMA PiecesAreTagged ==
    ASSUME Inv, Len(results) = Len(organizations)
    PROVE  /\ Pieces \in Seq(Seq(Lines))
           /\ Len(Pieces) = Len(organizations) /\ Index = 1..Len(organizations)
           /\ \A k \in Index :
                /\ ~outcome[k].ok => Pieces[k] = <<>>
                /\ outcome[k].ok =>
                     /\ DOMAIN Pieces[k] = DOMAIN outcome[k].items
                     /\ \A w \in DOMAIN Pieces[k] :
                          Pieces[k][w] = [wallet |-> outcome[k].items[w], organization |-> organizations[k]]
<1>1. TypeOK /\ Taken
  BY DEF Inv
<1>2. /\ DOMAIN results = Index /\ Index = 1..Len(organizations) /\ Len(organizations) \in Nat
      /\ \A k \in Index : results[k] = outcome[k] /\ results[k] \in Outcomes(organizations[k])
  BY <1>1, AllSettled, TakenOutcomes
<1>3. \A k \in Index : organizations[k] \in Orgs
  BY <1>1, <1>2 DEF TypeOK
<1>4. ASSUME NEW k \in Index, outcome[k].ok
      PROVE  /\ Pieces[k] \in Seq(Lines)
             /\ DOMAIN Pieces[k] = DOMAIN outcome[k].items
             /\ \A w \in DOMAIN Pieces[k] :
                  Pieces[k][w] = [wallet |-> outcome[k].items[w], organization |-> organizations[k]]
  <2>1. PICK rows : rows = outcome[k].items
    OBVIOUS
  <2>2. rows \in Seq(Wallets) /\ organizations[k] \in Orgs
    BY <1>2, <1>3, <1>4, <2>1, PagesAreLists
  <2>3. Pieces[k] = [w \in DOMAIN rows |-> [wallet |-> rows[w], organization |-> organizations[k]]]
    BY <1>2, <1>4, <2>1 DEF Pieces, Tagged
  <2>4. DOMAIN rows = 1..Len(rows) /\ Len(rows) \in Nat /\ \A w \in DOMAIN rows : rows[w] \in Wallets
    BY <2>2
  <2>5. Pieces[k] \in [1..Len(rows) -> Lines]
    BY <2>2, <2>3, <2>4 DEF Lines
  <2>6. Pieces[k] \in Seq(Lines)
    BY <2>4, <2>5
  <2> QED BY <2>1, <2>3, <2>6
<1>5. ASSUME NEW k \in Index, ~outcome[k].ok
      PROVE  Pieces[k] = <<>>
  BY <1>2, <1>5 DEF Pieces
<1>6. ASSUME NEW k \in Index
      PROVE  Pieces[k] \in Seq(Lines)
  <2>1. CASE outcome[k].ok
    BY <1>4, <2>1
  <2>2. CASE ~outcome[k].ok
    <3>1. Pieces[k] = <<>>
      BY <1>5, <2>2
    <3> QED BY <3>1
  <2> QED BY <2>1, <2>2
<1>7. PICK pieces : pieces = Pieces
  OBVIOUS
<1>8. pieces = [k \in 1..Len(organizations) |-> pieces[k]]
  BY <1>2, <1>7 DEF Pieces
<1>9. pieces \in Seq(Seq(Lines)) /\ Len(pieces) = Len(organizations)
  <2>1. PICK D : D = Seq(Lines)
    OBVIOUS
  <2>2. \A k \in 1..Len(organizations) : pieces[k] \in D
    BY <1>2, <1>6, <1>7, <2>1
  <2>3. pieces \in Seq(D) /\ Len(pieces) = Len(organizations)
    BY <1>2, <1>8, <2>2
  <2> QED BY <2>1, <2>3
<1> QED BY <1>2, <1>4, <1>5, <1>7, <1>9

\* Merged is right whenever every organization's result was taken.
LEMMA MergedIsRight ==
    ASSUME Inv, Len(results) = Len(organizations)
    PROVE  /\ \A i \in Succeeded : \A w \in DOMAIN outcome[i].items :
                [wallet |-> outcome[i].items[w], organization |-> organizations[i]] \in ToSet(Merged)
           /\ \A k \in DOMAIN Merged :
                \E i \in Succeeded :
                  Merged[k].organization = organizations[i] /\ Merged[k].wallet \in ToSet(outcome[i].items)
           /\ \A k, l \in DOMAIN Merged : k < l =>
                \E i, j \in Index :
                  i <= j /\ Merged[k].organization = organizations[i] /\ Merged[l].organization = organizations[j]
<1>1. PICK pieces : pieces = Pieces
  OBVIOUS
<1>2. /\ pieces \in Seq(Seq(Lines))
      /\ Len(pieces) = Len(organizations) /\ Index = 1..Len(organizations)
      /\ \A k \in Index :
           /\ ~outcome[k].ok => pieces[k] = <<>>
           /\ outcome[k].ok =>
                /\ DOMAIN pieces[k] = DOMAIN outcome[k].items
                /\ \A w \in DOMAIN pieces[k] :
                     pieces[k][w] = [wallet |-> outcome[k].items[w], organization |-> organizations[k]]
  BY <1>1, PiecesAreTagged
<1>3. Merged = FlattenSeq(pieces)
  BY <1>1 DEF Merged, Pieces
<1>4. PICK at : Flat!Places(at, FlattenSeq(pieces), Len(pieces), pieces)
  <2>1. pieces \in Seq(Seq(Lines))
    BY <1>2
  <2>2. \E at : Flat!Places(at, Flat!Flattened(pieces), Len(pieces), pieces)
    BY <2>1, Flat!FlattenPlaces
  <2>3. FlattenSeq(pieces) = Flat!Flattened(pieces)
    BY DEF FlattenSeq, Flat!Flattened
  <2> QED
    BY <2>2, <2>3
<1>5. PICK listing : listing = Merged
  OBVIOUS
<1>6. /\ at \in [DOMAIN listing -> Index]
      /\ \A k, l \in DOMAIN listing : k < l => at[k] <= at[l]
      /\ \A k \in DOMAIN listing : \E j \in DOMAIN pieces[at[k]] : listing[k] = pieces[at[k]][j]
      /\ \A i \in Index : \A j \in DOMAIN pieces[i] : \E k \in DOMAIN listing : at[k] = i /\ listing[k] = pieces[i][j]
  BY <1>2, <1>3, <1>4, <1>5 DEF Flat!Places
<1>7. ASSUME NEW k \in DOMAIN listing
      PROVE  /\ at[k] \in Succeeded
             /\ \E j \in DOMAIN outcome[at[k]].items :
                  listing[k] = [wallet |-> outcome[at[k]].items[j], organization |-> organizations[at[k]]]
  <2>1. at[k] \in Index
    BY <1>6
  <2>2. PICK j \in DOMAIN pieces[at[k]] : listing[k] = pieces[at[k]][j]
    BY <1>6
  <2>3. CASE outcome[at[k]].ok
    BY <1>2, <2>1, <2>2, <2>3 DEF Succeeded
  <2>4. CASE ~outcome[at[k]].ok
    <3>1. pieces[at[k]] = <<>>
      BY <1>2, <2>1, <2>4
    <3> QED BY <2>2, <3>1
  <2> QED BY <2>3, <2>4
<1>8. ASSUME NEW i \in Succeeded, NEW w \in DOMAIN outcome[i].items
      PROVE  [wallet |-> outcome[i].items[w], organization |-> organizations[i]] \in ToSet(listing)
  <2>1. i \in Index /\ outcome[i].ok
    BY DEF Succeeded
  <2>2. w \in DOMAIN pieces[i] /\ pieces[i][w] = [wallet |-> outcome[i].items[w], organization |-> organizations[i]]
    BY <1>2, <2>1
  <2>3. PICK k \in DOMAIN listing : listing[k] = pieces[i][w]
    BY <1>6, <2>1, <2>2
  <2> QED BY <2>2, <2>3 DEF ToSet
<1>9. ASSUME NEW k \in DOMAIN listing
      PROVE  \E i \in Succeeded :
               listing[k].organization = organizations[i] /\ listing[k].wallet \in ToSet(outcome[i].items)
  <2>1. PICK j \in DOMAIN outcome[at[k]].items :
          listing[k] = [wallet |-> outcome[at[k]].items[j], organization |-> organizations[at[k]]]
    BY <1>7
  <2>2. /\ listing[k].organization = organizations[at[k]]
        /\ listing[k].wallet = outcome[at[k]].items[j]
    BY <2>1
  <2>3. listing[k].wallet \in ToSet(outcome[at[k]].items)
    BY <2>2 DEF ToSet
  <2> QED BY <1>7, <2>2, <2>3
<1>10. ASSUME NEW k \in DOMAIN listing, NEW l \in DOMAIN listing, k < l
       PROVE  \E i, j \in Index :
                i <= j /\ listing[k].organization = organizations[i] /\ listing[l].organization = organizations[j]
  <2>1. at[k] \in Index /\ at[l] \in Index /\ at[k] <= at[l]
    BY <1>6, <1>10
  <2>2. listing[k].organization = organizations[at[k]] /\ listing[l].organization = organizations[at[l]]
    BY <1>7
  <2> QED BY <2>1, <2>2
<1> QED BY <1>5, <1>8, <1>9, <1>10

LEMMA ListingKeeps == Inv /\ ListingIsRight /\ [Next]_vars => ListingIsRight'
<1> SUFFICES ASSUME Inv, ListingIsRight, [Next]_vars PROVE ListingIsRight'
  OBVIOUS
<1>1. CASE Write
  <2>1. /\ pc = "read" /\ Len(results) = Len(organizations)
        /\ UNCHANGED <<organizations, task, outcome, results, revoked>>
    BY <1>1 DEF Write, AllRead
  <2>2. Index' = Index /\ Succeeded' = Succeeded
    BY <2>1 DEF Index, Succeeded
  <2>3. written = <<>>
    BY <2>1 DEF Inv, Begun
  <2>4. CASE UNCHANGED written
    BY <2>3, <2>4 DEF ListingIsRight
  <2>5. CASE written' = <<Merged>>
    <3>1. DOMAIN written' = {1} /\ written'[1] = Merged
      BY <2>5
    <3>2. PICK listing : listing = Merged
      OBVIOUS
    <3>3. /\ \A i \in Succeeded : \A w \in DOMAIN outcome[i].items :
               [wallet |-> outcome[i].items[w], organization |-> organizations[i]] \in ToSet(listing)
          /\ \A k \in DOMAIN listing :
               \E i \in Succeeded :
                 listing[k].organization = organizations[i] /\ listing[k].wallet \in ToSet(outcome[i].items)
          /\ \A k, l \in DOMAIN listing : k < l =>
               \E i, j \in Index :
                 i <= j /\ listing[k].organization = organizations[i] /\ listing[l].organization = organizations[j]
      BY <2>1, <3>2, MergedIsRight
    <3>4. \A n \in DOMAIN written' : written'[n] = listing
      BY <3>1, <3>2
    <3> QED BY <2>1, <2>2, <3>3, <3>4 DEF ListingIsRight
  <2> QED BY <1>1, <2>4, <2>5 DEF Write
<1>2. CASE Revoke \/ UNCHANGED vars
  <2>1. UNCHANGED <<organizations, outcome, written>>
    BY <1>2 DEF Revoke, vars
  <2> QED BY <2>1 DEF ListingIsRight, Succeeded, Index
<1>3. CASE \/ Resolve \/ List \/ EveryFailed \/ Interrupt
           \/ \E i \in Index : Start(i) \/ Exchange(i) \/ Read(i) \/ Take(i)
  <2>1. pc # "ended" /\ UNCHANGED written
    BY <1>3 DEF Resolve, List, EveryFailed, AllRead, Interrupt, Start, Exchange, Read, Take
  <2>2. written' = <<>>
    BY <2>1 DEF Inv, Begun
  <2> QED BY <2>2 DEF ListingIsRight
<1> QED BY <1>1, <1>2, <1>3 DEF Next, Step

\* Each wallet of each organization that was read is listed under that organization, in the order
\* of the organizations, and nothing else is, whichever answered first and whatever failed (`merge`).
THEOREM ListingRight == Spec => []ListingIsRight
<1>1. Init => Inv /\ ListingIsRight
  BY Initially DEF Init, ListingIsRight
<1>2. Inv /\ ListingIsRight /\ [Next]_vars => (Inv /\ ListingIsRight)'
  BY EveryStepKeeps, ListingKeeps
<1> QED BY <1>1, <1>2, PTL DEF Spec

-----------------------------------------------------------------------------
(* Pages: the place of an item in a list *)

Newer(i, S) == {j \in S : j > i}

\* How many items of S come before i.
Rank(i, S) == Cardinality(Newer(i, S))

LEMMA NewerIsFinite ==
    ASSUME NEW S \in SUBSET Items, NEW i
    PROVE  /\ IsFiniteSet(S) /\ IsFiniteSet(Newer(i, S))
           /\ Cardinality(S) \in Nat /\ Rank(i, S) \in Nat
<1>1. IsFiniteSet(Items)
  BY FS_Interval, BoundsAreNatural DEF Items
<1>2. IsFiniteSet(S)
  BY <1>1, FS_Subset
<1>3. IsFiniteSet(Newer(i, S))
  BY <1>2, FS_Subset DEF Newer
<1> QED BY <1>2, <1>3, FS_CardinalityType DEF Rank

\* Older items come later.
LEMMA RankFalls ==
    ASSUME NEW S \in SUBSET Items, NEW i \in S, NEW j \in S, i < j
    PROVE  Rank(j, S) < Rank(i, S)
<1>1. i \in Nat /\ j \in Nat /\ S \subseteq Nat
  BY BoundsAreNatural DEF Items
<1>2. Newer(j, S) \subseteq Newer(i, S) /\ j \in Newer(i, S) /\ j \notin Newer(j, S)
  <2>1. \A k \in S : k > j => k > i
    BY <1>1
  <2>2. j > i /\ ~(j > j)
    BY <1>1
  <2> QED BY <2>1, <2>2 DEF Newer
<1>3. IsFiniteSet(Newer(i, S)) /\ Rank(i, S) \in Nat /\ Rank(j, S) \in Nat
  BY NewerIsFinite
<1>4. Newer(j, S) \in SUBSET Newer(i, S) /\ Newer(j, S) # Newer(i, S)
  BY <1>2
<1>5. Cardinality(Newer(j, S)) <= Cardinality(Newer(i, S))
  BY <1>3, <1>4, FS_Subset
<1>6. Cardinality(Newer(j, S)) # Cardinality(Newer(i, S))
  BY <1>3, <1>4, FS_Subset
<1> QED BY <1>3, <1>5, <1>6 DEF Rank

\* The ranks of a list are its places, counted from 0, each taken once.
LEMMA RankIsPlace ==
    ASSUME NEW S \in SUBSET Items
    PROVE  /\ \A i \in S : Rank(i, S) \in 0..(Cardinality(S) - 1)
           /\ \A i, j \in S : Rank(i, S) = Rank(j, S) => i = j
           /\ \A r \in 0..(Cardinality(S) - 1) : \E i \in S : Rank(i, S) = r
<1> DEFINE n == Cardinality(S)
           place == [i \in S |-> Rank(i, S)]
<1>1. IsFiniteSet(S) /\ n \in Nat
  BY NewerIsFinite
<1>2. \A i \in S : Rank(i, S) \in 0..(n - 1)
  <2> SUFFICES ASSUME NEW i \in S PROVE Rank(i, S) \in 0..(n - 1)
    OBVIOUS
  <2>1. i \in Nat /\ S \subseteq Nat
    BY BoundsAreNatural DEF Items
  <2>2. Newer(i, S) \subseteq S /\ i \notin Newer(i, S)
    BY <2>1 DEF Newer
  <2>3. Rank(i, S) <= n /\ Rank(i, S) # n /\ Rank(i, S) \in Nat
    BY <1>1, <2>2, FS_Subset, NewerIsFinite DEF Rank
  <2> QED BY <1>1, <2>3
<1>3. \A i, j \in S : Rank(i, S) = Rank(j, S) => i = j
  <2> SUFFICES ASSUME NEW i \in S, NEW j \in S, i # j PROVE Rank(i, S) # Rank(j, S)
    OBVIOUS
  <2>1. i \in Nat /\ j \in Nat
    BY BoundsAreNatural DEF Items
  <2>2. CASE i < j
    BY <2>2, RankFalls, NewerIsFinite
  <2>3. CASE j < i
    BY <2>3, RankFalls, NewerIsFinite
  <2> QED BY <2>1, <2>2, <2>3
<1>4. place \in Injection(S, 0..(n - 1))
  BY <1>2, <1>3, Fun_IsInj
<1>5. IsFiniteSet(0..(n - 1)) /\ Cardinality(0..(n - 1)) = n
  BY <1>1, FS_Interval
<1>6. place \in Surjection(S, 0..(n - 1))
  BY <1>4, <1>5, FS_Injection
<1>7. \A r \in 0..(n - 1) : \E i \in S : Rank(i, S) = r
  <2>1. \A r \in 0..(n - 1) : \E i \in S : place[i] = r
    <3> HIDE DEF place, n
    <3> QED BY <1>6 DEF Surjection
  <2> QED BY <2>1
<1> QED BY <1>2, <1>3, <1>7

\* The ranks from a up to b are of b - a items, or of fewer at the end of the list.
LEMMA RankedBetween ==
    ASSUME NEW S \in SUBSET Items, NEW a \in Nat, NEW b \in Nat, a <= b,
           NEW T, T = {i \in S : a <= Rank(i, S) /\ Rank(i, S) < b}
    PROVE  /\ IsFiniteSet(T) /\ Cardinality(T) \in Nat
           /\ Cardinality(T) <= b - a
           /\ b <= Cardinality(S) => Cardinality(T) = b - a
<1> DEFINE place == [i \in T |-> Rank(i, S)]
<1>1. \A i \in S : Rank(i, S) \in Nat
  BY NewerIsFinite
<1>2. place \in [T -> a..(b - 1)]
  <2>1. \A i \in T : i \in S /\ a <= Rank(i, S) /\ Rank(i, S) < b /\ Rank(i, S) \in Nat
    BY <1>1
  <2>2. \A i \in T : Rank(i, S) \in a..(b - 1)
    BY <2>1
  <2> QED BY <2>2
<1>3. place \in Injection(T, a..(b - 1))
  <2>1. \A i, j \in T : place[i] = place[j] => i = j
    BY RankIsPlace
  <2> HIDE DEF place
  <2> QED BY <1>2, <2>1, Fun_IsInj
<1>4. IsFiniteSet(a..(b - 1)) /\ Cardinality(a..(b - 1)) = b - a
  <2>1. a \in Int /\ b - 1 \in Int /\ (a > b - 1 => b - a = 0) /\ (b - 1) - a + 1 = b - a
    OBVIOUS
  <2> HIDE DEF place
  <2> QED BY <2>1, FS_Interval
<1>5. IsFiniteSet(T) /\ Cardinality(T) <= b - a /\ Cardinality(T) \in Nat
  <2> HIDE DEF place
  <2>1. IsFiniteSet(T) /\ Cardinality(T) <= Cardinality(a..(b - 1))
    BY <1>3, <1>4, FS_Injection
  <2> QED BY <1>4, <2>1, FS_CardinalityType
<1>6. ASSUME b <= Cardinality(S)
      PROVE  Cardinality(T) = b - a
  <2>1. Cardinality(S) \in Nat
    BY NewerIsFinite
  <2>2. \A r \in a..(b - 1) : \E i \in T : place[i] = r
    <3> SUFFICES ASSUME NEW r \in a..(b - 1) PROVE \E i \in T : place[i] = r
      OBVIOUS
    <3>1. r \in 0..(Cardinality(S) - 1)
      BY <1>6, <2>1
    <3>2. \E i \in S : Rank(i, S) = r
      BY <3>1, RankIsPlace
    <3>3. PICK i \in S : Rank(i, S) = r
      BY <3>2
    <3>4. a <= Rank(i, S) /\ Rank(i, S) < b
      BY <3>3
    <3>5. i \in T
      BY <3>4
    <3> QED BY <3>3, <3>5
  <2>3. place \in Surjection(T, a..(b - 1))
    BY <1>2, <2>2, Fun_IsSurj
  <2> QED BY <1>3, <1>4, <2>3, FS_Injection
<1> QED BY <1>5, <1>6

-----------------------------------------------------------------------------
(* The invariant *)

\* A service by cursor says when there is no more (the run's SaysMore).
SaysEnd == SaysMore \subseteq {"no"}

\* The place in the list that the next page by offset begins at.
Place == IF offset = None THEN 0 ELSE offset

ByOffset == endpoint \in {"offset", "deprecated"}

\* Before the first page nothing was asked for, and nothing counts as a change.
Unbegun ==
    ~begun => /\ cursor = None /\ offset = None /\ turns = {}
              /\ listed = [i \in Items |-> 0] /\ ~added /\ ~removed

\* By cursor what was listed is at the cursor or before it, and what is owed after it.
CursorDivides ==
    (SaysEnd /\ endpoint = "cursor" /\ stage = "ask") =>
        /\ offset = None
        /\ \A t \in turns : cursor # None /\ (t.name = "cursor" => t.value >= cursor)
        /\ \A i \in Items : listed[i] > 0 => cursor # None /\ i >= cursor
        /\ \A i \in throughout : listed[i] > 0 \/ cursor = None \/ i < cursor

\* By offset the place divides them, as long as nothing moved across it.
PlaceDivides ==
    (ByOffset /\ stage = "ask") =>
        /\ cursor = None
        /\ \A t \in turns : t.name = "offset" => offset # None /\ t.value <= offset
        /\ removed \/ \A i \in throughout : listed[i] > 0 \/ Rank(i, items) >= Place
        /\ added \/ \A i \in items : listed[i] > 0 => Rank(i, items) < Place

\* NoRepeats, Complete and StuckOnlyByOthers of a service that pages as it should.
Fulfilled ==
    (endpoint = "any" \/ ByOffset \/ SaysEnd) =>
        /\ NoRepeats /\ Complete
        /\ (endpoint = "cursor" \/ MaxItem <= MaxOffset) => StuckOnlyByOthers

PagingInv == PagingTypeOK /\ Unbegun /\ CursorDivides /\ PlaceDivides /\ Fulfilled

LEMMA Arithmetic ==
    /\ PageSize \in Nat /\ PageSize > 0 /\ MaxItem \in Nat /\ MaxOffset \in Nat
    /\ Items \subseteq Nat \ {0} /\ Offsets \subseteq Nat /\ None \notin Items /\ None \notin Offsets
    /\ None # "yes" /\ None # "no"
BY PageHoldsItems, BoundsAreNatural, NoneIsNoValue DEF Items, Offsets

LEMMA PagingInitially == PagingInit => PagingInv
<1> SUFFICES ASSUME PagingInit PROVE PagingInv
  OBVIOUS
<1>1. /\ stage = "ask" /\ cursor = None /\ offset = None /\ turns = {} /\ begun = FALSE
      /\ listed = [i \in Items |-> 0] /\ throughout = items /\ added = FALSE /\ removed = FALSE
  BY DEF PagingInit
<1>2. newest \in 0..MaxItem /\ items \subseteq Items
  BY Arithmetic DEF PagingInit, Items
<1>3. PagingTypeOK
  <2>1. endpoint \in Endpoints /\ collects \in BOOLEAN
    BY DEF PagingInit
  <2>2. listed \in [Items -> Nat]
    BY <1>1
  <2>3. /\ stage \in {"ask", "done", "failed", "stuck", "output"}
        /\ cursor \in Items \cup {None} /\ offset \in Offsets \cup {None}
        /\ begun \in BOOLEAN /\ owed \in BOOLEAN /\ added \in BOOLEAN /\ removed \in BOOLEAN
    BY <1>1 DEF PagingInit
  <2>4. turns \subseteq [name: {"cursor"}, value: Items] \cup [name: {"offset"}, value: Offsets]
    BY <1>1
  <2>5. throughout \subseteq items
    BY <1>1
  <2> QED BY <1>2, <2>1, <2>2, <2>3, <2>4, <2>5 DEF PagingTypeOK
<1>4. Unbegun
  BY <1>1 DEF Unbegun
<1>5. CursorDivides
  BY <1>1, <1>2 DEF CursorDivides
<1>6. PlaceDivides
  <2>1. \A i \in items : Rank(i, items) \in Nat
    BY <1>2, NewerIsFinite
  <2>2. \A i \in items : Rank(i, items) >= 0 /\ ~(listed[i] > 0)
    BY <1>1, <1>2, <2>1
  <2> QED BY <1>1, <2>2 DEF PlaceDivides, Place
<1>7. Fulfilled
  BY <1>1 DEF Fulfilled, NoRepeats, Complete, StuckOnlyByOthers
<1> QED BY <1>3, <1>4, <1>5, <1>6, <1>7 DEF PagingInv

-----------------------------------------------------------------------------
(* What a page leads to *)

Turns == [name: {"cursor"}, value: Items] \cup [name: {"offset"}, value: Offsets]

\* Whatever a page says, the next parameter is a cursor, or an offset that does not overflow.
LEMMA TurnType ==
    ASSUME PagingTypeOK, NEW view, view.count \in Nat, view.offset \in Offsets \cup {None}
    PROVE  NextPage(view) \in Turns \cup {NoTurn, BadTurn}
<1>1. StartOf(view) \in Nat
  BY Arithmetic DEF PagingTypeOK, StartOf
<1>2. \A v \in Items : Turn("cursor", v) \in Turns
  BY DEF Turns, Turn
<1>3. StartOf(view) + view.count <= MaxOffset => Turn("offset", StartOf(view) + view.count) \in Turns
  BY <1>1, Arithmetic DEF Turns, Turn, Offsets
<1>4. CASE view.more = "no"
  BY <1>4 DEF NextPage
<1>5. CASE view.more # "no" /\ ByCursor(view)
  BY <1>2, <1>5 DEF NextPage
<1>6. CASE view.more # "no" /\ ~ByCursor(view)
  <2>1. CASE view.count = 0
    BY <1>6, <2>1 DEF NextPage
  <2>2. CASE view.count > 0 /\ StartOf(view) + view.count > MaxOffset
    BY <1>1, <1>6, <2>2, Arithmetic DEF NextPage
  <2>3. CASE view.count > 0 /\ StartOf(view) + view.count <= MaxOffset
    BY <1>3, <1>6, <2>3, <1>1, Arithmetic DEF NextPage
  <2> QED BY <1>1, <2>1, <2>2, <2>3, Arithmetic
<1> QED BY <1>4, <1>5, <1>6

LEMMA TurnsAreTurns ==
    /\ NoTurn # BadTurn
    /\ \A t \in Turns : t \notin {NoTurn, BadTurn}
    /\ \A v : Turn("cursor", v).name = "cursor" /\ Turn("cursor", v).value = v
    /\ \A v : Turn("offset", v).name = "offset" /\ Turn("offset", v).value = v
    /\ \A v : Turn("cursor", v) \notin {NoTurn, BadTurn} /\ Turn("offset", v) \notin {NoTurn, BadTurn}
BY DEF Turns, NoTurn, BadTurn, Turn

\* A page by cursor is the end of the list, or its last item is the next cursor.
LEMMA CursorAnswer ==
    ASSUME PagingTypeOK, SaysEnd, offset = None, endpoint = "cursor", NEW answer \in CursorPage
    PROVE  /\ answer.rows \subseteq After
           /\ \/ answer.rows = After /\ NextPage(answer.view) = NoTurn
              \/ \E c \in answer.rows :
                   /\ NextPage(answer.view) = Turn("cursor", c)
                   /\ \A i \in answer.rows : c <= i
                   /\ \A i \in After \ answer.rows : i < c
<1> DEFINE rows == FirstOf(PageSize, After)
<1>1. After \subseteq Items /\ After \subseteq Nat
  BY Arithmetic DEF PagingTypeOK, After
<1>2. rows = {i \in After : Rank(i, After) < PageSize}
  BY DEF FirstOf, Rank, Newer
<1>3. PICK more \in SaysMore :
        answer = [rows |-> rows,
                  view |-> [more |-> IF rows = After THEN more ELSE "yes",
                            cursor |-> IF rows = After THEN None ELSE Oldest(rows),
                            count |-> Cardinality(rows), offset |-> 0, total |-> None,
                            limit |-> PageSize]]
  BY DEF CursorPage
<1>4. answer.rows = rows /\ rows \subseteq After
  BY <1>2, <1>3
<1>5. CASE rows = After
  <2>1. answer.view.more = "no"
    BY <1>3, <1>5 DEF SaysEnd
  <2> QED BY <1>4, <1>5, <2>1 DEF NextPage
<1>6. CASE rows # After
  <2>1. \A i \in After : Rank(i, After) \in Nat
    BY <1>1, NewerIsFinite
  <2>2. PICK late \in After : Rank(late, After) >= PageSize
    BY <1>2, <1>6, <2>1, Arithmetic
  <2>3. Cardinality(After) \in Nat /\ Rank(late, After) \in 0..(Cardinality(After) - 1)
    BY <1>1, <2>2, RankIsPlace, NewerIsFinite
  <2>4. PageSize - 1 \in 0..(Cardinality(After) - 1)
    BY <2>2, <2>3, Arithmetic
  <2>5. PICK c \in After : Rank(c, After) = PageSize - 1
    BY <1>1, <2>4, RankIsPlace
  <2>6. c \in rows
    BY <1>2, <2>5, Arithmetic
  <2>7. \A i \in rows : c <= i
    <3> SUFFICES ASSUME NEW i \in rows PROVE c <= i
      OBVIOUS
    <3>1. i \in After /\ i \in Nat /\ c \in Nat /\ Rank(i, After) < PageSize
      BY <1>1, <1>2
    <3>2. i < c => Rank(c, After) < Rank(i, After)
      BY <1>1, <3>1, RankFalls
    <3>3. ~(i < c)
      BY <2>1, <2>5, <3>1, <3>2, Arithmetic
    <3> QED BY <3>1, <3>3
  <2>8. \A i \in After \ rows : i < c
    <3> SUFFICES ASSUME NEW i \in After \ rows, c <= i PROVE FALSE
      BY <1>1
    <3>1. Rank(i, After) >= PageSize
      BY <1>2, <2>1, Arithmetic
    <3>2. i # c
      BY <2>6
    <3>3. c < i
      BY <1>1, <3>2
    <3>4. Rank(i, After) < Rank(c, After)
      BY <1>1, <3>3, RankFalls
    <3> QED BY <2>1, <2>5, <3>1, <3>4, Arithmetic
  <2>9. Oldest(rows) = c
    <3>1. \A d \in rows : (\A j \in rows : d <= j) => d = c
      BY <1>1, <1>4, <2>6, <2>7
    <3> QED BY <2>6, <2>7, <3>1 DEF Oldest
  <2>10. answer.view.more = "yes" /\ answer.view.cursor = c /\ c \in Items
    BY <1>1, <1>3, <1>6, <2>9
  <2>11. ByCursor(answer.view)
    BY <2>10, Arithmetic DEF ByCursor, PagedByOffset
  <2>12. NextPage(answer.view) = Turn("cursor", c)
    BY <2>10, <2>11 DEF NextPage
  <2> QED BY <1>4, <2>6, <2>7, <2>8, <2>12
<1> QED BY <1>5, <1>6

\* A page by offset is of the places from the offset on; another one is asked for only after a
\* full page that is not the last.
LEMMA OffsetAnswer ==
    ASSUME PagingTypeOK, ByOffset, cursor = None, NEW answer \in OffsetPage
    PROVE  /\ answer.rows \subseteq items
           /\ \A i \in answer.rows : Place <= Rank(i, items) /\ Rank(i, items) < Place + PageSize
           /\ \/ /\ NextPage(answer.view) = NoTurn
                 /\ \A i \in items : Place <= Rank(i, items) => i \in answer.rows
              \/ /\ NextPage(answer.view) = Turn("offset", Place + PageSize)
                 /\ Place + PageSize \in Offsets
                 /\ \A i \in items : (Place <= Rank(i, items) /\ Rank(i, items) < Place + PageSize) => i \in answer.rows
              \/ NextPage(answer.view) = BadTurn /\ ~(MaxItem <= MaxOffset)
<1> DEFINE rows == FirstOf(Place + PageSize, items) \ FirstOf(Place, items)
           end == Place + Cardinality(rows) >= Cardinality(items)
<1>1. items \in SUBSET Items /\ Place \in Nat /\ IsFiniteSet(items) /\ Cardinality(items) \in Nat
  BY Arithmetic, NewerIsFinite DEF PagingTypeOK, Place
<1>2. \A i \in items : Rank(i, items) \in Nat
  BY <1>1, NewerIsFinite
<1>3. rows = {i \in items : Place <= Rank(i, items) /\ Rank(i, items) < Place + PageSize}
  <2>1. FirstOf(Place, items) = {i \in items : Rank(i, items) < Place}
    BY DEF FirstOf, Rank, Newer
  <2>2. FirstOf(Place + PageSize, items) = {i \in items : Rank(i, items) < Place + PageSize}
    BY DEF FirstOf, Rank, Newer
  <2>3. \A i \in items : ~(Rank(i, items) < Place) <=> Place <= Rank(i, items)
    BY <1>1, <1>2
  <2> QED BY <2>1, <2>2, <2>3
<1>4. /\ Cardinality(rows) \in Nat /\ Cardinality(rows) <= PageSize
      /\ Place + PageSize <= Cardinality(items) => Cardinality(rows) = PageSize
  <2>1. Place + PageSize \in Nat /\ Place <= Place + PageSize /\ (Place + PageSize) - Place = PageSize
    BY <1>1, Arithmetic
  <2> HIDE DEF rows
  <2> QED BY <1>1, <1>3, <2>1, RankedBetween
<1>5. \A i \in items : Rank(i, items) < Cardinality(items)
  BY <1>1, <1>2, RankIsPlace
<1>6. Cardinality(rows) > 0 => Place + Cardinality(rows) <= Cardinality(items)
  <2> SUFFICES ASSUME Cardinality(rows) > 0, Place + PageSize > Cardinality(items)
               PROVE  Place + Cardinality(rows) <= Cardinality(items)
    BY <1>1, <1>4, Arithmetic
  <2>1. PICK i \in rows : TRUE
    BY <1>4, FS_EmptySet
  <2>2. Place <= Cardinality(items)
    BY <1>1, <1>2, <1>3, <1>5, <2>1
  <2>3. rows = {j \in items : Place <= Rank(j, items) /\ Rank(j, items) < Cardinality(items)}
    <3>1. \A j \in items : Rank(j, items) < Place + PageSize /\ Rank(j, items) < Cardinality(items)
      BY <1>1, <1>2, <1>5, Arithmetic
    <3> HIDE DEF rows
    <3> QED BY <1>3, <3>1
  <2>4. Cardinality(rows) <= Cardinality(items) - Place
    <3> HIDE DEF rows
    <3> QED BY <1>1, <2>2, <2>3, RankedBetween
  <2> QED BY <1>1, <1>4, <2>4
<1>7. Cardinality(items) <= MaxItem
  <2>1. IsFiniteSet(1..MaxItem) /\ Cardinality(1..MaxItem) = MaxItem
    BY FS_Interval, Arithmetic
  <2> QED BY <1>1, <2>1, FS_Subset DEF Items
<1>8. answer = [rows |-> rows,
                view |-> [more |-> IF endpoint = "offset" THEN None ELSE IF end THEN "no" ELSE "yes",
                          cursor |-> None, count |-> Cardinality(rows), offset |-> Place,
                          total |-> Cardinality(items), limit |-> PageSize]]
  BY DEF OffsetPage, Place
<1> DEFINE view == answer.view
<1>9. /\ answer.rows = rows /\ view.count = Cardinality(rows) /\ view.offset = Place
      /\ view.total = Cardinality(items) /\ view.limit = PageSize /\ view.cursor = None
      /\ view.more = "no" => end
      /\ endpoint = "offset" => view.more = None
  BY <1>8, Arithmetic
<1>10. ~ByCursor(view)
  BY <1>9 DEF ByCursor, PagedByOffset, ByOffset
<1>11. StartOf(view) = Place
  BY <1>1, <1>9, NoneIsNoValue DEF StartOf
<1>12. rows \subseteq items /\ \A i \in rows : Place <= Rank(i, items) /\ Rank(i, items) < Place + PageSize
  BY <1>3
<1>13. ASSUME Cardinality(rows) < PageSize \/ Place + Cardinality(rows) >= Cardinality(items)
       PROVE  \A i \in items : Place <= Rank(i, items) => i \in rows
  <2>1. Cardinality(items) <= Place + PageSize
    BY <1>1, <1>4, <1>13, Arithmetic
  <2>2. \A i \in items : Rank(i, items) < Place + PageSize
    BY <1>1, <1>2, <1>5, <2>1, Arithmetic
  <2> HIDE DEF rows
  <2> QED BY <1>3, <2>2
<1> HIDE DEF rows, view
<1>14. CASE view.more = "no"
  <2>1. NextPage(view) = NoTurn
    BY <1>14 DEF NextPage
  <2> QED BY <1>9, <1>12, <1>13, <1>14, <2>1 DEF view
<1>15. CASE view.more # "no" /\ view.count = 0
  <2>1. NextPage(view) = NoTurn
    BY <1>10, <1>15 DEF NextPage
  <2>2. Cardinality(rows) < PageSize
    BY <1>9, <1>15, Arithmetic
  <2> QED BY <1>9, <1>12, <1>13, <2>1, <2>2 DEF view
<1>16. CASE view.more # "no" /\ view.count > 0 /\ StartOf(view) + view.count > MaxOffset
  <2>1. NextPage(view) = BadTurn
    BY <1>1, <1>4, <1>9, <1>10, <1>11, <1>16, Arithmetic DEF NextPage
  <2>2. ~(MaxItem <= MaxOffset)
    BY <1>1, <1>4, <1>6, <1>7, <1>9, <1>11, <1>16, Arithmetic
  <2> QED BY <1>9, <1>12, <2>1, <2>2 DEF view
<1>17. CASE view.more # "no" /\ view.count > 0 /\ StartOf(view) + view.count <= MaxOffset
  <2>1. NextPage(view) = IF Short(view) THEN NoTurn ELSE Turn("offset", StartOf(view) + view.count)
    BY <1>1, <1>4, <1>9, <1>10, <1>11, <1>17, Arithmetic DEF NextPage
  <2>2. Short(view) <=> (Cardinality(rows) < PageSize \/ Place + Cardinality(rows) >= Cardinality(items))
    BY <1>1, <1>9, <1>11, Arithmetic, NoneIsNoValue DEF Short
  <2>3. CASE Short(view)
    BY <1>9, <1>12, <1>13, <2>1, <2>2, <2>3 DEF view
  <2>4. CASE ~Short(view)
    <3>1. Cardinality(rows) = PageSize
      BY <1>4, <2>2, <2>4, Arithmetic
    <3>2. NextPage(view) = Turn("offset", Place + PageSize)
      BY <1>9, <1>11, <2>1, <2>4, <3>1
    <3>3. Place + PageSize \in Offsets
      BY <1>1, <1>9, <1>11, <1>17, <3>1, Arithmetic DEF Offsets
    <3>4. \A i \in items : (Place <= Rank(i, items) /\ Rank(i, items) < Place + PageSize) => i \in rows
      BY <1>3
    <3> QED BY <1>9, <1>12, <3>2, <3>3, <3>4 DEF view
  <2> QED BY <2>3, <2>4
<1> QED BY <1>1, <1>4, <1>9, <1>11, <1>14, <1>15, <1>16, <1>17, Arithmetic

\* A shorter list leaves no item further back.
LEMMA RankInPart ==
    ASSUME NEW T \in SUBSET Items, NEW S \in SUBSET T, NEW i
    PROVE  Rank(i, S) <= Rank(i, T) /\ Rank(i, S) \in Nat /\ Rank(i, T) \in Nat
<1>1. Newer(i, S) \in SUBSET Newer(i, T) /\ IsFiniteSet(Newer(i, T))
  BY NewerIsFinite DEF Newer
<1>2. S \in SUBSET Items
  OBVIOUS
<1> QED BY <1>1, <1>2, FS_Subset, NewerIsFinite DEF Rank

-----------------------------------------------------------------------------
(* Each step keeps it *)

LEMMA AnswerShape ==
    ASSUME PagingTypeOK, NEW answer \in Answers
    PROVE  /\ answer.view.count \in Nat /\ answer.view.offset \in Offsets \cup {None}
           /\ endpoint = "any" => answer.rows = {}
           /\ endpoint = "cursor" => answer \in CursorPage
           /\ ByOffset => answer \in OffsetPage
           /\ endpoint = "any" \/ endpoint = "cursor" \/ ByOffset
<1>1. items \in SUBSET Items
  BY DEF PagingTypeOK
<1>2. endpoint \in AllEndpoints
  BY EndpointsAreKnown DEF PagingTypeOK
<1>3. CASE endpoint = "any"
  <2>1. answer \in [rows: {{}}, view: Anything]
    BY <1>3 DEF Answers
  <2>2. answer.rows = {} /\ answer.view \in Views
    BY <2>1, AnythingIsPages
  <2> QED BY <1>3, <2>2, Arithmetic DEF Views, ByOffset
<1>4. CASE endpoint = "cursor"
  <2>1. answer \in CursorPage
    BY <1>4 DEF Answers
  <2>2. After \in SUBSET Items /\ FirstOf(PageSize, After) \in SUBSET Items
    BY <1>1 DEF After, FirstOf
  <2>3. answer.view.count = Cardinality(FirstOf(PageSize, After)) /\ answer.view.offset = 0
    BY <2>1 DEF CursorPage
  <2>4. 0 \in Offsets
    BY Arithmetic DEF Offsets
  <2>5. Cardinality(FirstOf(PageSize, After)) \in Nat
    BY <2>2, NewerIsFinite
  <2> QED BY <1>4, <2>1, <2>3, <2>4, <2>5 DEF ByOffset
<1>5. CASE ByOffset
  <2>1. answer \in OffsetPage
    BY <1>5 DEF Answers, ByOffset
  <2> DEFINE rows == FirstOf(Place + PageSize, items) \ FirstOf(Place, items)
  <2>2. answer.view.count = Cardinality(rows) /\ answer.view.offset = Place
    BY <2>1 DEF OffsetPage, Place
  <2>3. Place \in Offsets
    BY Arithmetic DEF Place, PagingTypeOK, Offsets
  <2>4. rows \in SUBSET Items
    BY <1>1 DEF FirstOf
  <2>5. Cardinality(rows) \in Nat
    BY <2>4, NewerIsFinite
  <2> QED BY <1>5, <2>1, <2>2, <2>3, <2>5 DEF ByOffset
<1> QED BY <1>2, <1>3, <1>4, <1>5 DEF AllEndpoints, ByOffset

\* What a turn of write_pages may do, and the types it keeps.
LEMMA TurnedOutcome ==
    ASSUME PagingInv, NEW answer \in Answers, Turned(answer)
    PROVE  LET turn == NextPage(answer.view) IN
           /\ stage = "ask" /\ begun' = TRUE
           /\ \A i \in Items : listed'[i] = listed[i] + IF i \in answer.rows THEN 1 ELSE 0
           /\ UNCHANGED <<endpoint, collects, items, newest, throughout, added, removed>>
           /\ \/ turn = BadTurn /\ Stop("stuck")
              \/ turn = NoTurn /\ Stop("done") /\ owed' = FALSE
              \/ turn \in Turns /\ turn \in turns /\ Stop("stuck")
              \/ turn \in Turns /\ turn \notin turns /\ Advance(turn)
              \/ Stop("output")
           /\ PagingTypeOK' /\ Unbegun'
<1> DEFINE turn == NextPage(answer.view)
<1>1. PagingTypeOK
  BY DEF PagingInv
<1>2. turn \in Turns \cup {NoTurn, BadTurn}
  BY <1>1, AnswerShape, TurnType
<1>3. /\ stage = "ask" /\ begun' = TRUE
      /\ listed' = [i \in Items |-> listed[i] + IF i \in answer.rows THEN 1 ELSE 0]
      /\ UNCHANGED <<endpoint, collects, items, newest, throughout, added, removed>>
  BY DEF Turned, service
<1>4. \/ turn = BadTurn /\ Stop("stuck") /\ owed' = TRUE
      \/ turn = NoTurn /\ Stop("done") /\ owed' = FALSE
      \/ turn \in Turns /\ turn \in turns /\ Stop("stuck") /\ owed' = (owed \/ collects)
      \/ turn \in Turns /\ turn \notin turns /\ Advance(turn) /\ owed' = (owed \/ collects)
      \/ Stop("output") /\ owed' = TRUE
  BY <1>2 DEF Turned, Follow
<1>5. owed' \in BOOLEAN
  BY <1>1, <1>4 DEF PagingTypeOK
<1>6. listed' \in [Items -> Nat]
  BY <1>1, <1>3 DEF PagingTypeOK
<1>7. /\ stage' \in {"ask", "done", "failed", "stuck", "output"}
      /\ cursor' \in Items \cup {None} /\ offset' \in Offsets \cup {None}
      /\ turns' \subseteq Turns
  <2>1. cursor \in Items \cup {None} /\ offset \in Offsets \cup {None} /\ turns \subseteq Turns
    BY <1>1 DEF PagingTypeOK, Turns
  <2>2. CASE Stop("stuck") \/ Stop("done") \/ Stop("output")
    BY <2>1, <2>2 DEF Stop
  <2>3. CASE turn \in Turns /\ Advance(turn)
    <3>1. stage' = "ask" /\ turns' = turns \cup {turn}
      BY <1>3, <2>3 DEF Advance
    <3>2. cursor' \in Items \cup {None}
      BY <2>1, <2>3 DEF Advance, Turns
    <3>3. offset' \in Offsets \cup {None}
      BY <2>1, <2>3 DEF Advance, Turns
    <3> QED BY <2>1, <2>3, <3>1, <3>2, <3>3
  <2> QED BY <1>4, <2>2, <2>3
<1>8. PagingTypeOK'
  BY <1>1, <1>3, <1>5, <1>6, <1>7 DEF PagingTypeOK, Turns
<1>9. Unbegun'
  BY <1>3 DEF Unbegun
<1>10. \A i \in Items : listed'[i] = listed[i] + IF i \in answer.rows THEN 1 ELSE 0
  BY <1>3
<1> HIDE DEF turn
<1>11. /\ stage = "ask" /\ begun' = TRUE
       /\ \A i \in Items : listed'[i] = listed[i] + IF i \in answer.rows THEN 1 ELSE 0
       /\ UNCHANGED <<endpoint, collects, items, newest, throughout, added, removed>>
       /\ \/ turn = BadTurn /\ Stop("stuck")
          \/ turn = NoTurn /\ Stop("done") /\ owed' = FALSE
          \/ turn \in Turns /\ turn \in turns /\ Stop("stuck")
          \/ turn \in Turns /\ turn \notin turns /\ Advance(turn)
          \/ Stop("output")
       /\ PagingTypeOK' /\ Unbegun'
  BY <1>3, <1>4, <1>8, <1>9, <1>10
<1> QED BY <1>11 DEF turn

LEMMA CursorTurned ==
    ASSUME PagingInv, endpoint = "cursor", NEW answer \in Answers, Turned(answer)
    PROVE  PagingInv'
<1> DEFINE turn == NextPage(answer.view)
<1>1. /\ stage = "ask" /\ begun' = TRUE
      /\ \A i \in Items : listed'[i] = listed[i] + IF i \in answer.rows THEN 1 ELSE 0
      /\ UNCHANGED <<endpoint, collects, items, newest, throughout, added, removed>>
      /\ \/ turn = BadTurn /\ Stop("stuck")
         \/ turn = NoTurn /\ Stop("done") /\ owed' = FALSE
         \/ turn \in Turns /\ turn \in turns /\ Stop("stuck")
         \/ turn \in Turns /\ turn \notin turns /\ Advance(turn)
         \/ Stop("output")
      /\ PagingTypeOK' /\ Unbegun'
  BY TurnedOutcome
<1>2. PagingTypeOK /\ CursorDivides /\ Fulfilled
  BY DEF PagingInv
<1>3. PlaceDivides'
  BY <1>1 DEF PlaceDivides, ByOffset
<1>4. ASSUME SaysEnd PROVE CursorDivides' /\ NoRepeats' /\ Complete' /\ StuckOnlyByOthers'
  <2>1. /\ offset = None
        /\ \A t \in turns : cursor # None /\ (t.name = "cursor" => t.value >= cursor)
        /\ \A i \in Items : listed[i] > 0 => cursor # None /\ i >= cursor
        /\ \A i \in throughout : listed[i] > 0 \/ cursor = None \/ i < cursor
    BY <1>1, <1>2, <1>4 DEF CursorDivides
  <2>2. /\ \A i \in Items : listed[i] \in Nat /\ i \in Nat
        /\ throughout \subseteq items /\ items \subseteq Items
        /\ cursor \in Items \cup {None}
        /\ turns \subseteq Turns
    BY <1>2, Arithmetic DEF PagingTypeOK, Turns
  <2>3. /\ answer.rows \subseteq After
        /\ \/ answer.rows = After /\ turn = NoTurn
           \/ \E c \in answer.rows :
                /\ turn = Turn("cursor", c)
                /\ \A i \in answer.rows : c <= i
                /\ \A i \in After \ answer.rows : i < c
    BY <1>2, <1>4, <2>1, AnswerShape, CursorAnswer
  <2>4. \A i \in items : i \in After <=> (cursor = None \/ i < cursor)
    BY <2>1 DEF After
  <2>5. After \subseteq items
    BY DEF After
  <2>6. \A i \in answer.rows : i \in Items /\ ~(listed[i] > 0) /\ (cursor = None \/ i < cursor)
    <3> SUFFICES ASSUME NEW i \in answer.rows
                 PROVE  i \in Items /\ ~(listed[i] > 0) /\ (cursor = None \/ i < cursor)
      OBVIOUS
    <3>1. i \in Items /\ (cursor = None \/ i < cursor)
      BY <2>2, <2>3, <2>4, <2>5
    <3>2. cursor # None => cursor \in Nat /\ ~(i < cursor /\ i >= cursor)
      BY <2>2, <3>1, Arithmetic
    <3> QED BY <2>1, <3>1, <3>2
  <2>7. NoRepeats'
    <3>1. \A i \in Items : listed[i] <= 1
      BY <1>2, <1>4, Arithmetic DEF Fulfilled, NoRepeats
    <3>2. \A i \in Items : listed'[i] <= 1
      BY <1>1, <2>2, <2>6, <3>1
    <3> QED BY <3>2 DEF NoRepeats
  <2>8. \A i \in throughout : i \in items /\ i \in Items
    BY <2>2
  <2>9. CASE answer.rows = After /\ turn = NoTurn
    <3>1. stage' # "ask" /\ stage' # "stuck" /\ (stage' = "done" => owed' = FALSE)
      <4> HIDE DEF turn
      <4> QED BY <1>1, <2>9, TurnsAreTurns DEF Stop
    <3>2. \A i \in throughout : listed'[i] > 0
      <4> SUFFICES ASSUME NEW i \in throughout PROVE listed'[i] > 0
        OBVIOUS
      <4>1. CASE listed[i] > 0
        BY <1>1, <2>2, <2>8, <4>1
      <4>2. CASE i \in After
        BY <1>1, <2>2, <2>8, <2>9, <4>2
      <4> QED BY <2>1, <2>4, <2>8, <4>1, <4>2
    <3>3. Complete'
      BY <1>1, <3>1, <3>2 DEF Complete
    <3> QED BY <2>7, <3>1, <3>3 DEF CursorDivides, StuckOnlyByOthers
  <2>10. ASSUME NEW c \in answer.rows, turn = Turn("cursor", c),
                \A i \in answer.rows : c <= i,
                \A i \in After \ answer.rows : i < c
         PROVE  CursorDivides' /\ Complete' /\ StuckOnlyByOthers'
    <3>1. c \in Items /\ c \in Nat /\ (cursor = None \/ c < cursor)
      BY <2>2, <2>6
    <3>2. turn.name = "cursor" /\ turn.value = c /\ turn \notin {NoTurn, BadTurn}
      BY <2>10, TurnsAreTurns
    <3> HIDE DEF turn
    <3>3. turn \notin turns
      <4> SUFFICES ASSUME turn \in turns PROVE FALSE
        OBVIOUS
      <4>1. cursor # None /\ c >= cursor /\ cursor \in Nat
        BY <2>1, <2>2, <3>2, Arithmetic
      <4> QED BY <3>1, <4>1
    <3>4. CASE Stop("output")
      BY <3>4 DEF Stop, CursorDivides, Complete, StuckOnlyByOthers
    <3>5. CASE Advance(turn)
      <4>1. /\ stage' = "ask" /\ cursor' = c /\ offset' = None /\ turns' = turns \cup {turn}
        BY <1>1, <2>1, <3>2, <3>5 DEF Advance
      <4>2. c # None
        BY <3>1, Arithmetic
      <4>3. \A t \in turns' : t.name = "cursor" => t.value >= c
        <5> SUFFICES ASSUME NEW t \in turns', t.name = "cursor" PROVE t.value >= c
          OBVIOUS
        <5>1. CASE t = turn
          BY <3>1, <3>2, <5>1
        <5>2. CASE t \in turns
          <6>1. cursor \in Nat /\ t.value >= cursor /\ c < cursor
            BY <2>1, <2>2, <3>1, <5>2, Arithmetic
          <6>2. t.value \in Nat
            BY <2>2, <5>2, Arithmetic DEF Turns
          <6> QED BY <3>1, <6>1, <6>2
        <5> QED BY <4>1, <5>1, <5>2
      <4>4. \A i \in Items : listed'[i] > 0 => i >= c
        <5> SUFFICES ASSUME NEW i \in Items, listed'[i] > 0 PROVE i >= c
          OBVIOUS
        <5>1. CASE i \in answer.rows
          BY <2>2, <2>10, <3>1, <5>1
        <5>2. CASE i \notin answer.rows
          <6>1. listed[i] > 0
            BY <1>1, <2>2, <5>2
          <6>2. cursor \in Nat /\ i >= cursor /\ c < cursor
            BY <2>1, <2>2, <3>1, <6>1, Arithmetic
          <6> QED BY <2>2, <3>1, <6>2
        <5> QED BY <5>1, <5>2
      <4>5. \A i \in throughout : listed'[i] > 0 \/ i < c
        <5> SUFFICES ASSUME NEW i \in throughout PROVE listed'[i] > 0 \/ i < c
          OBVIOUS
        <5>1. CASE listed[i] > 0
          BY <1>1, <2>2, <2>8, <5>1
        <5>2. CASE i \in After /\ i \in answer.rows
          BY <1>1, <2>2, <2>8, <5>2
        <5>3. CASE i \in After /\ i \notin answer.rows
          BY <2>10, <5>3
        <5> QED BY <2>1, <2>4, <2>8, <5>1, <5>2, <5>3
      <4>6. CursorDivides'
        BY <1>1, <4>1, <4>2, <4>3, <4>4, <4>5 DEF CursorDivides
      <4> QED BY <4>1, <4>6 DEF Complete, StuckOnlyByOthers
    <3> QED BY <1>1, <3>2, <3>3, <3>4, <3>5
  <2> QED BY <2>3, <2>7, <2>9, <2>10
<1>5. CursorDivides'
  BY <1>1, <1>4 DEF CursorDivides
<1>6. Fulfilled'
  BY <1>1, <1>4 DEF Fulfilled, ByOffset
<1> QED BY <1>1, <1>3, <1>5, <1>6 DEF PagingInv

LEMMA OffsetTurned ==
    ASSUME PagingInv, ByOffset, NEW answer \in Answers, Turned(answer)
    PROVE  PagingInv'
<1> DEFINE turn == NextPage(answer.view)
<1>1. /\ stage = "ask" /\ begun' = TRUE
      /\ \A i \in Items : listed'[i] = listed[i] + IF i \in answer.rows THEN 1 ELSE 0
      /\ UNCHANGED <<endpoint, collects, items, newest, throughout, added, removed>>
      /\ \/ turn = BadTurn /\ Stop("stuck")
         \/ turn = NoTurn /\ Stop("done") /\ owed' = FALSE
         \/ turn \in Turns /\ turn \in turns /\ Stop("stuck")
         \/ turn \in Turns /\ turn \notin turns /\ Advance(turn)
         \/ Stop("output")
      /\ PagingTypeOK' /\ Unbegun'
  BY TurnedOutcome
<1>2. PagingTypeOK /\ PlaceDivides /\ Fulfilled
  BY DEF PagingInv
<1>3. CursorDivides'
  BY <1>1 DEF CursorDivides, ByOffset
<1>4. /\ cursor = None
      /\ \A t \in turns : t.name = "offset" => offset # None /\ t.value <= offset
      /\ removed \/ \A i \in throughout : listed[i] > 0 \/ Rank(i, items) >= Place
      /\ added \/ \A i \in items : listed[i] > 0 => Rank(i, items) < Place
  BY <1>1, <1>2 DEF PlaceDivides
<1>5. /\ \A i \in Items : listed[i] \in Nat
      /\ throughout \subseteq items /\ items \in SUBSET Items
      /\ offset \in Offsets \cup {None} /\ Place \in Nat
      /\ turns \subseteq Turns
  BY <1>2, Arithmetic DEF PagingTypeOK, Turns, Place
<1>6. \A i \in items : Rank(i, items) \in Nat /\ i \in Items
  BY <1>5, NewerIsFinite
<1>7. /\ answer.rows \subseteq items
      /\ \A i \in answer.rows : Place <= Rank(i, items) /\ Rank(i, items) < Place + PageSize
      /\ \/ /\ turn = NoTurn
            /\ \A i \in items : Place <= Rank(i, items) => i \in answer.rows
         \/ /\ turn = Turn("offset", Place + PageSize)
            /\ Place + PageSize \in Offsets
            /\ \A i \in items : (Place <= Rank(i, items) /\ Rank(i, items) < Place + PageSize) => i \in answer.rows
         \/ turn = BadTurn /\ ~(MaxItem <= MaxOffset)
  BY <1>2, <1>4, AnswerShape, OffsetAnswer
<1> HIDE DEF turn
<1>8. NoRepeats'
  <2>1. \A i \in Items : listed[i] <= 1 \/ added
    BY <1>2 DEF Fulfilled, NoRepeats, ByOffset
  <2>2. \A i \in answer.rows : ~(listed[i] > 0) \/ added
    BY <1>4, <1>5, <1>6, <1>7
  <2>3. \A i \in Items : listed'[i] <= 1 \/ added
    BY <1>1, <1>5, <1>7, <2>1, <2>2
  <2> QED BY <1>1, <2>3 DEF NoRepeats, ByOffset
<1>9. CASE /\ turn = NoTurn
           /\ \A i \in items : Place <= Rank(i, items) => i \in answer.rows
  <2>1. stage' # "ask" /\ stage' # "stuck" /\ (stage' = "done" => owed' = FALSE)
    BY <1>1, <1>9, TurnsAreTurns DEF Stop
  <2>2. removed \/ \A i \in throughout : listed'[i] > 0
    <3> SUFFICES ASSUME ~removed, NEW i \in throughout PROVE listed'[i] > 0
      OBVIOUS
    <3>1. i \in items /\ i \in Items
      BY <1>5
    <3>2. CASE listed[i] > 0
      BY <1>1, <1>5, <3>1, <3>2
    <3>3. CASE Rank(i, items) >= Place
      <4>1. i \in answer.rows
        BY <1>5, <1>6, <1>9, <3>1, <3>3
      <4> QED BY <1>1, <1>5, <3>1, <4>1
    <3> QED BY <1>4, <3>2, <3>3
  <2>3. Complete'
    BY <1>1, <2>1, <2>2 DEF Complete, ByOffset
  <2>4. PlaceDivides' /\ StuckOnlyByOthers'
    BY <2>1 DEF PlaceDivides, StuckOnlyByOthers
  <2>5. Fulfilled'
    BY <1>8, <2>3, <2>4 DEF Fulfilled
  <2> QED BY <1>1, <1>3, <2>4, <2>5 DEF PagingInv
<1>10. CASE turn = BadTurn /\ ~(MaxItem <= MaxOffset)
  <2>1. stage' \in {"stuck", "output"}
    BY <1>1, <1>10, TurnsAreTurns DEF Stop
  <2>2. PlaceDivides' /\ Complete'
    BY <2>1 DEF PlaceDivides, Complete
  <2>3. Fulfilled'
    BY <1>1, <1>8, <1>10, <2>2 DEF Fulfilled, ByOffset
  <2> QED BY <1>1, <1>3, <2>2, <2>3 DEF PagingInv
<1>11. CASE /\ turn = Turn("offset", Place + PageSize)
            /\ Place + PageSize \in Offsets
            /\ \A i \in items : (Place <= Rank(i, items) /\ Rank(i, items) < Place + PageSize) => i \in answer.rows
  <2> DEFINE next == Place + PageSize
  <2>1. turn.name = "offset" /\ turn.value = next /\ turn \notin {NoTurn, BadTurn}
    BY <1>11, TurnsAreTurns
  <2>2. next \in Nat /\ next > Place
    BY <1>5, Arithmetic
  <2>3. turn \notin turns
    <3> SUFFICES ASSUME turn \in turns PROVE FALSE
      OBVIOUS
    <3>1. offset # None /\ next <= offset
      BY <1>4, <2>1
    <3> QED BY <1>5, <2>2, <3>1, Arithmetic DEF Place
  <2>4. CASE Stop("output")
    <3>1. PlaceDivides' /\ Complete' /\ StuckOnlyByOthers'
      BY <2>4 DEF Stop, PlaceDivides, Complete, StuckOnlyByOthers
    <3>2. Fulfilled'
      BY <1>8, <3>1 DEF Fulfilled
    <3> QED BY <1>1, <1>3, <3>1, <3>2 DEF PagingInv
  <2>5. CASE Advance(turn)
    <3>1. stage' = "ask" /\ cursor' = None /\ offset' = next /\ turns' = turns \cup {turn}
      BY <1>1, <1>4, <2>1, <2>5 DEF Advance
    <3>2. next # None /\ Place' = next
      BY <2>2, <3>1, NoneIsNoValue DEF Place
    <3>3. \A t \in turns' : t.name = "offset" => t.value <= next
      <4> SUFFICES ASSUME NEW t \in turns', t.name = "offset" PROVE t.value <= next
        OBVIOUS
      <4>1. CASE t = turn
        BY <2>1, <2>2, <4>1
      <4>2. CASE t \in turns
        <5>1. t.value \in Nat
          BY <1>5, <4>2, Arithmetic DEF Turns
        <5>2. offset # None /\ t.value <= offset /\ Place = offset
          BY <1>4, <4>2 DEF Place
        <5> QED BY <1>5, <2>2, <5>1, <5>2
      <4> QED BY <3>1, <4>1, <4>2
    <3>4. removed \/ \A i \in throughout : listed'[i] > 0 \/ Rank(i, items) >= next
      <4> SUFFICES ASSUME ~removed, NEW i \in throughout PROVE listed'[i] > 0 \/ Rank(i, items) >= next
        OBVIOUS
      <4>1. i \in items /\ i \in Items /\ Rank(i, items) \in Nat
        BY <1>5, <1>6
      <4>2. CASE listed[i] > 0
        BY <1>1, <1>5, <4>1, <4>2
      <4>3. CASE Rank(i, items) >= Place /\ Rank(i, items) < next
        <5>1. i \in answer.rows
          BY <1>5, <1>11, <4>1, <4>3
        <5> QED BY <1>1, <1>5, <4>1, <5>1
      <4> QED BY <1>4, <2>2, <4>1, <4>2, <4>3
    <3>5. added \/ \A i \in items : listed'[i] > 0 => Rank(i, items) < next
      <4> SUFFICES ASSUME ~added, NEW i \in items, listed'[i] > 0 PROVE Rank(i, items) < next
        OBVIOUS
      <4>1. i \in Items /\ Rank(i, items) \in Nat
        BY <1>6
      <4>2. CASE i \in answer.rows
        BY <1>7, <4>2
      <4>3. CASE i \notin answer.rows
        <5>1. listed[i] > 0
          BY <1>1, <1>5, <4>1, <4>3
        <5>2. Rank(i, items) < Place
          BY <1>4, <5>1
        <5> QED BY <1>5, <2>2, <4>1, <5>2
      <4> QED BY <4>2, <4>3
    <3>6. PlaceDivides'
      <4>1. \A i : Rank(i, items)' = Rank(i, items')
        BY DEF Rank, Newer
      <4> HIDE DEF next
      <4> QED BY <1>1, <3>1, <3>2, <3>3, <3>4, <3>5 DEF PlaceDivides
    <3>7. Complete' /\ StuckOnlyByOthers'
      BY <3>1 DEF Complete, StuckOnlyByOthers
    <3>8. Fulfilled'
      BY <1>8, <3>7 DEF Fulfilled
    <3> QED BY <1>1, <1>3, <3>6, <3>8 DEF PagingInv
  <2> QED BY <1>1, <2>1, <2>3, <2>4, <2>5
<1> QED BY <1>7, <1>9, <1>10, <1>11

LEMMA AnyTurned ==
    ASSUME PagingInv, endpoint = "any", NEW answer \in Answers, Turned(answer)
    PROVE  PagingInv'
<1>1. /\ stage = "ask" /\ PagingTypeOK' /\ Unbegun' /\ endpoint' = endpoint
      /\ stage' = "done" => owed' = FALSE
  <2>1. /\ stage = "ask" /\ PagingTypeOK' /\ Unbegun' /\ endpoint' = endpoint
        /\ \/ Stop("stuck") \/ Stop("output") \/ \E t : Advance(t)
           \/ Stop("done") /\ owed' = FALSE
    BY TurnedOutcome
  <2> QED BY <2>1 DEF Stop, Advance
<1>2. CursorDivides' /\ PlaceDivides'
  BY <1>1 DEF CursorDivides, PlaceDivides, ByOffset
<1>3. Fulfilled'
  BY <1>1 DEF Fulfilled, NoRepeats, Complete, StuckOnlyByOthers
<1> QED BY <1>1, <1>2, <1>3 DEF PagingInv

LEMMA AddKeeps == ASSUME PagingInv, Add PROVE PagingInv'
<1>1. /\ stage = "ask" /\ endpoint # "any" /\ newest < MaxItem
      /\ newest' = newest + 1 /\ items' = items \cup {newest'}
      /\ added' = (added \/ begun)
      /\ throughout' = IF begun THEN throughout ELSE items'
      /\ UNCHANGED <<endpoint, collects, stage, cursor, offset, turns, begun, owed, listed, removed>>
  BY DEF Add, client
<1>2. PagingTypeOK /\ Unbegun /\ CursorDivides /\ PlaceDivides /\ Fulfilled
  BY DEF PagingInv
<1>3. newest' \in Items /\ newest' \in 0..MaxItem /\ items \subseteq Items /\ items' \in SUBSET Items
  BY <1>1, <1>2, Arithmetic DEF PagingTypeOK, Items
<1>4. PagingTypeOK'
  <2>1. throughout' \subseteq items' /\ added' \in BOOLEAN
    BY <1>1, <1>2 DEF PagingTypeOK
  <2> QED BY <1>1, <1>2, <1>3, <2>1 DEF PagingTypeOK
<1>5. Unbegun'
  BY <1>1, <1>2 DEF PagingTypeOK, Unbegun
<1>6. \A i : Rank(i, items)' = Rank(i, items')
  BY DEF Rank, Newer
<1>7. items \in SUBSET items'
  BY <1>1
<1>8. \A i : Rank(i, items) <= Rank(i, items') /\ Rank(i, items) \in Nat /\ Rank(i, items') \in Nat
  BY <1>3, <1>7, RankInPart
<1>9. CASE begun
  <2>1. throughout' = throughout /\ added' = TRUE
    BY <1>1, <1>9
  <2>2. CursorDivides'
    BY <1>1, <1>2, <2>1 DEF CursorDivides
  <2>3. PlaceDivides'
    <3>1. Place' = Place /\ (ByOffset' <=> ByOffset)
      BY <1>1 DEF Place, ByOffset
    <3>2. Place \in Nat /\ \A i \in throughout : Rank(i, items) >= Place => Rank(i, items') >= Place
      BY <1>2, <1>8, Arithmetic DEF PagingTypeOK, Place
    <3>3. ByOffset => (removed \/ \A i \in throughout : listed[i] > 0 \/ Rank(i, items') >= Place)
      BY <1>1, <1>2, <3>2 DEF PlaceDivides
    <3> QED BY <1>1, <1>2, <1>6, <2>1, <3>1, <3>3 DEF PlaceDivides
  <2>4. Fulfilled'
    BY <1>1, <1>2, <2>1 DEF Fulfilled, NoRepeats, Complete, StuckOnlyByOthers, ByOffset
  <2> QED BY <1>2, <1>4, <1>5, <2>2, <2>3, <2>4 DEF PagingInv
<1>10. CASE ~begun
  <2>1. /\ cursor = None /\ offset = None /\ turns = {} /\ ~added /\ ~removed
        /\ \A i \in Items : listed[i] = 0
    BY <1>2, <1>10 DEF Unbegun
  <2>2. throughout' \subseteq Items
    BY <1>3, <1>4 DEF PagingTypeOK
  <2>3. CursorDivides'
    BY <1>1, <2>1, <2>2 DEF CursorDivides
  <2>4. PlaceDivides'
    <3>1. Place' = 0
      BY <1>1, <2>1 DEF Place
    <3>2. \A i : Rank(i, items') >= 0
      BY <1>8
    <3>3. \A i \in items' : ~(listed[i] > 0)
      BY <1>3, <2>1
    <3> QED BY <1>1, <1>6, <2>1, <3>1, <3>2, <3>3 DEF PlaceDivides
  <2>5. Fulfilled'
    BY <1>1, <2>1 DEF Fulfilled, NoRepeats, Complete, StuckOnlyByOthers
  <2> QED BY <1>2, <1>4, <1>5, <2>3, <2>4, <2>5 DEF PagingInv
<1> QED BY <1>9, <1>10

LEMMA DeleteKeeps == ASSUME PagingInv, NEW gone \in Items, Delete(gone) PROVE PagingInv'
<1>1. /\ stage = "ask" /\ endpoint # "any" /\ gone \in items
      /\ items' = items \ {gone} /\ throughout' = throughout \ {gone}
      /\ removed' = (removed \/ begun)
      /\ UNCHANGED <<endpoint, collects, stage, cursor, offset, turns, begun, owed, newest, listed, added>>
  BY DEF Delete, client
<1>2. PagingTypeOK /\ Unbegun /\ CursorDivides /\ PlaceDivides /\ Fulfilled
  BY DEF PagingInv
<1>3. items \in SUBSET Items /\ items' \in SUBSET items
  BY <1>1, <1>2 DEF PagingTypeOK
<1>4. PagingTypeOK'
  <2>1. throughout' \subseteq items' /\ removed' \in BOOLEAN /\ items' \subseteq Items
    BY <1>1, <1>2 DEF PagingTypeOK
  <2> QED BY <1>1, <1>2, <2>1 DEF PagingTypeOK
<1>5. Unbegun'
  BY <1>1, <1>2 DEF PagingTypeOK, Unbegun
<1>6. \A i : Rank(i, items)' = Rank(i, items')
  BY DEF Rank, Newer
<1>7. \A i : Rank(i, items') <= Rank(i, items) /\ Rank(i, items) \in Nat /\ Rank(i, items') \in Nat
  BY <1>3, RankInPart
<1>8. throughout' \subseteq throughout
  BY <1>1
<1>9. CursorDivides'
  BY <1>1, <1>2, <1>8 DEF CursorDivides
<1>10. PlaceDivides'
  <2>1. Place' = Place /\ (ByOffset' <=> ByOffset) /\ Place \in Nat
    BY <1>1, <1>2, Arithmetic DEF Place, ByOffset, PagingTypeOK
  <2>2. ByOffset => (added \/ \A i \in items' : listed[i] > 0 => Rank(i, items') < Place)
    <3> SUFFICES ASSUME ByOffset, ~added, NEW i \in items', listed[i] > 0
                 PROVE  Rank(i, items') < Place
      OBVIOUS
    <3>1. Rank(i, items) < Place
      BY <1>1, <1>2, <1>3 DEF PlaceDivides
    <3> QED BY <1>7, <2>1, <3>1
  <2>3. removed' \/ \A i \in throughout' : Rank(i, items') >= Place
    <3>1. CASE begun
      BY <1>1, <3>1
    <3>2. CASE ~begun
      <4>1. Place = 0
        BY <1>2, <3>2 DEF Unbegun, Place
      <4> QED BY <1>7, <4>1
    <3> QED BY <3>1, <3>2
  <2> QED BY <1>1, <1>2, <1>6, <2>1, <2>2, <2>3 DEF PlaceDivides
<1>11. Fulfilled'
  BY <1>1, <1>2 DEF Fulfilled, NoRepeats, Complete, StuckOnlyByOthers, ByOffset
<1> QED BY <1>4, <1>5, <1>9, <1>10, <1>11 DEF PagingInv

LEMMA FailKeeps == ASSUME PagingInv, Fail PROVE PagingInv'
<1>1. /\ stage' = "failed"
      /\ UNCHANGED <<endpoint, collects, cursor, offset, turns, begun, owed, items, newest,
                     listed, throughout, added, removed>>
  BY DEF Fail, Stop, service, history
<1>2. PagingTypeOK /\ Unbegun /\ Fulfilled
  BY DEF PagingInv
<1>3. PagingTypeOK' /\ Unbegun'
  BY <1>1, <1>2 DEF PagingTypeOK, Unbegun
<1>4. CursorDivides' /\ PlaceDivides'
  BY <1>1 DEF CursorDivides, PlaceDivides
<1>5. Fulfilled'
  BY <1>1, <1>2 DEF Fulfilled, NoRepeats, Complete, StuckOnlyByOthers, ByOffset
<1> QED BY <1>3, <1>4, <1>5 DEF PagingInv

LEMMA PagingStutterKeeps == ASSUME PagingInv, UNCHANGED pagingVars PROVE PagingInv'
<1>1. UNCHANGED <<endpoint, collects, stage, cursor, offset, turns, begun, owed, items, newest,
                  listed, throughout, added, removed>>
  BY DEF pagingVars, client, service, history
<1>2. PagingTypeOK /\ Unbegun /\ CursorDivides /\ PlaceDivides /\ Fulfilled
  BY DEF PagingInv
<1>3. PagingTypeOK' /\ Unbegun' /\ CursorDivides'
  BY <1>1, <1>2 DEF PagingTypeOK, Unbegun, CursorDivides
<1>4. PlaceDivides'
  <2>1. Place' = Place /\ \A i : Rank(i, items)' = Rank(i, items)
    BY <1>1 DEF Place, Rank, Newer
  <2> QED BY <1>1, <1>2, <2>1 DEF PlaceDivides, ByOffset
<1>5. Fulfilled'
  BY <1>1, <1>2 DEF Fulfilled, NoRepeats, Complete, StuckOnlyByOthers, ByOffset
<1> QED BY <1>3, <1>4, <1>5 DEF PagingInv

LEMMA PagingStepKeeps == PagingInv /\ [PagingNext]_pagingVars => PagingInv'
<1> SUFFICES ASSUME PagingInv, [PagingNext]_pagingVars PROVE PagingInv'
  OBVIOUS
<1>1. CASE Fail
  BY <1>1, FailKeeps
<1>2. ASSUME NEW answer \in Answers, Turned(answer) PROVE PagingInv'
  <2>1. endpoint = "any" \/ endpoint = "cursor" \/ ByOffset
    BY <1>2, AnswerShape DEF PagingInv
  <2> QED BY <1>2, <2>1, AnyTurned, CursorTurned, OffsetTurned
<1>3. CASE Add
  BY <1>3, AddKeeps
<1>4. CASE \E i \in Items : Delete(i)
  BY <1>4, DeleteKeeps
<1>5. CASE UNCHANGED pagingVars
  BY <1>5, PagingStutterKeeps
<1> QED BY <1>1, <1>2, <1>3, <1>4, <1>5 DEF PagingNext, Client

LEMMA PagingInvariance == PagingSpec => []PagingInv
BY PagingInitially, PagingStepKeeps, PTL DEF PagingSpec

-----------------------------------------------------------------------------

\* The query, the turns taken and the list keep their types: no offset overflows, whatever a
\* service answers (next_page, checked_add).
THEOREM PagingTypeCorrect == PagingSpec => []PagingTypeOK
<1>1. PagingInv => PagingTypeOK
  BY DEF PagingInv
<1> QED BY <1>1, PagingInvariance, PTL

\* For any page size and however the list changes, a listing by cursor that succeeds read
\* everything that was there all the time, and one by offset did unless something was removed.
\* The service says has_more = false at the end of a list by cursor.
THEOREM ListsAll ==
    ASSUME SaysMore \subseteq {"no"}
    PROVE  PagingSpec => []Complete
<1>1. PagingInv => Complete
  BY DEF PagingInv, Fulfilled, SaysEnd
<1> QED BY <1>1, PagingInvariance, PTL

\* No item is listed twice, by offset unless items were added.
THEOREM ListsOnce ==
    ASSUME SaysMore \subseteq {"no"}
    PROVE  PagingSpec => []NoRepeats
<1>1. PagingInv => NoRepeats
  BY DEF PagingInv, Fulfilled, SaysEnd
<1> QED BY <1>1, PagingInvariance, PTL

\* A service that pages as it should is never given up ("Pagination did not advance"), as long
\* as an offset can name every item of the list.
THEOREM GivesUpOnNone ==
    ASSUME SaysMore \subseteq {"no"}, MaxItem <= MaxOffset
    PROVE  PagingSpec => []StuckOnlyByOthers
<1>1. PagingInv => StuckOnlyByOthers
  BY DEF PagingInv, Fulfilled, SaysEnd
<1> QED BY <1>1, PagingInvariance, PTL

==============================================================================
