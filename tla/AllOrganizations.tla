--------------------------- MODULE AllOrganizations ---------------------------
(***************************************************************************)
(* `wallets list --all-orgs` (src/all_orgs.rs): the login lists its        *)
(* organizations, then the exchange and the wallet read of each run side   *)
(* by side, CONCURRENCY at a time, and end in any order.  Their results    *)
(* are taken in the order of the organizations, merged, written, and what  *)
(* failed is reported.  The login may be revoked at any moment.            *)
(***************************************************************************)
EXTENDS Naturals, Sequences, FiniteSets, SequencesExt

CONSTANTS
    Entries,        \* the listings of the auth service: sequences of Orgs and NoId
    Orgs,
    NoId,           \* an entry without a UUID `id`
    WalletsOf,      \* the wallets of each organization
    Concurrency,    \* CONCURRENCY
    Failures,       \* [kind, message] records: what an exchange or a read may end with
    RevokedLogin    \*   the one of a revoked login

\* `organizations`: the entries with an ID, in the order listed.
WithId(entries) == SelectSeq(entries, LAMBDA e : e # NoId)

ASSUME EntriesAreListings ==
    \A e \in Entries : e \in Seq(Orgs \cup {NoId}) /\ WithId(e) \in Seq(Orgs)
ASSUME WalletsAreListed == \A o \in Orgs : WalletsOf[o] \in Seq(ToSet(WalletsOf[o]))
ASSUME ConcurrencyIsPositive == Concurrency \in Nat \ {0}
ASSUME FailuresHaveKinds ==
    /\ RevokedLogin \in Failures
    /\ \A f \in Failures : /\ f = [kind |-> f.kind, message |-> f.message]
                           /\ f.message \notin {"success", "partial"}

VARIABLES
    pc,             \* of the command
    organizations,  \* the organizations read
    task,           \* what each one's read is at
    outcome,        \* what it ended with
    results,        \* taken from `buffered` so far
    written,        \* the listings written: none or one
    report,         \* the error, or Success
    revoked         \* the auth service: the login was revoked

vars == <<pc, organizations, task, outcome, results, written, report, revoked>>

Success == [kind |-> "none", message |-> "success", organizations |-> {}]
Unanswered == [ok |-> FALSE, failure |-> RevokedLogin, org |-> NoId]

Index == DOMAIN organizations

\* What one organization's read ends with: its page (of wallets, or a body without items), or why not.
Page(org, items) == [ok |-> TRUE, org |-> org, items |-> items]
Failed(org, f) == [ok |-> FALSE, org |-> org, failure |-> f]

Running == {i \in Index : task[i] \in {"exchange", "read"}}

Init ==
    /\ pc = "resolve" /\ organizations = <<>> /\ task = <<>> /\ outcome = <<>>
    /\ results = <<>> /\ written = <<>> /\ report = Success /\ revoked = FALSE

End(error) == pc' = "ended" /\ report' = error

\* `error` ends the command as it is.
Fails(f) == End([kind |-> f.kind, message |-> f.message, organizations |-> {}])

-----------------------------------------------------------------------------
(* The command *)

\* The scope's credential: a login, an API key (refused), or none that works.
Resolve ==
    /\ pc = "resolve"
    /\ \/ pc' = "list" /\ UNCHANGED report
       \/ Fails([kind |-> "auth", message |-> "API key"])
       \/ \E f \in Failures : Fails(f)
    /\ UNCHANGED <<organizations, task, outcome, results, written, revoked>>

List ==
    /\ pc = "list"
    /\ \/ /\ ~revoked
          /\ \E entries \in Entries :
               /\ organizations' = WithId(entries)
               /\ task' = [i \in DOMAIN organizations' |-> "waiting"]
               /\ outcome' = [i \in DOMAIN organizations' |-> Unanswered]
          /\ pc' = "read" /\ UNCHANGED report
       \/ /\ \E f \in Failures : (revoked => f = RevokedLogin) /\ Fails(f)
          /\ UNCHANGED <<organizations, task, outcome>>
    /\ UNCHANGED <<results, written, revoked>>

\* `buffered` starts reads in order, and holds at most Concurrency that were not taken.
HasRoom(i) ==
    /\ \A j \in Index : j < i => task[j] # "waiting"
    /\ i <= Len(results) + Concurrency

Start(i) ==
    /\ pc = "read" /\ task[i] = "waiting" /\ HasRoom(i)
    /\ task' = [task EXCEPT ![i] = "exchange"]
    /\ UNCHANGED <<pc, organizations, outcome, results, written, report, revoked>>

Done(i, o) == task' = [task EXCEPT ![i] = "done"] /\ outcome' = [outcome EXCEPT ![i] = o]

\* organization_token: a revoked login is refused, whatever its access token still has to live.
Exchange(i) ==
    /\ pc = "read" /\ task[i] = "exchange"
    /\ \/ ~revoked /\ task' = [task EXCEPT ![i] = "read"] /\ UNCHANGED outcome
       \/ \E f \in Failures :
            (revoked => f = RevokedLogin) /\ Done(i, Failed(organizations[i], f))
    /\ UNCHANGED <<pc, organizations, results, written, report, revoked>>

\* organization_wallets, with a token that outlives the login.
Read(i) ==
    /\ pc = "read" /\ task[i] = "read"
    /\ \/ \E items \in {WalletsOf[organizations[i]], <<>>} :
            Done(i, Page(organizations[i], items))
       \/ \E f \in Failures : Done(i, Failed(organizations[i], f))
    /\ UNCHANGED <<pc, organizations, results, written, report, revoked>>

\* MUTANT of Next_: the results are taken as they come, as from buffer_unordered.
NextAny(i) == task[i] = "done" /\ \A k \in 1..Len(results) : results[k] # outcome[i]

\* The result taken next is the one of the next organization.
Next_(i) == task[i] = "done" /\ i = Len(results) + 1

Take(i) ==
    /\ pc = "read" /\ Next_(i)
    /\ results' = Append(results, outcome[i])
    /\ UNCHANGED <<pc, organizations, task, outcome, written, report, revoked>>

-----------------------------------------------------------------------------
(* What was read *)

\* `merge`: each wallet with its organization.  The results and the organizations are zipped.
Tagged(k, results_) ==
    [w \in DOMAIN results_[k].items |-> [wallet |-> results_[k].items[w], organization |-> organizations[k]]]

Merged ==
    FlattenSeq([k \in DOMAIN results |-> IF results[k].ok THEN Tagged(k, results) ELSE <<>>])

FailedOnes == {k \in DOMAIN results : ~results[k].ok}

\* `partial`: it names the organizations that failed, and the failure of one gives the exit code.
PartialAs(k) ==
    [kind |-> results[k].failure.kind, message |-> "partial",
     organizations |-> {organizations[l] : l \in FailedOnes}]

\* MUTANT of Partial: the last failure gives the exit code.
PartialOfLast == PartialAs(CHOOSE k \in FailedOnes : \A l \in FailedOnes : l <= k)

\* The first failure gives it.
Partial == PartialAs(CHOOSE k \in FailedOnes : \A l \in FailedOnes : k <= l)

\* `every_failed`: all failed the same way.
SharedFailure ==
    \A k \in DOMAIN results :
      /\ results[k].failure.kind = results[1].failure.kind
      /\ results[k].failure.message = results[1].failure.message

AllFailed == FailedOnes # {} /\ FailedOnes = Index

\* MUTANT of AllRead: a login without organizations is waited for.
AllReadOfSome ==
    pc = "read" /\ Len(results) = Len(organizations) /\ organizations # <<>>

AllRead == pc = "read" /\ Len(results) = Len(organizations)

EveryFailed ==
    /\ AllRead /\ AllFailed
    /\ IF SharedFailure THEN Fails(results[1].failure) ELSE End(Partial)
    /\ UNCHANGED <<organizations, task, outcome, results, written, revoked>>

\* The end of a command whose listing is written.
Outcome == IF FailedOnes = {} THEN Success ELSE Partial

\* The listing is written, or standard output is gone.
Write ==
    /\ AllRead /\ ~AllFailed
    /\ \/ written' = <<Merged>> /\ End(Outcome)
       \/ Fails([kind |-> "output", message |-> "broken pipe"]) /\ UNCHANGED written
    /\ UNCHANGED <<organizations, task, outcome, results, revoked>>

\* Ctrl-C, before the listing is written: the command is dropped with every read it runs.
Interrupt ==
    /\ pc # "ended"
    /\ Fails([kind |-> "interrupted", message |-> "interrupted"])
    /\ UNCHANGED <<organizations, task, outcome, results, written, revoked>>

\* Another process signs out, or an administrator ends the session.
Revoke ==
    /\ ~revoked /\ revoked' = TRUE
    /\ UNCHANGED <<pc, organizations, task, outcome, results, written, report>>

Step ==
    \/ Resolve \/ List \/ EveryFailed \/ Write
    \/ \E i \in Index : Start(i) \/ Exchange(i) \/ Read(i) \/ Take(i)

Next == Step \/ Interrupt \/ Revoke

Spec == Init /\ [][Next]_vars

\* The executor polls what can run, and every request is answered or times out.
FairSpec == Spec /\ WF_vars(Step)

-----------------------------------------------------------------------------
(* Properties *)

Outcomes(org) ==
    {Page(org, items) : items \in {WalletsOf[org], <<>>}} \cup {Failed(org, f) : f \in Failures}

\* What each variable holds, and that every result belongs to its organization.
TypeOK ==
    /\ pc \in {"resolve", "list", "read", "ended"}
    /\ organizations \in Seq(Orgs)
    /\ DOMAIN task = Index /\ DOMAIN outcome = Index
    /\ \A i \in Index :
         /\ task[i] \in {"waiting", "exchange", "read", "done"}
         /\ IF task[i] = "done" THEN outcome[i] \in Outcomes(organizations[i]) ELSE outcome[i] = Unanswered
    /\ Len(results) <= Len(organizations)
    /\ revoked \in BOOLEAN

\* The auth service never has more than CONCURRENCY exchanges and reads of one command at once,
\* also when the first organization answers last (all_orgs.rs:33, `buffered`).
AtMostConcurrent == Cardinality(Running) <= Concurrency

\* The results are those of the first organizations, in their order, whichever ended first: a
\* wallet is never listed under the organization of another's answer (the zip in `merge`).
ResultsInOrder ==
    \A k \in 1..Len(results) : task[k] = "done" /\ results[k] = outcome[k]

Succeeded == {i \in Index : outcome[i].ok}

\* The listing holds each wallet of each organization that was read, under that organization, in
\* the order of the organizations, and nothing else (module comment, all_orgs.rs:4).
ListingIsRight ==
    \A n \in DOMAIN written : LET listing == written[n] IN
      /\ \A i \in Succeeded : \A w \in DOMAIN outcome[i].items :
           [wallet |-> outcome[i].items[w], organization |-> organizations[i]] \in ToSet(listing)
      /\ \A k \in DOMAIN listing :
           \E i \in Succeeded :
             listing[k].organization = organizations[i] /\ listing[k].wallet \in ToSet(outcome[i].items)
      /\ \A k, l \in DOMAIN listing : k < l =>
           \E i, j \in Index :
             i <= j /\ listing[k].organization = organizations[i] /\ listing[l].organization = organizations[j]

\* Success is said of a written listing of every organization; an error about organizations
\* names exactly those missing from the listing ("a script never mistakes a partial list for a
\* complete one", all_orgs.rs:13).
NoSilentGap ==
    pc = "ended" =>
      /\ report = Success => written # <<>> /\ Succeeded = Index
      /\ report.message = "partial" =>
           report.organizations = {organizations[i] : i \in Index \ Succeeded}

\* Nothing is written when every organization fails, and everything that was read is when one does.
WrittenUnlessAllFailed ==
    /\ written # <<>> => Succeeded # {} \/ Index = {}
    /\ (pc = "ended" /\ report.message = "partial") =>
         (written = <<>> <=> Succeeded = {})

\* The exit code is the one of the first failure in the order of the organizations, not in time.
FirstFailureDecides ==
    (pc = "ended" /\ report.message = "partial") =>
      \E i \in Index \ Succeeded :
        /\ \A j \in Index \ Succeeded : i <= j
        /\ report.kind = outcome[i].failure.kind

\* One failure shared by every organization, as of a revoked login, is reported as that failure,
\* and failures that differ are never reported as one of them (every_failed).
SharedFailureIsSaid ==
    (pc = "ended" /\ Len(results) = Len(organizations) /\ Index # {} /\ Succeeded = {}) =>
      \/ report.kind = "interrupted"
      \/ report.message = "partial" /\ \E i, j \in Index : outcome[i].failure # outcome[j].failure
      \/ \A i \in Index : [kind |-> report.kind, message |-> report.message] = outcome[i].failure

\* The command ends: no answer is waited for that was not asked for.
Ends == <>(pc = "ended")

\* However reads end, the failures are told as they are: what is missing, what was written
\* nevertheless, one exit code, and one failure that all share.
FailuresAreTold ==
    NoSilentGap /\ WrittenUnlessAllFailed /\ FirstFailureDecides /\ SharedFailureIsSaid

=============================================================================
