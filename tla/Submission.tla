----------------------------- MODULE Submission -----------------------------
(***************************************************************************)
(* The life of a change the voltage CLI submits (src/api.rs, execute and   *)
(* Call::mutate): authorize, verify the wallet's environment, record the   *)
(* resource ID in the recovery journal, send once, reconcile a transport   *)
(* failure by reading the ID, wait for the payment, and report.            *)
(*                                                                         *)
(* Several runs (processes) share one configuration directory, so one      *)
(* journal, and one service.  Ctrl-C reaches a run wherever it awaits, a   *)
(* kill wherever it is; a request that left may be lost, answered late or  *)
(* accepted after the run that sent it is gone.                            *)
(*                                                                         *)
(* Simplifications.  A request stands for what the journal compares: the   *)
(* operation, the scope and the SHA-256 of the body.  Time is a budget of  *)
(* ticks until the deadline that --timeout sets.  The service is external  *)
(* and keeps one payment per ID.  How a credential is resolved is in       *)
(* Credentials.                                                            *)
(***************************************************************************)
EXTENDS Integers

CONSTANTS
    Runs,           \* processes that run one command each
    Ids,            \* resource IDs the commands name
    Requests,       \* operation, scope and body hash
    Plans,          \* the commands that may be run
    Absent,         \* no journal file, or nothing held under an ID
    Torn,           \* a journal file that does not parse
    Timeout,        \* --timeout in ticks
    MaxPause,       \* longest pause between two polls, in ticks
    Outages,        \* the gateway may answer 5xx, whatever the service did
    PowerFails      \* the machine may lose power, and with it unsynced files

Kinds == {"payment", "create", "wallet", "get", "show"}
Targets == {"none", "ready", "completed"}

\* An invocation: what it sends under which ID, what it waits for, and whether
\* it was told to send (--execute).
AllPlans == [kind: Kinds, id: Ids, request: Requests, wait: Targets, execute: BOOLEAN]

ASSUME PlansAreInvocations == Plans \subseteq AllPlans
ASSUME FilesAreNotRequests == Absent \notin Requests /\ Torn \notin Requests /\ Absent # Torn
ASSUME TicksAreNatural == Timeout \in Nat /\ MaxPause \in Nat
ASSUME FaultsAreBoolean == Outages \in BOOLEAN /\ PowerFails \in BOOLEAN

VARIABLES
    \* one entry per run
    plan,           \* its command
    pc,             \* the step it is about to take
    budget,         \* ticks left until its deadline
    view,           \* the status in the last response it holds
    reconciled,     \* its response came from reading the ID
    report,         \* its exit code and what its output claims
    submitted,      \* runs whose SubmissionState holds a write
    \* the configuration directory
    disk,           \* the journal file of each ID
    durable,        \* IDs whose journal file was fsynced
    \* the service
    post,           \* where the request of each run is
    held,           \* the request of the payment each ID names
    status,         \* the state of that payment
    projected       \* the state that reads of the ID return

local == <<plan, budget, view, reconciled>>
journalFiles == <<disk, durable>>
service == <<held, status, projected>>
vars == <<plan, pc, budget, view, reconciled, report, submitted, disk, durable,
          post, held, status, projected>>

-----------------------------------------------------------------------------
(* Run::plan, Mutation::plan and Read::plan *)

Mutates(p) == p.kind \in {"payment", "create", "wallet"}
\* journal_id: the body carries an id
Journals(p) == p.kind \in {"payment", "create"}
\* reconcile: operation.id.submits_payment()
Reconciles(p) == p.kind = "payment"
\* verify_wallet_environment
Verifies(p) == p.kind = "wallet"
\* missing_is_pending: an explicit --wait, not one that --qr or --copy implies
MissingIsPending(p) == p.kind = "get" /\ p.wait # "none"

Locations ==
    {"start", "authorize", "first", "verify", "check", "compare", "create", "write",
     "sync", "send", "posting", "reconcile", "settle", "look", "sleep", "over", "dead"}

Statuses == {"missing", "generating", "receiving", "completed", "failed"}
Final == {"completed", "failed"}

Claims == {"none", "notsent", "unknown", "rejected", "accepted", "succeeded", "found",
           "ready", "completed", "failed", "pending", "broken"}

\* ErrorKind::exit_code, and -1 for a run that has not ended
ExitCodes == {-1, 0, 1, 2, 3, 4, 5, 6, 130}

\* PaymentView::progress
Progress(state, until) ==
    CASE state = "failed" -> "unsuccessful"
      [] state = "completed" -> "completed"
      [] state = "receiving" /\ until = "ready" -> "ready"
      [] OTHER -> "pending"

TypeOK ==
    /\ plan \in [Runs -> Plans]
    /\ pc \in [Runs -> Locations]
    /\ budget \in [Runs -> 0..Timeout]
    /\ view \in [Runs -> Statuses]
    /\ reconciled \in [Runs -> BOOLEAN]
    /\ report \in [Runs -> [exit: ExitCodes, claim: Claims]]
    /\ submitted \subseteq Runs
    /\ disk \in [Ids -> Requests \cup {Absent, Torn}]
    /\ durable \subseteq Ids
    /\ post \in [Runs -> {"unsent", "transit", "accepted", "rejected"}]
    /\ held \in [Ids -> Requests \cup {Absent}]
    /\ status \in [Ids -> Statuses]
    /\ projected \in [Ids -> Statuses]

Init ==
    /\ plan \in [Runs -> Plans]
    /\ pc = [r \in Runs |-> "start"]
    /\ budget = [r \in Runs |-> Timeout]
    /\ view = [r \in Runs |-> "missing"]
    /\ reconciled = [r \in Runs |-> FALSE]
    /\ report = [r \in Runs |-> [exit |-> -1, claim |-> "none"]]
    /\ submitted = {}
    /\ disk = [id \in Ids |-> Absent]
    /\ durable = {}
    /\ post = [r \in Runs |-> "unsent"]
    /\ held = [id \in Ids |-> Absent]
    /\ status = [id \in Ids |-> "missing"]
    /\ projected = [id \in Ids |-> "missing"]

-----------------------------------------------------------------------------
(* Steps *)

Goto(r, l) ==
    /\ pc' = [pc EXCEPT ![r] = l]
    /\ UNCHANGED report

Finish(r, exit, claim) ==
    /\ pc' = [pc EXCEPT ![r] = "over"]
    /\ report' = [report EXCEPT ![r] = [exit |-> exit, claim |-> claim]]

\* A read that fails for good: the API refused it, the credential was rejected,
\* or nothing came back.
ReadFails(r, claim) == \E exit \in {1, 3, 4}: Finish(r, exit, claim)

\* A successful response in hand: wait for the payment, or write it.
AfterResponse(r) == IF plan[r].wait # "none" THEN "look" ELSE "settle"

\* Request::read, check_invoice_flags and the secret-destination check refuse the
\* invocation; without --execute a change is only described.
Start(r) ==
    /\ pc[r] = "start"
    /\ \/ Finish(r, 2, "notsent")
       \/ Mutates(plan[r]) /\ ~plan[r].execute /\ Finish(r, 6, "notsent")
       \/ (Mutates(plan[r]) => plan[r].execute) /\ Goto(r, "authorize")
    /\ UNCHANGED <<local, submitted, journalFiles, post, service>>

Authorize(r) ==
    /\ pc[r] = "authorize"
    /\ \/ \E exit \in {1, 2, 3, 4}: Finish(r, exit, "notsent")
       \/ ~Mutates(plan[r]) /\ Goto(r, "first")
       \/ Verifies(plan[r]) /\ Goto(r, "verify")
       \/ Journals(plan[r]) /\ Goto(r, "check")
    /\ UNCHANGED <<local, submitted, journalFiles, post, service>>

\* Call::read, the first response of `payments get --wait`.
FirstRead(r) ==
    /\ pc[r] = "first"
    /\ LET state == projected[plan[r].id] IN
       \/ ReadFails(r, "notsent") /\ UNCHANGED view
       \/ /\ state = "missing" /\ ~MissingIsPending(plan[r])
          /\ Finish(r, 1, "notsent")
          /\ UNCHANGED view
       \/ /\ state # "missing" \/ MissingIsPending(plan[r])
          /\ view' = [view EXCEPT ![r] = state]
          /\ Goto(r, AfterResponse(r))
    /\ UNCHANGED <<plan, budget, reconciled, submitted, journalFiles, post, service>>

VerifyWalletEnvironment(r) ==
    /\ pc[r] = "verify"
    /\ \/ ReadFails(r, "notsent")
       \/ Finish(r, 2, "notsent")
       \/ Goto(r, "send")
    /\ UNCHANGED <<local, submitted, journalFiles, post, service>>

\* journal: path.exists()
JournalCheck(r) ==
    /\ pc[r] = "check"
    /\ Goto(r, IF disk[plan[r].id] = Absent THEN "create" ELSE "compare")
    /\ UNCHANGED <<local, submitted, journalFiles, post, service>>

\* MUTANT of JournalCompare: a record for another request does not refuse the run.
JournalCompareByIdOnly(r) ==
    /\ pc[r] = "compare"
    /\ IF disk[plan[r].id] # Torn THEN Goto(r, "send") ELSE Finish(r, 2, "notsent")
    /\ UNCHANGED <<local, submitted, journalFiles, post, service>>

\* MUTANT of JournalCompare: a record that does not parse counts as the same request.
JournalCompareLenient(r) ==
    /\ pc[r] = "compare"
    /\ IF disk[plan[r].id] \in {Torn, plan[r].request}
         THEN Goto(r, "send")
         ELSE Finish(r, 2, "notsent")
    /\ UNCHANGED <<local, submitted, journalFiles, post, service>>

\* A record that does not parse, or that describes another request, refuses the run.
JournalCompare(r) ==
    /\ pc[r] = "compare"
    /\ IF disk[plan[r].id] = plan[r].request
         THEN Goto(r, "send")
         ELSE Finish(r, 2, "notsent")
    /\ UNCHANGED <<local, submitted, journalFiles, post, service>>

\* new_private: O_EXCL, so the loser of a race is refused.
JournalCreate(r) ==
    /\ pc[r] = "create"
    /\ \/ /\ disk[plan[r].id] = Absent
          /\ disk' = [disk EXCEPT ![plan[r].id] = Torn]
          /\ Goto(r, "write")
       \/ Finish(r, 2, "notsent") /\ UNCHANGED disk
    /\ UNCHANGED <<local, submitted, durable, post, service>>

\* MUTANT of JournalWrite: the journal is best effort.
JournalWriteBestEffort(r) ==
    /\ pc[r] = "write"
    /\ \/ disk' = [disk EXCEPT ![plan[r].id] = plan[r].request]
       \/ UNCHANGED disk
    /\ Goto(r, "sync")
    /\ UNCHANGED <<local, submitted, durable, post, service>>

\* write_all; a failure leaves what was written.
JournalWrite(r) ==
    /\ pc[r] = "write"
    /\ \/ /\ disk' = [disk EXCEPT ![plan[r].id] = plan[r].request]
          /\ Goto(r, "sync")
       \/ Finish(r, 4, "notsent") /\ UNCHANGED disk
    /\ UNCHANGED <<local, submitted, durable, post, service>>

\* sync_all of the file; the directory that names it is not synced.
JournalSync(r) ==
    /\ pc[r] = "sync"
    /\ \/ durable' = durable \cup {plan[r].id} /\ Goto(r, "send")
       \/ Finish(r, 4, "notsent") /\ UNCHANGED durable
    /\ UNCHANGED <<local, submitted, disk, post, service>>

\* MUTANT of Send: the write is not recorded before the request leaves.
SendUnrecorded(r) ==
    /\ pc[r] = "send"
    /\ post' = [post EXCEPT ![r] = "transit"]
    /\ Goto(r, "posting")
    /\ UNCHANGED <<local, submitted, journalFiles, service>>

\* SubmissionState::record and the first poll of the request: nothing awaits between.
Send(r) ==
    /\ pc[r] = "send"
    /\ submitted' = submitted \cup {r}
    /\ post' = [post EXCEPT ![r] = "transit"]
    /\ Goto(r, "posting")
    /\ UNCHANGED <<local, journalFiles, service>>

\* The 2xx answer to a submission carries no payment yet.
AnswerAccepted(r) ==
    /\ post[r] = "accepted"
    /\ view' = [view EXCEPT ![r] = "missing"]
    /\ Goto(r, AfterResponse(r))

\* A 4xx, or a 5xx that says nothing of what became of the request.
AnswerRefused(r) ==
    /\ post[r] = "rejected" \/ Outages
    /\ \E exit \in {1, 3}: Finish(r, exit, "rejected")
    /\ UNCHANGED view

\* MUTANT of AnswerLost: a response that is not JSON is an API error like any other.
AnswerLostAsRefused(r) ==
    /\ Finish(r, 1, "rejected")
    /\ UNCHANGED view

\* No response within the limit, a closed connection, a body cut short or not JSON.
AnswerLost(r) ==
    /\ IF Reconciles(plan[r]) THEN Goto(r, "reconcile") ELSE Finish(r, 4, "unknown")
    /\ UNCHANGED view

Answer(r) ==
    /\ pc[r] = "posting"
    /\ AnswerAccepted(r) \/ AnswerRefused(r) \/ AnswerLost(r)
    /\ \E left \in 0..budget[r]: budget' = [budget EXCEPT ![r] = left]
    /\ UNCHANGED <<plan, reconciled, submitted, journalFiles, post, service>>

\* MUTANT of ReconcilePayment: the ID in the response is not compared.
ReconcileAnyAnswer(r) ==
    /\ pc[r] = "reconcile"
    /\ view' = [view EXCEPT ![r] = projected[plan[r].id]]
    /\ reconciled' = [reconciled EXCEPT ![r] = TRUE]
    /\ Goto(r, AfterResponse(r))
    /\ UNCHANGED <<plan, budget, submitted, journalFiles, post, service>>

\* MUTANT of ReconcilePayment: a payment that is not visible is submitted again.
ReconcileResubmits(r) ==
    /\ pc[r] = "reconcile"
    /\ IF projected[plan[r].id] # "missing"
         THEN Goto(r, AfterResponse(r)) /\ UNCHANGED post
         ELSE Goto(r, "posting") /\ post' = [post EXCEPT ![r] = "transit"]
    /\ UNCHANGED <<local, submitted, journalFiles, service>>

\* reconcile_payment: one read of the ID, never a second submission.
ReconcilePayment(r) ==
    /\ pc[r] = "reconcile"
    /\ \/ /\ projected[plan[r].id] # "missing"
          /\ view' = [view EXCEPT ![r] = projected[plan[r].id]]
          /\ reconciled' = [reconciled EXCEPT ![r] = TRUE]
          /\ Goto(r, AfterResponse(r))
       \/ Finish(r, 4, "unknown") /\ UNCHANGED <<view, reconciled>>
    /\ UNCHANGED <<plan, budget, submitted, journalFiles, post, service>>

\* write_pages of one response; stdout or the output file may fail.
Settle(r) ==
    /\ pc[r] = "settle"
    /\ \/ Finish(r, 0, IF Mutates(plan[r]) THEN "accepted" ELSE "found")
       \/ Finish(r, 4, "broken")
    /\ UNCHANGED <<local, submitted, journalFiles, post, service>>

\* The head of wait_for_payment's loop: report the outcome, give up when the pause
\* would pass the deadline, or pause.  An invoice that cannot be shown ends the wait.
Look(r) ==
    LET progress == Progress(view[r], plan[r].wait) IN
    /\ pc[r] = "look"
    /\ \/ /\ progress = "unsuccessful"
          /\ Finish(r, 1, "failed")
          /\ UNCHANGED budget
       \/ /\ progress \in {"ready", "completed"}
          /\ Finish(r, 0, progress) \/ \E exit \in {2, 4}: Finish(r, exit, "broken")
          /\ UNCHANGED budget
       \/ /\ progress = "pending" /\ view[r] = "receiving"
          /\ \E exit \in {2, 4}: Finish(r, exit, "broken")
          /\ UNCHANGED budget
       \/ /\ progress = "pending"
          /\ \E pause \in 1..MaxPause:
                \/ /\ pause >= budget[r]
                   /\ Finish(r, 5, "pending")
                   /\ UNCHANGED budget
                \/ /\ pause < budget[r]
                   /\ budget' = [budget EXCEPT ![r] = @ - pause]
                   /\ Goto(r, "sleep")
    /\ UNCHANGED <<plan, view, reconciled, submitted, journalFiles, post, service>>

\* MUTANT of Poll: every poll starts the wait over.
PollRestartsDeadline(r) ==
    /\ pc[r] = "sleep"
    /\ Goto(r, "look")
    /\ budget' = [budget EXCEPT ![r] = Timeout]
    /\ UNCHANGED <<plan, view, reconciled, submitted, journalFiles, post, service>>

\* The pause and the read after it.  A 404 keeps the response the run already has.
Poll(r) ==
    /\ pc[r] = "sleep"
    /\ LET state == projected[plan[r].id] IN
       \/ state # "missing" /\ view' = [view EXCEPT ![r] = state] /\ Goto(r, "look")
       \/ state = "missing" /\ Goto(r, "look") /\ UNCHANGED view
       \/ ReadFails(r, "broken") /\ UNCHANGED view
       \/ Finish(r, 5, "pending") /\ UNCHANGED view
    /\ UNCHANGED <<plan, budget, reconciled, submitted, journalFiles, post, service>>

Step(r) ==
    \/ Authorize(r) \/ FirstRead(r) \/ VerifyWalletEnvironment(r)
    \/ JournalCheck(r) \/ JournalCompare(r) \/ JournalCreate(r) \/ JournalWrite(r)
    \/ JournalSync(r) \/ Send(r) \/ Answer(r) \/ ReconcilePayment(r)
    \/ Settle(r) \/ Look(r) \/ Poll(r)

-----------------------------------------------------------------------------
(* Ctrl-C, kills and power *)

\* Where execute awaits, so where the select in startup::run can prefer Ctrl-C.
Awaits == {"start", "authorize", "first", "verify", "posting", "reconcile", "sleep"}

\* SubmissionState::interrupted
Interrupt(r) ==
    /\ pc[r] \in Awaits
    /\ Finish(r, 130, IF r \in submitted THEN "unknown" ELSE "notsent")
    /\ UNCHANGED <<local, submitted, journalFiles, post, service>>

\* SIGKILL, or the second Ctrl-C: no report.
Kill(r) ==
    /\ pc[r] \notin {"start", "over", "dead"}
    /\ pc' = [pc EXCEPT ![r] = "dead"]
    /\ UNCHANGED <<local, report, submitted, journalFiles, post, service>>

\* Every run dies; a file whose directory entry was never synced may be gone, and one
\* whose data was not synced may be torn.
PowerLoss ==
    /\ PowerFails
    /\ pc' = [r \in Runs |-> IF pc[r] \in {"start", "over"} THEN pc[r] ELSE "dead"]
    /\ \E gone \in SUBSET Ids, torn \in SUBSET (Ids \ durable):
        /\ disk' = [id \in Ids |-> CASE id \in gone -> Absent
                                     [] id \in torn /\ disk[id] # Absent -> Torn
                                     [] OTHER -> disk[id]]
        /\ durable' = durable \ gone
    /\ UNCHANGED <<local, report, submitted, post, service>>

-----------------------------------------------------------------------------
(* The service, as the code and its tests use it *)

\* A submission arrives, now or long after its run ended.  An ID names one payment: a
\* second submission of the same request finds it, any other is refused.
Deliver(r) ==
    LET id == plan[r].id
        q == plan[r].request
    IN
    /\ post[r] = "transit"
    /\ \/ /\ post' = [post EXCEPT ![r] = "rejected"]
          /\ UNCHANGED <<held, status>>
       \/ /\ Reconciles(plan[r]) => held[id] = q
          /\ post' = [post EXCEPT ![r] = "accepted"]
          /\ UNCHANGED <<held, status>>
       \/ /\ Reconciles(plan[r]) /\ held[id] = Absent
          /\ post' = [post EXCEPT ![r] = "accepted"]
          /\ held' = [held EXCEPT ![id] = q]
          /\ status' = [status EXCEPT ![id] = "generating"]
    /\ UNCHANGED <<local, pc, report, submitted, journalFiles, projected>>

Advance(id) ==
    /\ \/ status[id] = "generating" /\ \E s \in {"receiving"} \cup Final:
            status' = [status EXCEPT ![id] = s]
       \/ status[id] = "receiving" /\ \E s \in Final:
            status' = [status EXCEPT ![id] = s]
    /\ UNCHANGED <<local, pc, report, submitted, journalFiles, post, held, projected>>

\* Reads lag behind: a submitted payment can be missing from the projection at first.
Project(id) ==
    /\ projected[id] # status[id]
    /\ projected' = [projected EXCEPT ![id] = status[id]]
    /\ UNCHANGED <<local, pc, report, submitted, journalFiles, post, held, status>>

Next ==
    \/ \E r \in Runs: Start(r) \/ Step(r) \/ Interrupt(r) \/ Kill(r) \/ Deliver(r)
    \/ \E id \in Ids: Advance(id) \/ Project(id)
    \/ PowerLoss

\* Every await of a run ends: the HTTP client, the reconciling read and the wait have
\* limits.  Nothing is assumed of the service, of Ctrl-C, or of who starts a run.
Fairness == \A r \in Runs: WF_vars(Step(r))

Spec == Init /\ [][Next]_vars

FairSpec == Spec /\ Fairness

-----------------------------------------------------------------------------
(* Properties *)

Sent(r) == post[r] # "unsent"

\* Over all runs and whatever was killed between two steps, an ID is never sent with two
\* different requests (safety-model.md: the CLI "refuses to reuse an ID with a different
\* request").  It rests on journal's check, its O_EXCL create and its comparison, which
\* other runs interleave.
OneRequestPerId ==
    \A r, s \in Runs:
        /\ Sent(r) /\ Journals(plan[r])
        /\ Sent(s) /\ Journals(plan[s])
        /\ plan[r].id = plan[s].id
        => plan[r].request = plan[s].request

\* A request that carries an ID leaves only after its recovery record can be read back, and
\* the record stays: whoever comes after a crash or an unknown outcome finds it.
RecoveryRecordFirst ==
    \A r \in Runs: Sent(r) /\ Journals(plan[r]) => disk[plan[r].id] = plan[r].request

\* Even when power failures lose or tear records, the step that sends a request finds its
\* record on disk: what another run, a crash or a power failure left is never sent over.
SendsWithRecord ==
    [][\A r \in Runs: Journals(plan[r]) /\ r \in submitted' \ submitted
                        => disk[plan[r].id] = plan[r].request]_vars

\* What a run reports of a payment is true of the service: one it calls accepted, pending,
\* ready, failed or completed exists and is the payment this run asked for, and an
\* unsuccessful or completed one really ended that way, although the response behind the
\* report may be stale, or another run's payment found by ID.
ReportedPaymentExists ==
    \A r \in Runs:
        LET id == plan[r].id
            claim == report[r].claim
        IN
        /\ plan[r].kind = "payment" /\ claim \in {"accepted", "ready", "completed", "failed", "pending"}
            => held[id] = plan[r].request
        /\ claim \in Final => status[id] = claim
        /\ claim = "ready" => status[id] \in {"receiving"} \cup Final

\* A run that says no change was submitted (a usage error, a failed preflight or journal, or
\* Ctrl-C "before any resource change was submitted") has sent nothing, and never will.
UnsentIsReal == \A r \in Runs: report[r].claim = "notsent" => ~Sent(r)

\* A run that says the API rejected its request leaves nothing behind in the service
\* (exit-codes.md: 1 is "The API rejected the request").
RejectedIsReal == \A r \in Runs: report[r].claim = "rejected" => post[r] # "accepted"

\* No step of a run, a reconciliation above all, sends its request a second time.
NeverResubmitted ==
    [][\A r \in Runs: Sent(r) /\ post'[r] # post[r] => post'[r] \in {"accepted", "rejected"}]_vars

\* A run that was started ends, with a report unless it is killed, whatever the service
\* does: the deadline bounds the wait even when every read succeeds.
RunsEnd == \A r \in Runs: pc[r] # "start" ~> pc[r] \in {"over", "dead"}

\* What each ID is bound to: a torn record binds nothing.
Binding == [id \in Ids |-> IF disk[id] = Torn THEN Absent ELSE disk[id]]

\* What left under each ID.
SentUnder == {<<plan[r].id, plan[r].request>> : r \in {s \in Runs : Sent(s) /\ Journals(plan[s])}}

\* The journal and the service implement the ledger of requests: an ID is bound once and
\* before its request leaves, and the service holds only what left under that ID.
Ledger == INSTANCE RequestLedger WITH
    NoRequest <- Absent, bound <- Binding, sent <- SentUnder, held <- held

ImplementsLedger == Ledger!Spec

=============================================================================
