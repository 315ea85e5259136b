------------------------------- MODULE Polling -------------------------------
(***************************************************************************)
(* The three waits that ask a service again and again until a deadline:    *)
(* for a payment to be ready or completed (Call::wait_for_payment), for    *)
(* the projection of a checkout session (await_session_projection), and    *)
(* for the approval of a device login (poll_device_grant), with the pauses *)
(* of src/backoff.rs and the notices of src/timeline.rs.                   *)
(*                                                                         *)
(* Submission models what a wait concludes and Credentials what a login    *)
(* saves; here it is when they ask and when they give up.  Time is a       *)
(* number of ticks that a sleep, an answer or a deadline advances.         *)
(***************************************************************************)
EXTENDS Integers

CONSTANTS
    Waits,          \* the waits of an instance
    FirstPause,     \* READY_POLL_START, COMPLETION_POLL_START, SESSION_POLL_START
    Ceiling,        \* POLL_CEILING
    Hints,          \* values of Retry-After, NoHint among them
    MaxHint,        \* MAX_RETRY_HINT
    Timeout,        \* --timeout
    ReadLimit,      \* balance::READ_LIMIT, for the wallet's network
    NoticeInterval, \* NOTICE_INTERVAL
    MinInterval,    \* MIN_POLL_INTERVAL
    MaxInterval,    \* MAX_POLL_INTERVAL
    MaxLoginWait,   \* MAX_LOGIN_WAIT
    SlowDownStep,   \* SLOW_DOWN_STEP
    Intervals,      \* the intervals a device authorization asks for, NoHint among them
    Lifetimes,      \* its expires_in
    Latency,        \* bound: ticks that an answer takes
    Late            \* bound: ticks by which a sleep overruns

NoHint == -1

Backoffs == {"ready", "completed", "projection"}
Payments == {"ready", "completed"}

ASSUME WaitsAreKnown == Waits \subseteq Backoffs \cup {"login"}
ASSUME PausesArePositive ==
    FirstPause \in [Backoffs -> Nat \ {0}] /\ Ceiling \in Nat \ {0} /\ MaxHint \in Nat
ASSUME HintsAreTicks == Hints \subseteq Nat \cup {NoHint} /\ Intervals \subseteq Nat \cup {NoHint}
ASSUME LoginsArePaced ==
    MinInterval \in Nat \ {0} /\ MaxInterval \in Nat /\ MinInterval <= MaxInterval
    /\ MaxLoginWait \in Nat /\ MaxLoginWait <= MaxInterval
    /\ SlowDownStep \in Nat /\ Lifetimes \subseteq Nat
ASSUME TimesAreNatural ==
    {Timeout, ReadLimit, Late} \subseteq Nat /\ {NoticeInterval, Latency} \subseteq Nat \ {0}

VARIABLES
    wait,       \* what is waited for
    presents,   \* whether the invoice is shown (--qr, --copy)
    terminal,   \* whether stderr is a terminal: one line per change instead of a log
    now, deadline,
    pc,
    step,       \* Backoff's next step
    pause,      \* until the next request
    interval,   \* of a login's polls
    body,       \* the state in the last answer that carried one
    told,       \* Timeline: the last status, and when it was last noticed
    noticedAt,
    shown,      \* the invoice was presented
    result,
    truth,      \* the service: the state of what is waited for
    truthAt,    \*   and since when
    asked,      \* the pause the last answer asked for
    owed,       \* the interval the auth service asked for
    answeredAt, \* when the last answer came
    fresh,      \* whether the last request was answered with a state
    own,        \* pauses taken from Backoff so far
    drawn       \* how often the invoice was presented

given == <<wait, presents, terminal, deadline>>
pacing == <<step, pause, interval, own>>
timeline == <<told, noticedAt>>
invoice == <<shown, drawn>>
service == <<truth, truthAt>>
answers == <<body, asked, owed, answeredAt, fresh>>
vars == <<given, now, pc, pacing, timeline, invoice, result, service, answers>>

States == {"pending", "ready", "done", "failed", "lapsed"}

Final == {"done", "failed", "lapsed"}

\* A payment is pending until its invoice exists, which may expire; a session's projection and
\* a login's approval are pending until they exist or are refused.
Following(state) ==
    CASE state = "ready" -> {"done", "lapsed"}
      [] state = "pending" -> (IF wait \in Payments THEN {"ready", "failed"} ELSE {"done", "failed"})
      [] OTHER -> {}

Lesser(a, b) == IF a < b THEN a ELSE b
Greater(a, b) == IF a > b THEN a ELSE b

TypeOK ==
    /\ wait \in Waits /\ presents \in BOOLEAN /\ terminal \in BOOLEAN
    /\ now \in Nat /\ deadline \in Nat
    /\ pc \in {"look", "sleep", "asked", "ended"}
    /\ step \in 0..Ceiling /\ pause \in Nat /\ interval \in Nat /\ own \in Nat
    /\ {body, truth} \subseteq States /\ told \in States \cup {"none"}
    /\ noticedAt \in Nat \cup {NoHint}
    /\ shown \in BOOLEAN /\ drawn \in 0..2
    /\ result \in {"none", "reached", "unsuccessful", "timeout", "error"}
    /\ truthAt \in Nat /\ asked \in Nat /\ owed \in Nat /\ answeredAt \in Nat
    /\ fresh \in BOOLEAN

-----------------------------------------------------------------------------
(* Pauses *)

\* retry_after: a hint longer than MAX_RETRY_HINT is cut.
RetryAfter(h) == Lesser(h, MaxHint)

\* Backoff::pause: between half the step and the step.
Jittered(s) == {(s \div 2) + jitter : jitter \in 0..(s \div 2)}

Doubled(s) == Lesser(2 * s, Ceiling)

\* A pause of Backoff's own.
OwnPause ==
    /\ pause' \in Jittered(step)
    /\ step' = Doubled(step) /\ own' = own + 1

\* MUTANT of Paced: the back-off advances behind a hint, too.
PacedEagerly(hint) ==
    IF hint = NoHint THEN OwnPause
    ELSE pause' = RetryAfter(hint) /\ step' = Doubled(step) /\ UNCHANGED own

\* The pause after an answer: its hint, else Backoff's own.
Paced(hint) ==
    IF hint = NoHint THEN OwnPause
    ELSE pause' = RetryAfter(hint) /\ UNCHANGED <<step, own>>

-----------------------------------------------------------------------------
(* The start of a wait, with the answer that led to it *)

Clamped(i) == Greater(MinInterval, Lesser(i, MaxInterval))

\* The first pause of a payment's wait ignores the hint of the answer it starts from.
InitPayment(w) ==
    /\ pause \in Jittered(Lesser(FirstPause[w], Ceiling))
    /\ step = Doubled(Lesser(FirstPause[w], Ceiling)) /\ own = 1
    /\ deadline = Timeout /\ interval = 0 /\ asked = 0 /\ owed = 0

\* A session's wait takes it; the answer's pause is decided by the head of the loop.
InitProjection ==
    /\ \E hint \in Hints:
         IF hint = NoHint
         THEN /\ pause \in Jittered(Lesser(FirstPause["projection"], Ceiling))
              /\ step = Doubled(Lesser(FirstPause["projection"], Ceiling)) /\ own = 1 /\ asked = 0
         ELSE /\ pause = RetryAfter(hint) /\ asked = RetryAfter(hint)
              /\ step = Lesser(FirstPause["projection"], Ceiling) /\ own = 0
    /\ deadline = Timeout /\ interval = 0 /\ owed = 0

InitLogin ==
    /\ \E i \in Intervals:
         LET wanted == IF i = NoHint THEN MinInterval ELSE i
         IN  interval = Clamped(wanted) /\ owed = wanted
    /\ \E l \in Lifetimes: deadline = Lesser(l, MaxLoginWait)
    /\ pause = 0 /\ step = 0 /\ own = 0 /\ asked = 0

Init ==
    /\ wait \in Waits
    /\ presents \in (IF wait \in Payments THEN BOOLEAN ELSE {FALSE})
    /\ terminal \in (IF wait \in Payments THEN BOOLEAN ELSE {TRUE})
    /\ CASE wait \in Payments -> InitPayment(wait)
         [] wait = "projection" -> InitProjection
         [] wait = "login" -> InitLogin
    /\ now = 0 /\ pc = "look" /\ result = "none"
    /\ truth = "pending" /\ body = "pending" /\ truthAt = 0
    /\ told = "none" /\ noticedAt = NoHint
    /\ shown = FALSE /\ drawn = 0
    /\ answeredAt = 0 /\ fresh = TRUE

\* What is waited for changes at the service.
Change ==
    /\ pc # "ended"
    /\ truth' \in Following(truth)
    /\ truthAt' = now
    /\ UNCHANGED <<given, now, pc, pacing, timeline, invoice, result, answers>>

-----------------------------------------------------------------------------
(* Timeline *)

\* Timeline::status: on a terminal a line per change, else a notice per change and again when
\* the status has held for a while.
Notice ==
    /\ told' = body
    /\ noticedAt' = IF \/ body # told
                       \/ ~terminal /\ (noticedAt = NoHint \/ now - noticedAt >= NoticeInterval)
                    THEN now ELSE noticedAt

-----------------------------------------------------------------------------
(* The head of each loop *)

Ends(how) == pc' = "ended" /\ result' = how

\* MUTANT of GivesUp: the step is tested, which the pause has doubled already.
GivesUpOnStep(at) == at + Greater(pause, step) >= deadline

\* A pause that does not end before the deadline is not begun.
GivesUp(at) == at + pause >= deadline

PauseOrTimeout(at) ==
    IF GivesUp(at) THEN Ends("timeout") ELSE pc' = "sleep" /\ UNCHANGED result

\* MUTANT of NetworkReads: the wallet's read may outlast the wait.
NetworkReadsAlone == 0..ReadLimit

\* wallet_network: the read that colors a QR code, cut by its limit and by the deadline.
NetworkReads == 0..Lesser(ReadLimit, Greater(0, deadline - now))

\* Presenting the invoice reads the wallet's network first, on a terminal.
Present(d) == drawn' = Lesser(drawn + 1, 2) /\ d \in (IF terminal THEN NetworkReads ELSE {0})

\* MUTANT of Early: the invoice is shown after every answer that has it.
EarlyAgain == presents /\ wait = "completed" /\ body = "ready"

\* Waiting on to settlement needs the invoice now.
Early == presents /\ wait = "completed" /\ ~shown /\ body \in {"ready", "done", "lapsed"}

Reached == body = "done" \/ (wait = "ready" /\ body = "ready")

\* wait_for_payment: notice, invoice, then what the answer says.  A record that cannot be
\* written ends the wait, as does an invoice that cannot be drawn.
LookAtPayment ==
    /\ wait \in Payments /\ pc = "look"
    /\ Notice
    /\ \E d \in 0..ReadLimit:
         /\ now' = now + d
         /\ IF Early THEN Present(d) /\ shown' = TRUE ELSE d = 0 /\ UNCHANGED invoice
         /\ CASE body \in {"failed", "lapsed"} -> Ends("unsuccessful")
              [] Reached -> Ends("reached")
              [] OTHER -> PauseOrTimeout(now')
    /\ UNCHANGED <<given, pacing, service, answers>>

\* The target is reached and the invoice was not shown yet: the record first, then the code.
ShowAtLast ==
    /\ pc = "ended" /\ result = "reached" /\ presents /\ ~shown
    /\ \E d \in 0..ReadLimit: Present(d) /\ now' = now + d
    /\ shown' = TRUE
    /\ UNCHANGED <<given, pc, pacing, timeline, result, service, answers>>

\* await_session_projection: an answer other than 202 ends it.
LookAtProjection ==
    /\ wait = "projection" /\ pc = "look"
    /\ CASE body = "failed" -> Ends("error")
         [] body = "done" -> Ends("reached")
         [] OTHER -> PauseOrTimeout(now)
    /\ UNCHANGED <<given, now, pacing, timeline, invoice, service, answers>>

\* poll_device_grant: one interval is slept before each poll, the first included.
LookAtGrant ==
    /\ wait = "login" /\ pc = "look"
    /\ CASE body = "failed" -> Ends("error") /\ UNCHANGED pause
         [] body = "done" -> Ends("reached") /\ UNCHANGED pause
         [] OTHER -> /\ pause' = interval
                     /\ IF now + interval >= deadline THEN Ends("timeout")
                        ELSE pc' = "sleep" /\ UNCHANGED result
    /\ UNCHANGED <<given, now, step, interval, own, timeline, invoice, service, answers>>

-----------------------------------------------------------------------------
(* The pause, the request and its answer *)

Wake ==
    /\ pc = "sleep"
    /\ \E late \in 0..Late: now' = now + pause + late
    /\ pc' = "asked"
    /\ UNCHANGED <<given, pacing, timeline, invoice, result, service, answers>>

\* An answer in time.
Arrive ==
    /\ pc = "asked"
    /\ \E d \in 1..Latency: now' = now + d /\ now' <= deadline
    /\ answeredAt' = now'
    /\ UNCHANGED <<given, timeline, invoice, service>>

\* The service answers with the state and a hint.
AnswerPayment ==
    /\ wait \in Payments /\ Arrive
    /\ body' = truth /\ fresh' = TRUE
    /\ \E hint \in Hints: Paced(hint) /\ asked' = RetryAfter(Greater(hint, 0))
    /\ pc' = "look" /\ UNCHANGED <<interval, owed, result>>

\* A 404: the read projection has not caught up; a hint with it is not read.
AnswerMissing ==
    /\ wait \in Payments /\ Arrive
    /\ fresh' = FALSE
    /\ OwnPause /\ asked' = 0
    /\ pc' = "look" /\ UNCHANGED <<body, interval, owed, result>>

AnswerProjection ==
    /\ wait = "projection" /\ Arrive
    /\ body' = truth /\ fresh' = TRUE
    /\ IF truth = "pending"
       THEN \E hint \in Hints: Paced(hint) /\ asked' = RetryAfter(Greater(hint, 0))
       ELSE UNCHANGED <<step, pause, own>> /\ asked' = 0
    /\ pc' = "look" /\ UNCHANGED <<interval, owed, result>>

\* slow_down is kept for every later poll.
Slower(slow) == interval' = IF slow THEN interval + SlowDownStep ELSE interval

\* authorization_pending or slow_down, the token, or a refusal.
AnswerGrant ==
    /\ wait = "login" /\ Arrive
    /\ body' = truth /\ fresh' = TRUE
    /\ \E slow \in (IF truth = "pending" THEN BOOLEAN ELSE {FALSE}):
         Slower(slow) /\ owed' = IF slow THEN owed + SlowDownStep ELSE owed
    /\ pc' = "look" /\ UNCHANGED <<step, pause, own, asked, result>>

\* Any other failure of the request ends the wait.
Fail ==
    /\ pc = "asked"
    /\ \E d \in 0..Latency: now' = now + d /\ now' <= Greater(now, deadline)
    /\ Ends("error")
    /\ UNCHANGED <<given, pacing, timeline, invoice, service, answers>>

\* MUTANT of Expire: only a request begun after the deadline is cut.
ExpireBefore ==
    /\ pc = "asked" /\ now >= deadline
    /\ Ends("timeout") /\ fresh' = FALSE
    /\ UNCHANGED <<given, now, pacing, timeline, invoice, service, body, asked, owed, answeredAt>>

\* timeout_at: no answer came before the deadline.
Expire ==
    /\ pc = "asked"
    /\ now' = Greater(now, deadline)
    /\ Ends("timeout") /\ fresh' = FALSE
    /\ UNCHANGED <<given, pacing, timeline, invoice, service, body, asked, owed, answeredAt>>

Look == LookAtPayment \/ LookAtProjection \/ LookAtGrant

Next ==
    \/ Change \/ LookAtPayment \/ ShowAtLast \/ LookAtProjection \/ LookAtGrant \/ Wake
    \/ AnswerPayment \/ AnswerMissing \/ AnswerProjection \/ AnswerGrant \/ Fail \/ Expire

Spec == Init /\ [][Next]_vars

\* The command runs on, its timers fire, and what it does at its head takes a bounded time.
\* No answer is owed.
FairSpec == Spec /\ WF_vars(Look) /\ WF_vars(Wake) /\ WF_vars(Expire)

-----------------------------------------------------------------------------
(* Properties *)

\* A wait that times out although what it waits for has happened did not see it because it
\* happened in the last pause before the deadline (or while the invoice was being drawn), or
\* because the last request brought no state: nothing that was there to be read for longer
\* is reported as still pending.
NothingIsMissed ==
    (result = "timeout" /\ fresh /\ truth \in Final) => truthAt + pause + ReadLimit >= deadline

\* No request is sent sooner after an answer than that answer asked, counting from its arrival:
\* a Retry-After (cut to MAX_RETRY_HINT), or the interval of a device login with every
\* slow_down so far, whatever bounds the CLI puts on it.
HintsAreKept ==
    [][(pc = "sleep" /\ pc' = "asked")
         => now' - answeredAt >= (IF wait = "login" THEN owed ELSE asked)]_vars

\* The steps of Backoff: the first pause, doubled with each pause up to the ceiling.
StepsOf(w) ==
    LET after[n \in Nat] == IF n = 0 THEN Lesser(FirstPause[w], Ceiling) ELSE Doubled(after[n - 1])
    IN  after

\* Hints replace pauses and never move the schedule: the next own pause is as long as the
\* number of own pauses before it says, up to the ceiling, and one that is slept is never under
\* half of that.
ScheduleIsKept ==
    wait \in Backoffs =>
        /\ step = StepsOf(wait)[own]
        /\ (pc = "sleep" /\ own > 0 /\ asked = 0) => pause = 0 \/ 2 * pause >= StepsOf(wait)[own - 1] - 1

\* However its answers come, the wait does not go on after its deadline for longer than one
\* sleep overruns, drawing the invoice included.
EndsInTime == now <= deadline + Late

\* The invoice is presented at most once over all the answers that carry it, stale ones after a
\* 404 included.
InvoiceShownOnce == drawn <= 1

\* A log of the wait is never silent for longer than NOTICE_INTERVAL when a pause begins, even
\* when answers repeat an old state.
LogIsAlive ==
    (wait \in Payments /\ ~terminal /\ pc = "sleep") => now - noticedAt < NoticeInterval

\* A wait ends, though answers may never come.
WaitEnds == <>(pc = "ended")

\* What a wait shows is what happens: an invoice once, and a log that is never silent for long.
ProgressIsTold == InvoiceShownOnce /\ LogIsAlive

=============================================================================
