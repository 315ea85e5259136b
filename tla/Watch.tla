-------------------------------- MODULE Watch --------------------------------
(***************************************************************************)
(* `voltage payments list --watch` (src/api.rs, src/watch.rs,              *)
(* src/backoff.rs): reads the first page of the most recently updated      *)
(* payments again and again, reports what is new or changed, retries a     *)
(* read the server could not serve, and resolves a rejected credential     *)
(* once, until it is stopped.                                              *)
(*                                                                         *)
(* Simplifications.  A payment's state (its status and updated_at) is the  *)
(* time of its last change, and no two changes have the same time.  The    *)
(* service takes the page it answers with when its answer arrives.  How a  *)
(* credential is resolved is Credentials; here it succeeds or fails.       *)
(***************************************************************************)
EXTENDS Integers, FiniteSets

CONSTANTS
    Watched,       \* payments that match the watch's filters
    PageSize,      \* --limit, or the API's default
    Interval,      \* --interval
    WatchCeiling,  \* BACKOFF_CEILING
    WatchHints,    \* values of Retry-After
    MaxClock,      \* bound: changes of payments
    MaxFails,      \* bound: failed reads in a row that came without Retry-After
    MaxLapses      \* bound: organization tokens that expire between two successful reads

ASSUME PaymentsAreFinite == IsFiniteSet(Watched)
ASSUME PageHoldsRows == PageSize \in Nat \ {0}
ASSUME PausesAreNatural ==
    Interval \in Nat \ {0} /\ WatchCeiling \in Nat \ {0} /\ WatchHints \subseteq Nat
ASSUME BoundsAreNatural == MaxClock \in Nat /\ MaxFails \in Nat /\ MaxLapses \in Nat

VARIABLES
    stage,          \* where the watch stands: it reads first, then waits between reads
    seen,           \* Seen: the last state of each payment, 0 for one not seen
    page,           \* the last page: payments with their states
    delay,          \* until the next read
    backoff,        \* Backoff's next step
    reauthorized,   \* the credential was resolved again since the last successful read
    ending,         \* how the watch ended
    clock, changed, created,    \* the service: when each payment was last changed and made
    accepted,       \* whether the service accepts the token
    revoked,        \* whether the credential behind it is gone
    event,          \* what the last step wrote
    written,        \* the last state of each payment that was written
    readAt,         \* the time of the last successful read
    fails, lapses   \* failures without Retry-After, and tokens expired, since then

watch == <<stage, seen, page, delay, backoff, reauthorized, ending>>
payments == <<clock, changed, created>>
credential == <<accepted, revoked, lapses>>
history == <<event, written, readAt, fails>>
watchVars == <<watch, payments, credential, history>>

Times == 0..MaxClock

Changes == {"snapshot", "new", "updated"}

Smaller(a, b) == IF a < b THEN a ELSE b

FirstStep == Smaller(Interval, WatchCeiling)

WatchTypeOK ==
    /\ stage \in {"start", "wait", "resolve", "ended"}
    /\ seen \in [Watched -> Times]
    /\ \E rows \in SUBSET Watched: page \in [rows -> Times]
    /\ delay \in Nat /\ backoff \in 1..WatchCeiling
    /\ reauthorized \in BOOLEAN
    /\ ending \in {"none", "stopped", "output", "error", "credential", "rejected"}
    /\ clock \in Times /\ changed \in [Watched -> Times] /\ created \in [Watched -> Times]
    /\ accepted \in BOOLEAN /\ revoked \in BOOLEAN
    /\ event \subseteq [id: Watched, state: Times, change: Changes, since: Times]
    /\ written \in [Watched -> Times] /\ readAt \in Times
    /\ fails \in 0..MaxFails /\ lapses \in 0..MaxLapses

\* Payments made in some order before the watch starts.
WatchInit ==
    /\ stage = "start"
    /\ seen = [p \in Watched |-> 0]
    /\ page = [p \in {} |-> 0]
    /\ delay = 0 /\ backoff = FirstStep /\ reauthorized = FALSE
    /\ ending = "none"
    /\ clock = 0
    /\ changed = [p \in Watched |-> 0]
    /\ created = [p \in Watched |-> 0]
    /\ accepted = TRUE /\ revoked = FALSE
    /\ event = {}
    /\ written = [p \in Watched |-> 0]
    /\ readAt = 0
    /\ fails = 0 /\ lapses = 0

-----------------------------------------------------------------------------
(* The service *)

\* MUTANT of Listed: the page is in order of creation.
ListedByCreation ==
    {p \in Watched : changed[p] > 0 /\ Cardinality({q \in Watched : created[q] > created[p]}) < PageSize}

\* The first page, most recently updated first (follow_updates).
Listed ==
    {p \in Watched : changed[p] > 0 /\ Cardinality({q \in Watched : changed[q] > changed[p]}) < PageSize}

Page == [p \in Listed |-> changed[p]]

\* A payment is made, or changes.
ChangePayment(p) ==
    /\ clock < MaxClock
    /\ clock' = clock + 1
    /\ changed' = [changed EXCEPT ![p] = clock']
    /\ created' = IF created[p] = 0 THEN [created EXCEPT ![p] = clock'] ELSE created
    /\ event' = {}
    /\ UNCHANGED <<watch, credential, written, readAt, fails>>

\* The organization token expires, or the credential is revoked with it.
Lapse ==
    /\ accepted /\ lapses < MaxLapses
    /\ accepted' = FALSE /\ lapses' = lapses + 1
    /\ revoked' \in {revoked, TRUE}
    /\ event' = {}
    /\ UNCHANGED <<watch, payments, written, readAt, fails>>

-----------------------------------------------------------------------------
(* The watch *)

\* MUTANT of Known: only payments that were not seen are remembered.
KnownOnce(rows) ==
    [p \in Watched |-> IF p \in DOMAIN rows /\ seen[p] = 0 THEN rows[p] ELSE seen[p]]

\* The states that Seen remembers after a page.
Known(rows) ==
    [p \in Watched |-> IF p \in DOMAIN rows THEN rows[p] ELSE seen[p]]

\* Seen::update: what the page changes.
Updates(rows) ==
    {[id |-> p, state |-> rows[p], since |-> readAt,
      change |-> CASE stage = "start" -> "snapshot"
                   [] stage # "start" /\ seen[p] = 0 -> "new"
                   [] OTHER -> "updated"] :
        p \in {q \in DOMAIN rows : stage = "start" \/ seen[q] # rows[q]}}

Write(events) ==
    /\ event' = events
    /\ written' = [p \in Watched |->
                  IF \E e \in events: e.id = p THEN (CHOOSE e \in events: e.id = p).state
                  ELSE written[p]]

End(how) == stage' = "ended" /\ ending' = how

\* The head of the loop, after each read, failed ones included: what the last page changes
\* is written, newest first, and the watch pauses; a failed write ends it.
Report(rows) ==
    /\ page' = rows
    /\ seen' = Known(rows)
    /\ \/ /\ Write(Updates(rows))
          /\ stage' = "wait" /\ UNCHANGED ending
       \/ /\ \E t \in Times: Write({e \in Updates(rows) : e.state > t})
          /\ End("output")

\* A successful read: the pause is its Retry-After, or the interval.
Read ==
    /\ accepted
    /\ delay' \in WatchHints \cup {Interval}
    /\ backoff' = FirstStep /\ fails' = 0
    /\ reauthorized' = FALSE
    /\ lapses' = 0
    /\ readAt' = clock
    /\ Report(Page)
    /\ UNCHANGED <<payments, accepted, revoked>>

Begin == stage = "start" /\ Read

\* MUTANT of Refresh: a re-authorization is remembered after a success.
RefreshRemembers ==
    /\ stage = "wait" /\ accepted
    /\ delay' \in WatchHints \cup {Interval}
    /\ backoff' = FirstStep /\ fails' = 0
    /\ lapses' = 0
    /\ readAt' = clock
    /\ Report(Page)
    /\ UNCHANGED <<payments, accepted, revoked, reauthorized>>

Refresh == stage = "wait" /\ Read

\* The first 401 since a successful read.
Reject ==
    /\ stage = "wait" /\ ~accepted /\ ~reauthorized
    /\ stage' = "resolve"
    /\ event' = {}
    /\ UNCHANGED <<seen, page, delay, backoff, reauthorized, ending, payments, credential, written,
                   readAt, fails>>

\* Authorization::resolve, and another read at once.  An API key resolves to itself.
Reauthorize ==
    /\ stage = "resolve"
    /\ accepted' = ~revoked
    /\ reauthorized' = TRUE
    /\ delay' = 0
    /\ Report(page)
    /\ UNCHANGED <<backoff, payments, revoked, lapses, readAt, fails>>

\* A transport failure, a 429 or a 5xx: the read is retried after its Retry-After, or after
\* Backoff::pause; the loop reports the last page again.
FailRead ==
    /\ stage = "wait"
    /\ \/ delay' \in WatchHints /\ UNCHANGED <<backoff, fails>>
       \/ /\ fails < MaxFails
          /\ \E jitter \in 0..(backoff \div 2): delay' = (backoff \div 2) + jitter
          /\ backoff' = Smaller(2 * backoff, WatchCeiling)
          /\ fails' = fails + 1
    /\ Report(page)
    /\ UNCHANGED <<reauthorized, payments, credential, readAt>>

\* A second 401, a resolution that fails, or any other error ends the watch, and so does
\* Ctrl-C where it awaits.
Finish ==
    /\ \/ stage = "wait" /\ ~accepted /\ reauthorized /\ End("rejected")
       \/ stage = "resolve" /\ End("credential")
       \/ stage = "wait" /\ End("error")
       \/ stage \in {"wait", "resolve"} /\ End("stopped")
    /\ event' = {}
    /\ UNCHANGED <<seen, page, delay, backoff, reauthorized, payments, credential, written, readAt,
                   fails>>

WatchNext ==
    \/ Begin \/ Refresh \/ Reject \/ Reauthorize \/ FailRead \/ Finish
    \/ Lapse \/ \E p \in Watched: ChangePayment(p)

WatchSpec == WatchInit /\ [][WatchNext]_watchVars

-----------------------------------------------------------------------------
(* Properties *)

\* No state of a payment is written twice or after a later one, although the loop goes over
\* the last page again after every failure and re-authorization (Seen::update).
ReportedOnce == [][\A e \in event': e.state > written[e.id]]_watchVars

\* A refresh writes every change since the one before it, unless there are more of them
\* than one page holds (guides/payments.md, Watch payments), whatever failed in between.
MissesOnlyOverflow ==
    [][stage # "start" /\ readAt' # readAt /\ stage' # "ended" =>
        \A p \in Watched: changed[p] > readAt =>
            written'[p] = changed[p] \/ Cardinality({q \in Watched : changed[q] > readAt}) > PageSize]_watchVars

\* A watch that ends on a rejected credential lost it for good, or lost two tokens between
\* two successful reads: one expiry is always survived.
RejectedTwice == ending = "rejected" => revoked \/ lapses >= 2

=============================================================================
