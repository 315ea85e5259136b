# Verification of the voltage CLI

TLA+ specifications of `voltage`, a command-line client for payments written in Rust
(`src/src/*.rs`), with TLC configurations that check them on small instances and TLAPS
proofs for every value of their constants. The definitions are translated from the source;
`PROJECT.json` maps each one to its lines.

## The system

One process runs one command. There is no daemon: processes interact only through the
configuration directory (`config.toml`, `credentials.lock`, secrets, `requests/`), the
operating system's keychain, the terminal, and three services: the payments API, the auth
service and a price service.

| Part | State it keeps | Operations | Hard behaviours |
| --- | --- | --- | --- |
| Command line (`cli.rs`, `style.rs`, `greeting.rs`) | none | clap's levels and conflicts, the searches for `--json` and a colour before it, the greeting | four readers go over the same words and must agree; a flag may stand before or behind the command |
| Preparation (`startup.rs`, `context.rs`, `input.rs`, `pick.rs`, `wallet_shortlist.rs`, `wallet_currency.rs`, `dry_run.rs`) | the scope in use, the request under construction | open the settings, select, ask, fill in, reserve the output file, build, describe or send | precedence of flags, profiles and variables; what is asked for before what; reads that precede a check |
| Amounts, prices, balances (`payment.rs`, `price.rs`, `balance.rs`) | none | parse, convert, round, sum | overflow, rounding |
| Submission (`api.rs`) | the request, `SubmissionState`, the deadline; on disk one recovery record per resource ID | describe, authorize, verify the environment, journal, send, reconcile, wait, report | a lost answer to a request that took effect; runs racing for one ID; Ctrl-C and kills; a stale read projection; power loss |
| Recovery journal (`api.rs`, `config.rs`) | `requests/<id>.json` | check, compare, create exclusively, write, sync | check-then-create between processes; a torn record |
| Credentials (`auth.rs`) | the login in hand, the session change under way | resolve, refresh, exchange, login, logout, import | single-use refresh tokens shared by processes; sessions the service knows and the disk does not |
| Settings (`config.rs`) | the configuration as read, the secrets read so far, the lock | open, lock, reload, save, put_account and its restore, create_profile | configuration and secret are two writes, in up to three places, each of which may fail after it took effect |
| Waits (`api.rs`, `auth.rs`, `backoff.rs`, `timeline.rs`) | pause, step, deadline, what was told | for a payment, a checkout session, a device login | hints against own pauses against the deadline; an invoice drawn while time runs |
| Watch (`watch.rs`, `api.rs`) | what was seen, failures, one re-authorization | read, report, back off, resolve again | runs for days beside other commands; state read once at the start |
| Pagination (`api.rs`) | the request of the next page | next_page, write_pages | loops, repeated cursors, a list that changes |
| All organizations (`all_orgs.rs`) | results per organization | list, exchange and read side by side, merge | answers in any order, partial failure |
| Event stream (`api.rs`) | the bytes of a line, the lines of an event | receive, assemble, write | chunks that end anywhere, bounds |
| Terminal and output (`terminal.rs`, `progress.rs`, `output.rs`, `output/human.rs`) | raw mode, the alternate screen, the status line, a detached reader of keys, the output file | prompt, redraw, write, report | a thread that reads keys beside the runtime; Ctrl-C between any two steps; a closed pipe |
| Errors and secrets (`error.rs`, `secret.rs`) | none | classify, hint, redact, exit code | what a person is told to do next after a change got no answer |
| Issue reports (`feedback.rs`) | none | outline, scrub, cut, link | a public text built from private words |

What makes each part correct is the list of `hazards` in `PROJECT.json`, each at its line
with the property that would catch it.

## Modules

| Module | Models |
| --- | --- |
| `RequestLedger` | what the journal promises, without processes, files or a network: an ID is bound to one request before that request may leave, and the service holds only what left |
| `Submission` | the life of a submitted change, for several runs, a journal and a service; implements `RequestLedger` |
| `Credentials` | the saved credential of one account name: every command that uses, refreshes, saves, replaces or removes it, for several processes, the lock, the configuration, two secret stores and the auth service |
| `Watch` | `payments list --watch`: what was seen, what is written, retries, back-off and re-authorization, beside payments that change and tokens that expire |
| `Pagination` | `--all`: the next request computed from each page, beside a list that changes, and against a service that answers anything |
| `Polling` | the three waits that ask again until a deadline, in ticks: pauses, hints, the drawing of an invoice, the notices of a log |
| `AllOrganizations` | `wallets list --all-orgs`: the list, the reads side by side, the merge and the report of what failed |
| `Absence`, `Selection`, `Amounts`, `Requests`, `Shortlist` | the pure parts of preparation: what flags, variables and settings select; money; the request of a command; the wallets an invoice could be paid from |
| `Preparation` | one command from its flags to the request that is sent or described; composes the five above |
| `Reports`, `EventStream`, `Terminal`, `Rendering` | what an error says; how chunks become events; what is done to a terminal; how a result reads |
| `Console` | one command at a terminal, from its first wait to its exit code; composes the four above and `Amounts` |
| `CommandTree`, `Feedback` | the commands with their options; the issue report |
| `CommandLine` | a line of words, its four readers, and what the process makes of it; composes the two above |
| `MC*` | the instances for TLC |
| `Folding` | lemmas on folds, recursive functions and flattened sequences, for any step of the recursion |
| `SubmissionProofs`, `CredentialsProofs`, `WaitingProofs`, `ListingProofs`, `PreparationProofs`, `ConsoleProofs`, `CommandLineProofs` | the theorems; `WaitingProofs` has those of `Polling` and `Watch`, `ListingProofs` those of `AllOrganizations` and `Pagination` |

The stateful modules share no variables. In the order of a command's life, `CommandLine`
ends where it is known what runs; `Preparation` takes that command to its request;
`Credentials` supplies the token; `Submission` sends a change, `Pagination` and
`AllOrganizations` list, `Watch` and `Polling` wait; `Console` shows the result. Where one
needs another it takes its outcome as a choice: a read of `Submission` may be rejected,
`Watch` may or may not get a new token, a picker of `Preparation` may answer anything the
service listed or be interrupted.

### Submission

`plan[r]` is the command of run `r`; `pc[r]` is where `execute` stands between two awaits or
two file operations; `disk` is `requests/`; `submitted` is the set of runs whose
`SubmissionState` holds a write; `post`, `held`, `status` and `projected` are the service.
A request is what the journal compares (operation, scope, body hash), so it is one model
value. Each file operation of `journal` is an action, because another run or a kill can come
between any two. `Send` is one action for the record and the departure of the request:
nothing awaits in between. An answer can be the service's, lost in any way that
`Error::no_response` covers (`AnswerLost`), or a gateway's (`AnswerRefused` with `Outages`).
Time is the ticks left until `--timeout`; when a wait asks is `Polling`'s.

### Credentials

`run[p]` is the local state of a process: the configuration it read (`mem`), the one secret
it caches, the login it works with, the account and login it replaces, and the session
change that `SubmissionState` would report. A secret is a session and the number of its
refresh token. Every write of a secret or of `config.toml` may fail before or after it took
effect, every read of a secret may fail. `wire[p]` is the last request of `p` that changes a
session; `Serve` serves it whenever it arrives, also after `p` gave up or ended. `told`,
`unsaid` and `leftover` are history: the first and the last what a warning, a hint, an
interruption's report or an error named, what `logout --local` was asked to leave behind, and
what a killed process was changing; `unsaid` the sessions of watches that Ctrl-C stopped in
their refresh, of which the CLI says nothing.

Left out: the organization and environment an API key is bound to, `VOLTAGE_API_KEY` (both
are in `Selection`), the profile offer after a login, and the intervals of the device grant
(in `Polling`).

### Watch

`seen` is `Seen`, `page` the last page that was read, `delay` and `backoff` the next sleep and
`Backoff`'s next step, `reauthorized` the flag of `Call::watch`, `stage` where the loop stands
and `ending` how it ended. The loop of `Call::watch`
first reports the page in hand and then sleeps and reads. An action is one turn of it, from
the answer to the next sleep: nothing awaits in between, so a read, what it writes and the
pause it chooses are one step. A failed read and a re-authorization go over the old page
again; that they write nothing is a property (`ReportedOnce`), not part of the action. A
failing output may cut the events of a page short and ends the watch. The state of a payment
is the time of its last change. `written`, `readAt`, `fails` and `lapses` are history.

### Pagination

`cursor` and `offset` are the query's parameters, `turns` is the set `cursors` of parameters
already asked for, `begun` and `owed` say whether a page was read and whether one that was
read is unwritten. `Turned` is one turn of `write_pages`: the answer, `next_page`, the write
or the collection of the page, the check for progress and the next query, since nothing
awaits in between. The service is external. By cursor and by offset it serves the list as it
is when it answers, while items are created and removed between pages; `any` answers with
any page of a set that contains repeated, missing and empty cursors, offsets that stand
still and one that overflows. `listed`, `throughout`, `added` and `removed` are history.

### Polling

`wait` is one of four: for a payment to be ready or completed (`wait_for_payment`), for the
projection of a checkout session (`await_session_projection`), for a device login
(`poll_device_grant`). `LookAtPayment`, `LookAtProjection` and `LookAtGrant` are what each of them does with the answer in hand, in the order
of the code: report, draw the invoice, end, or pause, if the pause fits before the deadline.
`Wake` sleeps and asks; the `Answer` actions, `Fail` and `Expire` are what may come of it. Time
is `now`, which a sleep advances by its pause and at most `Late`, an answer by at most
`Latency`, the drawing of an invoice by at most `ReadLimit`. The jitter of `Backoff` is any
value between half the step and the step; a `Retry-After` is cut to `MAX_RETRY_HINT` and
replaces one pause without touching the step. `truth` is the service's state, `asked`,
`owed`, `answeredAt`, `fresh`, `own` and `drawn` are history.

### AllOrganizations

`task[i]` is where the read of the `i`-th organization is, `outcome[i]` what it ended with;
`results` is what `buffered` handed over so far, always in the order of the organizations, so
a read is begun only when fewer than `CONCURRENCY` lie between it and the last that was taken.
The login may be revoked at any moment (`Revoke`), after which every exchange fails alike;
Ctrl-C drops all reads. The merge, the write and what is said of failures are one action
(`Write`, or `EveryFailed`), as nothing awaits between them.

### Preparation

`given` is a command: its flags, variables, saved settings, the operation, its body and the
terminal's presence. Each await of `Session` and `execute` is an action: pick an organization
or an environment, ask for a wallet, read the shortlist, read the wallet for its currency,
reserve the output file, build, describe or send. `scope` is what is in use after flags,
profile, variables and pickers; `contacts` records each use of the credential, with what key
or name, where, and for which organization; `questions` what a person was asked. The pure
modules are operators: `Selection` (`ScopeSources`, `AccountChoice`, `ignored_variables`,
`context`), `Requests` (checks, bodies, path, query), `Amounts` (a decimal is its whole part
and its digits, the scales are constants so that the instance can be small), `Shortlist`.
Text that is only well formed or not (a UUID, a date, JSON) is a model value.

### Console

`task` is what the command has to do and what the services and the person at the terminal
do. `screen`, `status` and `reader` are the terminal's modes, the status line with the task
that redraws it, and the thread that reads keys, which outlives the prompt it was made for
when Ctrl-C ends that. `due`, `stdout`, `pipe` and `file` are what is still to be written and
where. A chunk of a stream is one to `MaxChunk` pieces of its text, so that chunks end inside
names, values and lines. `late` says that the reader turns raw mode on itself, after the
prompt has already been abandoned. How a result reads is computed when it is written
(`Rendering`), a cell being its width in columns and a number its digits.

### CommandLine

A line is a sequence of words, each an option, an option with its value, a bare word, a word
that only starts with `-`, or `--`. `Matches` is what clap makes of it: the command, the
options of each level with conflicts and requirements as `cli.rs` declares them, or the first
error; clap itself is external and modelled from those declarations. `JsonErrorsRequested`,
`Requested` (of a colour) and `Outline` are the CLI's own searches over the same words. `Type`
adds a word; `Greet`, `Explain`, `Reject`, `Invoke`, `File` and `Panic` are what becomes of the
line in a place (which of its streams are terminals, what the environment says of colour). In
an issue report the heading of the checks is one character and what stands below it another, so
that a text can quote the heading and a report can be cut to the checks alone. The registry's table is a constant with ten operations, one for
each way a command takes its target, its body and its filters.

## Runs

| Run | Instance | Shows |
| --- | --- | --- |
| `submission_safety` | 2 runs, 1 ID, 2 requests, 10 commands, timeout 2, gateway errors | reports are true of the service, a run that claims to have sent nothing sent nothing, an ID leaves with one request and a readable record, nothing is sent twice, the ledger is implemented |
| `submission_ends` | 2 runs, 2 requests, waits, power failures that remove or tear records, no gateway errors, fairness | every started run ends; no request leaves without its record on disk; a reported rejection left nothing behind |
| `credentials_safety` | 2 processes, 8 commands, one refresh per session | `RefreshIsExclusive`, `NoSilentOrphan`, `LogoutRevokes` (both but for a watch stopped in its refresh), `SecretsReachable`, `NoLostUpdate`, `FailedSaveRestores` |
| `credentials_lock` | 2 processes that refresh and log out, fairness | the lock is always released |
| `credentials_origin` | 3 processes: a watch, a logout, a login at another auth URL | the finding below |
| `watch_safety` | 3 payments, a page of 1, 5 changes, 3 failures and 2 expiries in a row | nothing is reported twice, a change is missed only when a page overflows, one expiry is survived |
| `pagination_safety` | 5 items, 2 to a page, by cursor, by offset and by deprecated offset; a service that answers with any of its pages (`MCAnything`) in any order; fairness | what was in the list all the time is listed, once; no well-behaved service is given up; a service of finitely many cursors and offsets cannot keep a listing going |
| `polling` | 4 waits, 12 ticks, hints of 0, 1, 5 and 20, answers after up to 2 ticks, sleeps late by up to 1, fairness | a wait misses nothing that was there to be read, keeps the schedule of its own pauses, ends in time and ends at all, draws an invoice once and keeps a log alive |
| `all_orgs` | up to 4 entries of 3 organizations, 2 at a time, 3 failures, fairness | one order, no silent gap, one exit code, and an end |
| `preparation` | 6874 command lines over four saved settings, every answer of a picker and of the services | `ScopeIsRight`, `RequestIsRight`, `NothingTooSoon` |
| `console` | 3466 tasks: calls, streams, prompts, watches, and results to show, fairness | `TerminalIsKept`, `StoryIsTrue`, `ViewIsHonest`, and that an interrupted command ends |
| `command_line` | every line of up to 4 words from nine keyboards, four places | `WordsAreReadAlike`, `ContradictionsAreRefused`, `ReportIsSafe` |

Some of these properties are conjunctions of statements that each have a definition and a
comment of their own. `ScopeIsRight`, `RequestIsRight` and `NothingTooSoon` (`Preparation`),
`TerminalIsKept`, `StoryIsTrue` and `ViewIsHonest` (`Console`), `WordsAreReadAlike`,
`ContradictionsAreRefused` and `ReportIsSafe` (`CommandLine`), `ProgressIsTold` (`Polling`) and
`FailuresAreTold` (`AllOrganizations`) gather the parts that one question of the system is made
of. In `Preparation`, `Console` and `CommandLine` the type invariant is the first conjunct; in
the other modules it is proved (`TypeCorrect`) and not checked again.

### Bounds

The conflicts in the journal are between two requests for one ID; IDs share nothing, so one is
enough, and a third run adds no conflict that two do not have: the proofs below hold for any
number. A timeout of 2 with pauses of 1 or 2 gives a wait that polls, one that ends at the
deadline and one whose first pause is already too long. Two processes reach every conflict of
two commands on a name; the finding about origins needs three. One refresh for each session is
enough for a second process to find the token it read spent. A watched page of one payment
overflows as soon as two change, and three payments let one come back that was pushed off
before it was seen; an interval of 2 under a ceiling of 5 doubles once and is then cut. Five
items and pages of two make three pages, the last one short, and an even list ends on a full
page; an offset of 5 is the largest of the service that answers anything, so that its sums
overflow.

`Polling`: in 12 ticks, pauses that start at 1 or 2 and double to a ceiling of 4 reach the
ceiling and are then cut by the deadline; a hint of 5 is longer than any own pause, one of 20 is
cut to the longest allowed (7) and one of 0 asks at once; the intervals of a login lie under,
within and over what the CLI accepts. `AllOrganizations`: with two reads at a time, a third
organization waits; the entries hold none, one without an ID, every order, and one organization
twice; of the three failures one is shared by kind only and one is the revoked login's.
`Preparation`: each family of command lines varies the flags, variables and settings that one
part reads together, and keeps the rest plain; decimals have up to three digits and the scales
are 1, 10 and 1000, so that an amount can be exact, inexact, zero and too large; products are
bounded (`MaxProduct`) so that prices overflow the checked ones, wrap the unchecked one and, at
one price, leave a divisor of zero; bodies of `--data` have names the contract does not know, at
two depths. `Console`:
chunks of up to 2 pieces of lines of up to 4, events of up to 2 data lines, secrets of 2 bytes
with characters of 1 and 2, tables of 3 columns on widths from 6 to 40. `CommandLine`: each
keyboard holds the words that can disagree with each other; four words are a command of two, a
flag and its value.

Deadlock is not checked: every process ends.

### Fairness

`Submission` and `Credentials` assume weak fairness of each process's own steps, which the
code's limits justify (request timeouts in `Api` and `AuthService`, `LOCK_TIMEOUT`, the deadline
of the wait): each await has a branch that does not depend on the other side. Nothing is assumed
of a service, of Ctrl-C, or of the start of a run. `Pagination`'s `PagingFairSpec` asks only that a
request which was sent is answered or fails, which the request timeout ensures. That the listing
ends then follows, for a service with finitely many cursors and offsets, from the set of
parameters it was sent to; a service that makes up a fresh cursor for each page is outside the
instance, and only `--timeout` ends such a listing (`api.rs:1762`). `Polling` is fair to
its looks, its timers and its deadline, never to an answer. `AllOrganizations` is fair to the
command as a whole, every request of which is answered or times out. `Console` is fair only to
code that waits for nobody: the drops, the clearing of the status line and the report after a
wait, and a frame that is being drawn. It is not fair to the services, to the person, or to the
thread that reads keys.

## Findings

One disagreement has a run. A process keeps the auth URL it read when it started, so a watch
whose login was moved to another auth URL sends the tokens of the new login to the old one
(`credentials_origin`; `auth.rs:914`), while `docs/quality.md:117` says that a credential is
refreshed, exchanged and revoked only at the recorded origin.

Reading the code for the models turned up more that is worth a look. None of these has a run
of its own; where a model contains the behaviour, its properties are stated so that they hold
with it.

* A 5xx answer to a submission that took effect is reported as a rejection (`api.rs:1124`); the
  runs therefore separate gateway errors (`Outages`).
* A poll whose transport fails after the payment was accepted ends the run without naming the
  payment (`api.rs:1596`), although `docs/guides/troubleshooting.md:21` relies on its name.
* The directory of recovery records is never synced (`api.rs:1323`): a power loss can lose a
  record whose request left (`PowerFails`).
* Ctrl-C during a watch's refresh says only "Stopped watching payments." (`startup.rs:71`),
  although `docs/concepts/safety-model.md:37` says that it reports how to recover a login that was
  being refreshed. If the refresh is served afterwards the saved token is spent and the session
  goes on without anybody knowing; a later logout then revokes a spent token and reports success.
  `NoSilentOrphan` and `LogoutRevokes` except exactly these sessions (`unsaid`).
* A payment that the watch's first read did not hold because it was too old is reported as new
  when it changes later (`watch.rs:65`).
* A page from which no next request can be made (it claims more without a cursor, or its offset
  overflows) is discarded although it arrived. A full last page by cursor that omits `has_more`
  and `next_cursor` is followed by a request with both a cursor and an offset; `Pagination`'s
  services by cursor therefore say `has_more` in the run (`SaysMore`).
* `price.rs:20` says that eight digits of a price keep every intermediate product inside a u128;
  its whole part has no bound, and `self.mantissa * CENTS_PER_USD` (`price.rs:98`) is not checked.
  In a release build it wraps, and a conversion to bitcoin at such a price is of another amount,
  or, where the product wraps to zero, divides by zero and panics. `Amounts` has the widths, the
  wrapping and the panic (`Divisor`, `Panics`); `ConvertedToNearest` holds but for such a price.
* `wallet_currency.rs:3` says that a local mistake fails before any credential is resolved: a
  malformed `--amount` with `--unit`, a send of zero, and a missing `--env` are found only after
  the wallet was read. `NothingTooSoon` says what is left: off a terminal, the checks that need no
  currency come first, and no other command is refused after a credential was used. `dry_run.rs:3` says that a description is built before authentication and
  any request: filling in a currency, a picker and a shortlist authenticate and read first.
* `voltage context` fails on an invalid `--auth-url` for an API key, which never uses it. A
  `VOLTAGE_API_KEY` that is not Unicode is reported as ignored because of an `--account` nobody
  gave. A friendly send with `--currency btc` and a unit in USD is not rejected, a receive is.
* With `--all-orgs`, an answer that is neither an array nor a page counts as no wallets, entries
  without a UUID are dropped, and one page is read.
* `error.rs:207`: a TLS failure after the handshake is classified as one before it, so the hint
  after a change omits to look it up first, against `error.rs:236`. The hint for an answer that
  is too large omits it as well.
* `output.rs` counts the notice of hidden columns as one line of a live frame; on a narrow
  terminal it wraps and scrolls the header off (`FrameFits` excepts it).
* A picker's raw mode is set by the thread that reads keys; a SIGINT before it gets there drops
  the guards first and leaves the terminal raw (`late` in `Console`; `TerminalRestored` excepts
  it). The hidden prompt sets it before the thread starts.
* In an event stream, empty data lines do not count toward the bound of an event. `Envelope::event`
  redacts the data of an event but not its name and ID (`output.rs:376`), although `api.rs:96`
  calls the credentials "text that must never appear in output". The instance has a stream whose name,
  ID and data all quote the credential; `SecretsStayHidden` speaks of the data, of reports and of
  errors, and says of the other two that they are written as sent.
* clap compares conflicts within one level: `voltage --org ID wallets list --all-orgs` and
  `voltage wallets --org ID list --all-orgs` are accepted and the organization is dropped, although
  `docs/guides/wallets.md:15` says the two cannot be combined; so is `--env`. A global option
  on two levels, `--wallet` for one, keeps the deeper value in silence. `ContradictionsAreRefused`
  names both as exceptions (`ExclusiveFlagsAreRefused`, `ActsOnTheWalletNamed`). `--no-color payments list --color always` is
  read differently by the early search and by `GlobalFlags::color` (`ColorIsReadAlike` excepts
  lines with both).
* An option's value that is also the name of a command ends the outline of an issue report early
  (`--profile login context` is outlined as `voltage --profile login`), against the comment at
  `cli.rs:863`; only `--json`, not `-o json`, makes parse errors JSON.

## Proofs

All theorems hold for every value of the constants that their modules' assumptions allow.

`SubmissionProofs` proves for any number of runs, IDs, requests and commands: `TypeCorrect`,
`UnsentReal`, `SentOnce`, `RecordedSend` and, where the machine keeps its files
(`~PowerFails`), `RecoveryRecord`, `OneRequest` and `Implements` (the refinement of
`RequestLedger`). None of these is inductive as stated: that a request which left agrees with
the recovery record depends on what a run knows of the file at each step before. `IInv` adds
`Journaling` (at `write` the file is torn, at `sync` and `send` it holds this run's request),
`OneWriter` (exclusive creation leaves one run at `write` for an ID, so nobody overwrites a
record that another run has compared), `NotYetSent` and `SubmittedIsSent` (which make the report
of an interruption true). A power failure ends every run that knows something of a file, so all
but `RecoveryRecordFirst` survives it. Steps that neither write the journal nor send are handled
by one lemma, `QuietKeeps`.

Its last section goes on from `IInv` to what is reported. `ReportsTrue` (`ReportedPaymentExists`, under `~PowerFails`)
needs to know why a stale response may be believed: the invariant `Known` says that what a run or
the projection has read of a payment is a state it is in or was in (`ViewsArePast`,
`ProjectionIsPast`), that what the service holds was sent (`HeldIsSent`), and that a run which
looks at a payment sent the request that is held (`Paths`) — by the recovery record, no other
request can have left under that ID, which is where power failures would break it.
`RejectedReal` (`RejectedIsReal`) holds under `~Outages`, with power failures or without.

`CredentialsProofs` proves for any number of processes, sessions, refreshes and commands:
`TypeCorrect`, `RefreshExclusive` (`RefreshIsExclusive`) and `ProfilesKept` (`NoLostUpdate`). Its
invariant is `TypeOK` with three parts. `Local` says what each program counter implies for the
process's own fields. `Own` says that a process between taking and releasing the lock is the one
that holds it, that the login it refreshes is the stored one, and that its saved profile is in
the configuration. `Refreshable` bounds the refreshes that are left for an expired login. The
argument is the discipline of the lock: every step that changes the stores or the configuration
is the holder's (`Core`), so a step of one process leaves the parts of all others alone, and the
proof has one step for each action of one process.

Its second part goes on from that `Inv` to the sessions themselves, with failed writes that may
have taken effect, requests served after their process gave up, interruptions and kills:
`NoneOrphaned` (`NoSilentOrphan`), `LogoutsRevoke` (`LogoutRevokes`), `SecretsReached`
(`SecretsReachable`) and `FailedSavesRestore` (`FailedSaveRestores`). None of them is inductive:
whether a session is safe depends on what the holder of the lock still intends to do. The
invariant has three layers. `Reachable` says what the holder knows of the configuration and of
the stores at each step of a replacement or a removal, and that with the lock free no store but
the account's has a secret that no warning named. `Minded` says what a process remembers of its
own command and which request it waits for. `Accounted` says that the current login of each live
session is saved, kept by a process that will save, revoke or tell of it (`Keeps`), told of, or
given up by a watch that was stopped (told of or given up: `Lapsed`);
that a stored login is the current one, unless its renewed one is in the hands of the holder
(`CurrentSecret`); that the stores the holder writes have no login but its own and the one it
replaces (`Guarded`, `Mine`); that a request served late is of a lapsed session (`Loose`); and
that nobody refreshes the session of a login process before it is saved (`Unseen`). The service
is where the layers meet: a revoke that reaches it takes effect because the login it names is
current and its origin that of the session (`RevokeKeeps`), and a refresh leaves its new token
with the one process that asked for it under the lock (`RenewKeeps`).

Of `Watch`, `WaitingProofs` proves for any payments, page size, interval, ceiling and hints: `WatchTypeCorrect`,
`NeverRepeats` (`ReportedOnce`), `SurvivesExpiry` (`RejectedTwice`) and `ChangesReported`
(`MissesOnlyOverflow`). The invariants behind them are `Remembered`, that until the watch ends
what it has seen is what it wrote, that the last page agrees with what was seen, and that nothing
was seen before it happened, and `Lapses`, that a re-authorization with no successful read since
cost an expiry. That a change off the page needs more changes than the page holds is a lemma on
cardinalities.

Of `Polling` it proves for any hints, pauses, lifetimes and limits: `TypeCorrect`,
`NothingMissed` (`NothingIsMissed`), `InTime` (`EndsInTime`), `ProgressTold` (`ProgressIsTold`),
`HintsKept` and `ScheduleKept` (`ScheduleIsKept`). The invariant joins the clock with the
deadline (`Timely`: a pause is begun only if it ends before the deadline), the pause with what
the last answer asked (`Owing`), what was read with what is true and since when (`Knowing`), and
the drawings with the flag (`Drawing`). `Scheduled` adds that the step is the one that the number
of own pauses says, whatever hints came between, and that a pause which is due is not under half
of the step before; a pause of 0 is one of a projection that is already there, which is never
slept out.

`ListingProofs` proves of `AllOrganizations`, for any organizations, failures and bound on the reads
in flight: `TypeCorrect`, `Bounded` (at most `CONCURRENCY` at once), `InOrder` and `FailuresTold`
(`FailuresAreTold`), and `ListingRight` (`ListingIsRight`). What was taken is a prefix of the outcomes (`Taken`), reads begin only in the
window behind it (`Windowed`), and of the failures taken one is the first (`HasFirst`), which is
what makes the exit code well defined. The listing is the flattened sequence of the pages that
were read; `Folding`'s `FlattenPlaces` gives each wallet of it a page and a place, from which it
follows that every page is listed whole, in the order of the organizations, and nothing else is.

Of `Pagination` it proves, for any list, page size and bounds: `PagingTypeCorrect`; where a service by
cursor says that a list is over (`SaysMore \subseteq {"no"}`), `ListsAll` (`Complete`) and
`ListsOnce` (`NoRepeats`); and, if an offset can name every item, `GivesUpOnNone`
(`StuckOnlyByOthers`). The proofs rest on the place of an item in a list that changes: `Rank` is
the number of newer items, `RankIsPlace` shows by cardinalities that ranks are the places, and
the invariant says that the cursor or the offset divides what was listed from what is to come,
an insertion or a removal moving the offset's place by one and the cursor's not at all.

`PreparationProofs` proves for any command lines, variables, settings, prices, listings and
answers of pickers and services `ScopeRight` (`ScopeIsRight`), `TooSoonNever` (`NothingTooSoon`)
and `RequestRight` (`RequestIsRight`).

* None of them is inductive: what a request names was decided several awaits before it is made,
  from a scope that pickers complete in between. The invariant `PInv` says at each stage what is
  certain. `Steady` says that the scope in use is the one that flags, profile and variables state,
  except for what a person picked where nothing was stated, and that an organization or an
  environment was picked only with a login in hand. `Accounted` says of every use of the credential
  so far that it is the one which is selected by the scope as stated, for the organization in use
  now. That this survives a pick is a fact about `Selection`: a login is selected by its account
  alone (`LoginByAccount`), while an API key depends on the organization, and then nothing is picked
  (`CredentialIsOwn`). `Built` says that a request is built of the scope in use and passed every
  check, `Holding` that the output file was reserved before, and `LocalMistakesAskNothing` that no
  credential was used for what the flags alone refuse; that those checks are the same before and
  after a currency is filled in is a lemma (`CheckedWithoutCurrency`).
* From it follows, part by part, that a variable which is said to be ignored decides nothing
  (`IgnoredIsInert`: the same command without it has the same directory, scope, key and origin),
  that a profile and a named account are kept to, that `context` reports the organization, the
  account and the origin that are used, that a bound key is used in its organization and
  environment alone, and that one command uses one organization.
* `RequestRight` needs two more conjuncts, `Asked` and `Told`, inductive together with `PInv`
  (`StepAsks`; the theorem `AskedAndTold`). `Asked` says what may differ from the command line: the
  target only of a read that named none, since a change is turned back before anybody is asked; the
  currency only late and only if it was left out, and then the amount's unit fits the currency in
  use. `Told` says that an end carries what was read: "amount" and "invoice" are said only of what
  cannot be read in the unit or the letters it was given in, a conversion is of the amount and the
  rate as written, and the candidates are those of the listing, the invoice and the currency as
  given, though the scope was picked in between.
* The rest are facts about the functions a request is made of. That `Parse` is exact in both
  directions (`ReadExactly`: what it returns is the decimal, and where it refuses a decimal no
  representable amount is it) is an induction over the digits: what trails is zeros and scales the
  value (`ZerosScale`), and a digit that is not zero below the unit's scale leaves something over
  that no whole unit is (`DigitIsLeft`). `DividesNearest` is the rounding of a price; `QualifiesBy`
  says of the chain of exclusions in `Qualify` which balances are left at its end; `PaysItsNetwork`
  that the longest prefix of an invoice decides its network although two pairs of them start alike;
  `QueryHolds` and `JoinedHolds` which pairs a query has.
* The assumptions are what clap, the types, the registry, the stores and the services guarantee:
  the flags of a payment are there with a value or none, what is repeated is a sequence, no filter
  is named like a scope (`CommandsAreLines`); a decimal is its whole part and its digits, and a
  conversion names its unit (`AmountsAreDecimals`); an operation with a wallet or an environment in
  its body has a body, a payment's is checked as one, and an operation on a wallet has a target
  (`OperationsAreRegistered`); a saved profile is complete and an account has a name and is of one
  of two kinds (`SavesAreComplete`); the service gives each wallet an identifier of its own, an
  environment and whole amounts (`WalletsAreListed`); and the multipliers of an invoice are whole
  (`MultipliersAreNatural`) and the absence of a network is not one (`NoNetworkIsNone`). TLC
  evaluates all of them on the instance of the run.

`Folding` has the lemmas on recursion. The provers cannot instantiate an induction theorem, whose
parameter is an operator, so each induction is one by a least counterexample, which they find
with `WFMin`: a set that holds 0 and with each natural the next holds all. From it come, for any
step `Op`, what `FoldLeft` makes of a longer sequence (`FoldAppend`, `FoldConcat`), what every
step keeps (`FoldKeeps`), the values of a recursive function (`RecursOnNat`) and of `FlattenSeq`
(`FlattenAppend`, `FlattenPlaces`). `ListingProofs`, `WaitingProofs`, `PreparationProofs`,
`ConsoleProofs` and `CommandLineProofs` take an instance for each step they fold with; `PreparationProofs` has one for the digits of a number and one for the
powers of ten, which `Amounts` states as a recursive function for this. `Folding` repeats the definitions of `FoldLeft` and `FlattenSeq`, so
that its instances do not bring all of `SequencesExt`; each use shows that the two are the same.

`ConsoleProofs` proves for any commands, answers, keys and bounds `TerminalKept`
(`TerminalIsKept`) and `StoryTrue` (`StoryIsTrue`), of every order in which the command, the
reader of keys, the redraws, Ctrl-C and a failing stdout take turns.

* The invariant behind `TerminalKept` is `Inv`. `Roles` says who runs in each kind of task;
  `Modes` what each kind of wait has changed of the terminal, and where it is put back; `Tended`
  that the status line stands, and may be drawn, only between its start and its end, and that a
  frame which is being painted holds the lock. `Keyed` says that the keys which were read, those
  in the terminal's queue and those yet to come are together the keys that were pressed, and that
  the secret is what the keys that were read make (`Made`), within its bound of bytes; so neither
  a late key nor a paste outlives its prompt.
* `StoryTrue` follows from `Story == Inv /\ Streamed /\ Outcomes /\ Told /\ Called`. `Streamed`
  is about event streams, whose text comes in chunks that end anywhere. `Heard` says that the
  assembler, after the first `got` pieces of the text, is where it would be if the lines which
  end in them had come one by one; `ChunkIsCut` that cutting what was left together with the next
  chunk gives the lines that cutting all of the text up to its end gives; and `EventsOf`, which
  defines what a stream means without any assembler, is shown to agree with the assembler line by
  line. So what was written and what is due (`Heeded`) are the events of a prefix of the lines,
  wherever the chunks ended, and a stream is refused only for one line or one event that is too
  large by itself (`RefusedIsLarge`).
  `Outcomes` says that an error which ends a command is sound: it says something, none of its
  words, hints or fields is the credential, and its parts are those that are printed. `Told` says
  that the report and the exit code are those of the outcome; `Called` what a request of a service
  can end with and what of it is written. That a report on a change without an answer names the
  look-up first, and that a refusal names the credential, are then lemmas on the functions of
  `Reports` (`SendErrorIs`, `AuthErrorIs`, `OpenErrorIs`, `PrintedIs`).
* Its assumptions are on the inputs: the keys are keys (`KeysArePressed`), a chunk has a bound
  (`ChunksAreBounded`), what services answer is text, in which the credential may be quoted
  (`AnswersAreText`), a credential is not itself one of the words of this program
  (`SecretsAreNoWords`), and `detail` is not a key of secrets, as in `secret.rs`
  (`ReasonsAreShown`).

`CommandLineProofs` proves for any registry, any words and lines of any length, any places, texts
and limits `WordsAlwaysReadAlike` (`WordsAreReadAlike`), `ContradictionsAlwaysRefused`
(`ContradictionsAreRefused`) and `ReportIsAlwaysSafe` (`ReportIsSafe`).

* The four readers of a line share nothing but its words, and each goes over them by a recursion
  of its own. `Reads` says what one more word does to clap: it opens an option or gives it its
  value, ends the options, names a command or is an argument, or it is refused, and then clap
  stays refused (`ErrorStays`). For each of the other readers a lemma says that such a word
  keeps it in step (`StopsMoves`, `JsonMoves`, `ColorMoves`, `OpenMoves`, `OptionsMove`, `IdsMove`,
  `SaidMoves`). `History` is their conjunction; it holds for the empty line and after each word
  that is not refused (`HistoryHolds`), so at the end of a line that clap accepts
  (`LineIsUnderstood`): every option that is matched stands before `--`, and every option before
  it is matched at some level, with the values that were typed.
* From `LineIsUnderstood` follow that the wallet acted on is the one that the line names, and any
  other was replaced by a deeper `--wallet` (`WalletIsTheOne`), that what runs is called as it was typed, also behind an alias (`NameIsTyped`),
  that the greeting comes only where no command was named (`Nameless`), and that a
  body given whole leaves no friendly flag (`RawStandsAlone`).
* That a report shows no secret needs that a text is scrubbed before it is cut: `ScrubbedTo` says
  that what was pushed is public and that what is not pushed yet is a word from its beginning, so
  that a word is judged whole (`ScrubbedIsShown`). `TrimmedFits` says that cutting ends, since nine
  tenths of a length are less (`Tenth`), and ends with a link that fits, since the title and the
  checks alone do (`CutFits`); wherever it is cut, the heading that is found last is that of the
  checks, though a panic may quote it (`KeptEnds`).
* The invariant `Inv` then has little left to say: what became of a line stays what its readers
  make of its words (`StoryInv`), in the colour that they and the place ask for (`PlaceInv`), and
  what was reported was drafted, by the one it says (`ReportInv`).
* The assumptions are what clap's declarations, the registry and the limits of `feedback.rs` are.
  A word is read as an option if and only if it has a name (`KeysAreWords`). Operations have
  distinct commands and identifiers, one of them creates payments (`RegistryIsUsable`); a command
  is not the beginning of another and none but the CLI's own ends in `context`
  (`CommandsAreLeaves`); no filter has the name of a global flag (`FiltersAreTheirOwn`). The parsers
  of a colour and a format accept what `style.rs` and `output.rs` name, and no command is called
  by a UUID (`ValuesAreTyped`). A secret in a title or a panic can be told by its looks
  (`TextsAreText`): what looks like nothing special is what no scrubbing can find. And the title
  and the checks fit into a link by themselves (`TitleAndChecksFit`), as a comment in
  `into_report` says: 121 characters of at most 12 bytes, an ellipsis and some hundred bytes of
  checks are far less than 6000. The others (`PlacesAreKnown`, `LimitsAreNatural`,
  `MaxWordsIsNatural`) give types.

### Only model-checked

* Liveness (`RunsEnd`, `LockIsReleased`, `Ends`, `WaitEnds`, `InterruptEnds`, `PagingEnds`) is out of the
  prover's reach, and with it that the fairness assumed is enough.
* `ViewIsHonest` of `Console`: calendar arithmetic and powers of ten, against references that are
  sums over days and digits.

## Not modelled

* `qr.rs` encodes with a library and prints the result; `Polling` models when an invoice is drawn.
* Opening a browser, the clipboard and the drawing of the wordmark have no outcome the program
  depends on.
* Wording, colours, the layout of help, of a description and of an issue, and the JSON encoder.
  What of them carries a promise is modelled: columns and frames that fit, secrets that do not
  show, which hint is given.
* clap, inquire and comfy-table are external, modelled from how the code declares and uses them;
  so are the services, the keychain and the terminal.
* The text of UUIDs, dates, JSON and URLs is well formed or not. File permissions, ownership
  checks and the keychain's own errors are single choices. The parsing of tokens and of the auth
  service's metadata is left out.
* The registry's table is generated from the API's contract; `CommandTree` models how an operation
  becomes a command, over a table of ten.
* The composition of `Watch` with `Credentials` is by choice, not by shared state: what a process
  caches is in `Credentials`, where a watch is one of the commands.
