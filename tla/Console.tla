------------------------------- MODULE Console -------------------------------
(***************************************************************************)
(* One command at a terminal: it waits for an answer, for events, for a     *)
(* secret or a choice, or keeps a live screen, beside the threads that read *)
(* keys and redraw the status line; it writes what it has to stdout or to a *)
(* file, or reports why not, and ends with an exit code.  Ctrl-C may come   *)
(* at any await (src/startup.rs, src/output.rs, src/terminal.rs,            *)
(* src/progress.rs, src/error.rs, and the requests of src/api.rs).          *)
(*                                                                         *)
(* `task` is what the command has to do: its kind, the destination of its   *)
(* result, and what the services and the person at the terminal do.         *)
(***************************************************************************)
EXTENDS Reports, EventStream, Terminal, Rendering, Amounts

CONSTANTS
    Tasks,          \* the commands
    MaxChunk        \* how many pieces a chunk has at most

\* The lines that a service may send.
SentLine == {Blank} \cup [field : STRING \ {"blank"}, value : STRING \cup {Secret}, size : Nat]

ASSUME ChunksAreBounded == MaxChunk \in Nat

ASSUME KeysArePressed == \A t \in Tasks : t.keys \in Seq(KeyPress)

\* What services answer is text, in which the credential may be quoted; a type is one of a JSON body.
ASSUME AnswersAreText ==
    /\ None \notin STRING \cup Wordings \cup {Secret}
    /\ \A t \in Tasks :
         /\ t.response.fields \cup t.response.top \subseteq [key : STRING, text : SUBSET (STRING \cup {Secret})]
         /\ t.kind = "stream" => t.lines \in Seq(SentLine)
         /\ t.response.body # "json" => t.response.type = "none"
         /\ t.authorization.by \in {"key", "token", "session", "stream"}

\* A credential is no word of a report, nor the name of a source of one; an error code that quotes it is
\* no plain identifier.
ASSUME SecretsAreNoWords ==
    /\ Secret \notin Wordings
    /\ \A t \in Tasks :
         /\ t.authorization.sources # Secret
         /\ t.auth /\ Secret \in t.response.reason => FreeText \in t.response.reason

\* An amount of the API.
Money == [amount : Nat, unit : STRING, currency : STRING]

\* What is shown has widths, digits and a calendar's months; a payment's amounts are whole.
ASSUME ResultsAreShown ==
    \A t \in Tasks :
        /\ t.items \in Seq(ToSet(t.items)) /\ \A item \in ToSet(t.items) : HasCells(item)
        /\ t.limit \in Nat \cup {NoLimit} /\ t.height \in Nat
        /\ t.kind = "card" => t.lines \in Seq(Nat) /\ t.title \in Nat
        /\ t.amount.digits \in Seq(0..9)
        /\ t.year \in Int /\ t.month \in 1..12 /\ t.day \in Int /\ t.seconds \in Nat
        /\ t.balances \in Seq(Money)
        /\ t.payments # None => t.payments \in Seq([age : Int, completed : BOOLEAN, balance : Money])

VARIABLES
    task, pc,
    outcome,        \* what the wait ended with: an error, or Done
    screen, status, \* the terminal and the status line
    reader,         \* the detached thread that reads the terminal
    typed, queue, coming, \* the secret, the terminal's input queue, the keys yet to come
    stream, rest,   \* the event stream: what was received, and what is to come
    due,            \* what is to be written
    stdout, pipe, file, \* what was written, and whether stdout can be written
    report, exit,
    echoed, late    \* history: a key was echoed; the picker began after its guards dropped

wait == <<task, stream, rest>>
input == <<reader, typed, queue, coming, echoed, late>>
display == <<screen, status>>
output == <<due, stdout, pipe, file>>
end == <<report, exit>>
vars == <<pc, outcome, wait, input, display, output, end>>

NoReport == [message |-> {}, hint |-> {}, fields |-> {}]
Done == Error("none", {})
Interrupted == Error("interrupted", {"interrupted"})

\* Kinds of tasks that wait with a status line, that read keys, and that keep a screen.
Statuses == {"call", "stream"}
Prompts == {"hidden", "pick"}
Waits == Statuses \cup Prompts \cup {"live"}

NoStream == [open |-> "no", pending |-> <<>>, asm |-> NoEvent, events |-> <<>>, error |-> "none"]

Init ==
    /\ task \in Tasks /\ pc = "start" /\ outcome = Done /\ screen = Cooked /\ status = NoStatus
    /\ reader = "off" /\ typed = <<>> /\ queue = <<>> /\ echoed = FALSE /\ late = FALSE
    /\ coming = (IF task.kind = "hidden" THEN task.keys ELSE <<>>)
    /\ stream = NoStream /\ rest = (IF task.kind = "stream" THEN Sent(task.lines) ELSE <<>>)
    /\ due = <<>> /\ stdout = <<>> /\ pipe = "open" /\ file = <<>> /\ report = NoReport /\ exit = -1

-----------------------------------------------------------------------------
(* The end *)

\* What `run` prints of an error: nothing of a closed stdout, nor of Ctrl-C in a watch.
Report(error) ==
    IF error.kind = "none" \/ error.closed \/ (task.kind = "live" /\ error.kind = "interrupted") THEN NoReport
    ELSE Printed(error, task.to.format, task.to.person)

ExitOf(error) == IF error.closed \/ error.kind = "none" THEN 0 ELSE ExitCode(error.kind)

\* `run` ends with `error`, or with success.
EndWith(error) == pc' = "ended" /\ exit' = ExitOf(error) /\ outcome' = error /\ report' = Report(error)

-----------------------------------------------------------------------------
(* A wait begins *)

\* Terminal::status, for a request or the next event.
StartStatus ==
    /\ pc = "start" /\ task.kind \in Statuses
    /\ status' = Drawn(task.animated) /\ screen' = [screen EXCEPT !.line = "status"]
    /\ pc' = "waiting"
    /\ UNCHANGED <<outcome, wait, input, output, end>>

\* The terminal when the prompt is printed.
Prompted(t) == EnableRaw(t)

\* read_hidden: raw mode, the prompt, the thread.  A terminal may refuse raw mode.
StartHidden ==
    /\ pc = "start" /\ task.kind = "hidden"
    /\ \/ /\ screen' = Prompted(screen) /\ reader' = "reading" /\ pc' = "waiting"
          /\ UNCHANGED <<outcome, end>>
       \/ EndWith(Error("transport", {"terminal"})) /\ UNCHANGED <<screen, reader>>
    /\ UNCHANGED <<wait, status, typed, queue, coming, echoed, late, output>>

\* pick: the guards are made, and the thread will set the terminal up.
StartPick ==
    /\ pc = "start" /\ task.kind = "pick"
    /\ reader' = "starting" /\ pc' = "waiting"
    /\ UNCHANGED <<outcome, wait, display, typed, queue, coming, echoed, late, output, end>>

\* watch on a terminal: the alternate screen, and its first frame.
StartLive ==
    /\ pc = "start" /\ task.kind = "live"
    /\ screen' = EnterLive(screen) /\ pc' = "write"
    /\ due' = <<Frame(task.items, task.limit, task.height, task.marked)>>
    /\ UNCHANGED <<outcome, wait, status, input, stdout, pipe, file, end>>

\* lead_with_balance: each extra read may fail, and leaves its line out.
Headline(balances, network, price, payments) ==
    [estimate |-> IF price = None THEN Refused ELSE Estimate(balances, network, price),
     of |-> Priceable(balances, network),
     days |-> IF payments = None THEN <<>> ELSE Activity(payments, balances[1].currency)]

\* What is shown at once: a page, a card, an amount, a date, an age.
Shown(t) ==
    CASE t.kind = "table" -> Table(t.items, t.limit)
      [] t.kind = "card" -> [card |-> Card(t.lines, t.title, t.limit)]
      [] t.kind = "amount" -> Readable(t.amount)
      [] t.kind = "date" -> [days |-> DaysFromCivil(t.year, t.month, t.day)]
      [] t.kind = "age" -> Relative(t.seconds)

StartShow ==
    /\ pc = "start" /\ task.kind \notin Waits
    /\ \/ task.kind # "wallet" /\ due' = <<Shown(task)>>
       \/ /\ task.kind = "wallet"
          /\ \E price \in {task.price, None}, payments \in {task.payments, None} :
               due' = <<Headline(task.balances, task.network, price, payments), task.result>>
    /\ pc' = "write"
    /\ UNCHANGED <<outcome, wait, input, display, stdout, pipe, file, end>>

-----------------------------------------------------------------------------
(* A wait ends *)

\* What a wait ended with is known: its guards drop next.
WaitEnds(o) == pc' = "drop" /\ outcome' = o

\* The answer of the API or of the auth service.
Answer ==
    /\ pc = "waiting" /\ task.kind = "call"
    /\ WaitEnds(IF Succeeds(task.response) THEN Done
                ELSE IF task.auth THEN AuthError(task.response, task.saved)
                ELSE SendError(task.authorization, task.change, task.response))
    /\ due' = (IF Succeeds(task.response) THEN <<[fields |-> task.response.fields]>> ELSE <<>>)
    /\ UNCHANGED <<wait, input, display, stdout, pipe, file, end>>

\* stream: what the request for the stream is answered.
OpenError(response) ==
    CASE response.body = "none" -> NoResponse(response.failure, {}, FALSE, FALSE)
      [] response.body # "none" /\ ~IsSuccess(response.status) -> Error(KindFor(response.status), {"HTTP"})
      [] response.body \notin {"none", "events"} /\ IsSuccess(response.status) -> Error("transport", {"not a stream"})
      [] OTHER -> Done

Open ==
    /\ pc = "waiting" /\ task.kind = "stream" /\ stream.open = "no"
    /\ WaitEnds(OpenError(task.response)) /\ stream' = [stream EXCEPT !.open = "open"]
    /\ UNCHANGED <<task, rest, input, display, output, end>>

\* A chunk of what was sent, wherever it ends.
Receive ==
    /\ pc = "waiting" /\ stream.open = "open"
    /\ \E n \in 1..Min({MaxChunk, Len(rest)}) :
         /\ rest' = SubSeq(rest, n + 1, Len(rest))
         /\ stream' = Received(stream, SubSeq(rest, 1, n))
    /\ due' = stream'.events /\ WaitEnds(Done)
    /\ UNCHANGED <<task, input, display, stdout, pipe, file, end>>

\* The service closes the stream, or it breaks.
Close ==
    /\ pc = "waiting" /\ stream.open = "open"
    /\ \/ rest = <<>> /\ stream' = [stream EXCEPT !.open = "closed"] /\ WaitEnds(Done)
       \/ WaitEnds(Error("transport", {"disconnected"})) /\ UNCHANGED stream
    /\ UNCHANGED <<task, rest, input, display, output, end>>

\* hidden, answered: what a prompt's read means.
Meaning(read) ==
    CASE read \in {"entered", "chosen"} -> Done
      [] read = "interrupted" -> Interrupted
      [] read = "too long" -> Error("usage", {"too long"})
      [] OTHER -> Error("transport", {"terminal"})

Prompt ==
    /\ pc = "waiting" /\ reader \in {"entered", "chosen", "interrupted", "too long", "failed"}
    /\ WaitEnds(Meaning(reader))
    /\ UNCHANGED <<wait, input, display, output, end>>

\* The next read of a live watch fails for good.
StopLive ==
    /\ pc = "waiting" /\ task.kind = "live"
    /\ WaitEnds(Error("api", {"HTTP"}))
    /\ UNCHANGED <<wait, input, display, output, end>>

\* Ctrl-C while the command awaits: its future is dropped.  What was sent may have arrived.
Interrupt ==
    /\ pc = "waiting" /\ task.interrupted
    /\ WaitEnds(IF task.kind = "call" /\ task.change
                THEN [Interrupted EXCEPT !.message = @ \cup {"may have been submitted"}] ELSE Interrupted)
    /\ UNCHANGED <<wait, input, display, output, end>>

-----------------------------------------------------------------------------
(* The guards drop *)

\* The terminal after the guards of the wait.
Dropped(t) ==
    CASE task.kind = "hidden" -> DisableRaw(t)
      [] task.kind = "pick" -> DisableRaw(DropPickerScreen(t))
      [] task.kind = "live" -> LeaveLive(t)
      [] OTHER -> t

\* MUTANT of Drop: the thread that reads is waited for.
DropJoined ==
    /\ pc = "drop" /\ reader \notin {"reading", "starting", "picking", "flushing", "settling"}
    /\ pc' = "clear" /\ screen' = Dropped(screen) /\ status' = Aborted(status)
    /\ UNCHANGED <<outcome, wait, input, output, end>>

Drop ==
    /\ pc = "drop" /\ pc' = "clear"
    /\ screen' = Dropped(screen) /\ status' = Aborted(status)
    /\ UNCHANGED <<outcome, wait, input, output, end>>

\* The status line is cleared, with the lock that a frame holds.
Clear ==
    /\ pc = "clear" /\ ~status.locked
    /\ status' = Cleared(status) /\ screen' = [screen EXCEPT !.line = "blank"]
    /\ pc' = (IF outcome.kind = "none" THEN "write" ELSE "say")
    /\ UNCHANGED <<outcome, wait, input, output, end>>

\* The error is reported.
Say ==
    /\ pc = "say" /\ EndWith(outcome)
    /\ UNCHANGED <<wait, input, display, output>>

\* A second Ctrl-C does not wait for that.
Again ==
    /\ pc = "say" /\ task.interrupted /\ outcome.kind = "interrupted"
    /\ pc' = "ended" /\ exit' = 130
    /\ UNCHANGED <<outcome, wait, input, display, output, report>>

-----------------------------------------------------------------------------
(* Output::write *)

RedactedEvent(event) ==
    [event EXCEPT !.data = [i \in DOMAIN event.data |->
        IF event.data[i].value = Secret THEN [event.data[i] EXCEPT !.value = Redacted] ELSE event.data[i]]]

\* What stdout gets of a result, an event, or what only shows.
ToStdout(result) ==
    CASE task.to.show -> result
      [] ~task.to.show /\ task.kind = "stream" -> RedactedEvent(result)
      [] ~task.to.show /\ task.kind = "call" -> [result EXCEPT !.fields = RedactedFields(@, Secret)]
      [] OTHER -> result

\* The file takes all of it, or an error ends the command.
WriteFile ==
    /\ pc = "write" /\ due # <<>> /\ task.to.file
    /\ \/ file' = Append(file, Head(due)) /\ due' = Tail(due) /\ UNCHANGED <<pc, outcome>>
       \/ WaitEnds(Error("transport", {"write"})) /\ UNCHANGED <<file, due>>
    /\ UNCHANGED <<wait, input, display, stdout, pipe, end>>

WriteStdout ==
    /\ pc = "write" /\ due # <<>> /\ ~task.to.file
    /\ \/ /\ pipe = "open" /\ stdout' = Append(stdout, ToStdout(Head(due))) /\ due' = Tail(due)
          /\ UNCHANGED <<pc, outcome>>
       \/ /\ pipe # "open" /\ WaitEnds([Error("transport", {"write"}) EXCEPT !.closed = (pipe = "closed")])
          /\ UNCHANGED <<stdout, due>>
    /\ UNCHANGED <<wait, input, display, pipe, file, end>>

\* All is written: a watch pauses, a stream goes on to its next chunk or its error, the rest ends.
Written ==
    /\ pc = "write" /\ due = <<>>
    /\ \/ task.kind = "live" /\ pc' = "waiting" /\ UNCHANGED <<outcome, end>>
       \/ /\ task.kind = "stream" /\ stream.error # "none"
          /\ pc' = "say" /\ outcome' = Error("transport", {stream.error}) /\ UNCHANGED end
       \/ /\ task.kind = "stream" /\ stream.error = "none" /\ stream.open # "closed"
          /\ pc' = "start" /\ UNCHANGED <<outcome, end>>
       \/ (task.kind = "stream" => stream.open = "closed") /\ task.kind # "live" /\ EndWith(Done)
    /\ UNCHANGED <<wait, input, display, output>>

\* The reader of stdout goes away, or its disk is full.
StdoutFails ==
    /\ pc = "write" /\ pipe = "open" /\ ~task.to.file /\ pipe' \in {"closed", "full"}
    /\ UNCHANGED <<pc, outcome, wait, input, display, due, stdout, file, end>>

-----------------------------------------------------------------------------
(* The thread that reads the terminal.  It ends with the process. *)

\* A key is typed: what is not in raw mode, the terminal echoes.
Type ==
    /\ pc = "waiting" /\ coming # <<>>
    /\ coming' = Tail(coming) /\ queue' = Append(queue, Head(coming))
    /\ echoed' = (echoed \/ ~screen.raw)
    /\ UNCHANGED <<pc, outcome, wait, reader, typed, late, display, output, end>>

\* read_hidden_keys: the next key.
Read ==
    /\ pc # "ended" /\ reader = "reading" /\ queue # <<>>
    /\ LET next == TypeHidden(typed, Head(queue)) IN
         /\ typed' = next.typed
         /\ reader' = (CASE next.hidden = "typing" -> reader [] next.hidden = "too long" -> "flushing"
                         [] OTHER -> next.hidden)
    /\ queue' = Tail(queue)
    /\ UNCHANGED <<pc, outcome, wait, coming, echoed, late, display, output, end>>

\* discard_pending_input: the queue is flushed,
Flush ==
    /\ pc # "ended" /\ reader = "flushing" /\ reader' = "settling" /\ queue' = <<>>
    /\ UNCHANGED <<pc, outcome, wait, typed, coming, echoed, late, display, output, end>>

\* The pause after a flush: by its end the next part of a paste is there, when there is one.
Paused == queue # <<>> \/ coming = <<>>

\* ... until nothing came since.
Settle ==
    /\ pc # "ended" /\ reader = "settling" /\ Paused
    /\ reader' = (IF queue = <<>> THEN "too long" ELSE "flushing")
    /\ UNCHANGED <<pc, outcome, wait, typed, queue, coming, echoed, late, display, output, end>>

\* inquire sets the terminal up, whether or not someone still waits for the choice,
BeginPicking ==
    /\ pc # "ended" /\ reader = "starting" /\ reader' = "picking"
    /\ screen' = BeginPick(screen) /\ late' = (pc \notin {"waiting", "drop"})
    /\ UNCHANGED <<pc, outcome, wait, typed, queue, coming, echoed, status, output, end>>

\* and puts it back when the person has chosen, or the terminal cannot be read.
EndPicking ==
    /\ pc # "ended" /\ reader = "picking"
    /\ reader' \in {"chosen", "interrupted", "failed"} /\ screen' = EndPick(screen)
    /\ UNCHANGED <<pc, outcome, wait, typed, queue, coming, echoed, late, status, output, end>>

-----------------------------------------------------------------------------
(* The task that redraws the status line *)

NextFrame ==
    /\ pc # "ended" /\ status.redraw = "waiting" /\ status.guard
    /\ status' = Tick(status)
    /\ UNCHANGED <<pc, outcome, wait, input, screen, output, end>>

CheckFrame ==
    /\ pc # "ended" /\ status.redraw = "drawing" /\ ~status.locked
    /\ status' = Checked(status)
    /\ UNCHANGED <<pc, outcome, wait, input, screen, output, end>>

PaintFrame ==
    /\ pc # "ended" /\ status.redraw = "painting"
    /\ status' = Painted(status) /\ screen' = [screen EXCEPT !.line = "status"]
    /\ UNCHANGED <<pc, outcome, wait, input, output, end>>

-----------------------------------------------------------------------------

Main == \/ StartStatus \/ StartHidden \/ StartPick \/ StartLive \/ StartShow
        \/ Answer \/ Open \/ Receive \/ Close \/ Prompt \/ StopLive \/ Interrupt
        \/ Drop \/ Clear \/ Say \/ Again \/ WriteFile \/ WriteStdout \/ Written
Reader == Read \/ Flush \/ Settle \/ BeginPicking \/ EndPicking
Redraw == NextFrame \/ CheckFrame \/ PaintFrame
Outside == Type \/ StdoutFails

Next == Main \/ Reader \/ Redraw \/ Outside

Spec == Init /\ [][Next]_vars

\* Code that waits for nobody goes on: the main task after its wait, a frame that is being drawn.
Fairness ==
    /\ WF_vars(Drop) /\ WF_vars(Clear) /\ WF_vars(Say)
    /\ WF_vars(CheckFrame) /\ WF_vars(PaintFrame)

FairSpec == Spec /\ Fairness

-----------------------------------------------------------------------------
(* Properties of what happens at the terminal *)

\* Every variable has a value of its kind.
TypeOK ==
    /\ pc \in {"start", "waiting", "drop", "clear", "say", "write", "ended"}
    /\ outcome.kind \in {"none", "api", "usage", "auth", "transport", "interrupted"}
    /\ reader \in {"off", "starting", "picking", "chosen", "failed", "reading", "flushing", "settling",
                   "entered", "interrupted", "too long"}
    /\ stream.open \in {"no", "open", "closed"} /\ pipe \in {"open", "closed", "full"}
    /\ exit \in (-1)..4 \cup {130} /\ (exit = -1 <=> pc # "ended")

\* However a command ends, at a second Ctrl-C too, the terminal is as the shell left it: unless
\* a picker's thread set it up only after the guards had dropped, which nothing undoes.
TerminalRestored == pc = "ended" /\ ~late => [screen EXCEPT !.line = "blank"] = Cooked

\* No frame of the status line is drawn after the line was cleared, although the task that
\* draws it may have been about to when the wait ended.
StatusIsCleared == pc \in {"write", "say", "ended"} => screen.line = "blank"

\* Nothing typed at a hidden prompt is echoed.
NothingIsEchoed == ~echoed

\* When a secret is too long, no part of what was pasted is left for the shell to run, in
\* whatever parts it arrived.
PasteDiesWithPrompt == pc = "ended" /\ outcome.message = {"too long"} => queue = <<>> /\ coming = <<>>

\* A secret that was entered is what was typed up to Enter, never cut short, and fits the buffer
\* that is never reallocated.
TypedFitsWhole ==
    reader = "entered" =>
        LET keys == SubSeq(task.keys, 1, Len(task.keys) - Len(queue) - Len(coming) - 1) IN
        Bytes(typed) <= MaxHidden /\ typed = FoldLeft(Edited, <<>>, keys)

\* Once Ctrl-C ended the wait, the command ends, whatever the threads beside it wait for.
InterruptEnds == outcome.kind = "interrupted" ~> pc = "ended"

-----------------------------------------------------------------------------
(* Properties of what is written *)

\* What a stream of lines means: the data of its lines in order, the value of the last with a field, and
\* the lines since the last blank one.
AddData(data, line) == IF line.field = "data" THEN Append(data, line) ELSE data
DataOf(lines) == FoldLeft(AddData, <<>>, lines)

LastValue(lines, field) ==
    LET at == {i \in DOMAIN lines : lines[i].field = field} IN IF at = {} THEN "" ELSE lines[Max(at)].value

Since(lines) == SubSeq(lines, Max({0} \cup {i \in DOMAIN lines : lines[i] = Blank}) + 1, Len(lines))

\* The event that a blank line after `lines` ends: the data and the last name since the last blank
\* line, and the last ID of all.
EventAfter(lines) ==
    LET name == LastValue(Since(lines), "event") IN
    [event |-> IF name = "" THEN "message" ELSE name, data |-> DataOf(Since(lines)), id |-> LastValue(lines, "id")]

\* Every blank line ends an event, if there is data for one.
AddEvent(of, line) ==
    LET event == EventAfter(of.lines) IN
    [lines |-> Append(of.lines, line),
     events |-> IF line = Blank /\ event.data # <<>> THEN Append(of.events, event) ELSE of.events]

EventsOf(lines) == FoldLeft(AddEvent, [lines |-> <<>>, events |-> <<>>], lines).events

Delivered == IF task.to.file THEN file ELSE stdout

\* The events written are those of the lines that were sent, in order and each with its own data
\* and name, wherever the chunks ended; a stream that closes has written all of them.
EventsAreTheStreams ==
    task.kind = "stream" =>
        LET events == EventsOf(task.lines)
            expected == [i \in DOMAIN events |-> IF task.to.file THEN events[i] ELSE ToStdout(events[i])]
        IN  /\ IsPrefix(Delivered, expected)
            /\ pc = "ended" /\ outcome = Done => Delivered = expected

\* The lines from i to j are of one event: no blank line is among them.
OfOneEvent(lines, i, j) == \A k \in i..j : lines[k] # Blank

\* A stream is refused only for a line that is too large, within a chunk of the bound, since what
\* is left of a line is measured with the chunk that ends it; or for one event whose data is too
\* large, whatever the events before it came to.
RefusedIsLarge ==
    /\ stream.error = "line too large" =>
           \E i \in DOMAIN task.lines : Len(Pieces(task.lines[i])) - 1 + MaxChunk > MaxPieces
    /\ stream.error = "event too large" =>
           \E i, j \in DOMAIN task.lines :
              OfOneEvent(task.lines, i, j) /\ Size(DataOf(SubSeq(task.lines, i, j))) > MaxData

\* No credential a request presented is on stderr, nor a field named as a secret; and unless asked
\* for with --show-secrets, neither is in a result on stdout, nor the credential in the data of an
\* event there. The name and the ID of an event are written as the service sent them
\* (src/output.rs:376 redacts the data), although src/api.rs:96 calls a credential "Text that must
\* never appear in output": a service that puts it there has it shown.
Hides(fields) == \A f \in fields : Secret \notin f.text /\ (f.key \in SecretKeys => f.text = {Redacted})

SecretsStayHidden ==
    /\ Secret \notin report.message \cup report.hint /\ Hides(report.fields)
    /\ ~task.to.show /\ task.kind = "call" => \A i \in DOMAIN stdout : Hides(stdout[i].fields)
    /\ ~task.to.show /\ task.kind = "stream" =>
           \A i \in DOMAIN stdout : \A j \in DOMAIN stdout[i].data : stdout[i].data[j].value # Secret

\* A command that ends with 0 has delivered all of its result, or the reader of stdout went away;
\* one that ends otherwise says why, except at Ctrl-C in a watch and at a second Ctrl-C.
ResultOrReport ==
    pc = "ended" =>
        /\ exit = 0 => (due = <<>> /\ outcome = Done) \/ pipe = "closed"
        /\ exit \notin {0, 130} => report.message # {}
        /\ report # NoReport => exit # 0

\* When a change got no answer, although it was sent, what is said never tells to run it again
\* before it was looked up.
WritesAreLookedUp ==
    LET unanswered == \/ outcome.kind = "interrupted"
                      \/ task.response.body = "cut"
                      \/ /\ task.response.body = "none"
                         /\ Classify(task.response.failure) \in {"timeout", "other"}
    IN  pc = "ended" /\ task.kind = "call" /\ task.change /\ ~task.auth /\ outcome # Done
            /\ report # NoReport /\ unanswered =>
        /\ "retry" \notin report.hint \cup report.message
        /\ (report.hint \cup report.message) \cap {"look up first", "reconcile", "may have been submitted"} # {}

\* When the API does not accept the credential, whatever the status it says so with, the report
\* names a next step; and when a 403 was answered to VOLTAGE_API_KEY, where the organization
\* came from.
CredentialIsNamed ==
    LET response == task.response
        sources == task.authorization.sources
    IN  pc = "ended" /\ task.kind = "call" /\ ~task.auth /\ outcome.kind \in {"api", "auth"} =>
        /\ response.status = 401 \/ response.type = "missing_credentials" => report.hint # {}
        /\ response.status = 403 /\ response.type # "missing_credentials"
             /\ task.authorization.by \in {"key", "token"} /\ sources \notin {None, "unset"} =>
               sources \in report.hint

\* Nothing the API said of a refusal is lost to the person who reads it: a field is shown, or its
\* text is in the message, or a field of its name is shown instead.
NothingIsLost ==
    pc = "ended" /\ outcome.detail.form = "http" /\ report # NoReport =>
        \A f \in outcome.detail.fields \cup outcome.detail.top :
            \/ f.text \subseteq report.message
            \/ \E shown \in report.fields : shown.key = f.key

-----------------------------------------------------------------------------
(* Properties of how results read *)

Result == stdout[Len(stdout)]
IsShown(kind) == task.kind = kind /\ stdout # <<>>

\* A table says of every column whether it is shown or hidden, fits its width unless one column
\* does not, leaves no column out that would have fit, and cuts no identifier.
TableIsHonest ==
    IsShown("table") =>
        LET columns == ColumnsOf(task.items)
            n == Len(Result.shown)
        IN  /\ Result.shown \o Result.hidden = columns
            /\ n > 1 /\ task.limit # NoLimit => Span(Result.widths, n) <= task.limit
            /\ n < Min({MaxColumns, Len(columns)}) =>
                   Span(Result.widths \o <<Narrowest(task.items, columns[n + 1])>>, n + 1) > task.limit
            /\ \A k \in 1..n : Result.shown[k] \notin Truncatable =>
                   \A i \in DOMAIN task.items : CellWidth(task.items[i], Result.shown[k]) <= Result.widths[k]

\* A frame of a watch never scrolls its header off the screen, unless the notice of hidden columns
\* takes more than its line.
FrameFits ==
    IsShown("live") =>
        \/ Len(Result.lines) <= task.height
        \/ task.height < Len(<<"title", "blank", "count", "more", "cursor">>)
        \/ NoticeWraps(Table(Result.kept, task.limit), task.limit)

\* Every payment that changed and is on the screen is marked, at its own row and nowhere else.
MarksAreRight ==
    IsShown("live") =>
        \A i \in DOMAIN Result.lines :
            LET row == i - 3 IN     \* below the title, the blank line and the table's header
            (i - 2 \in Result.marked) <=> (row \in DOMAIN Result.kept /\ Result.kept[row].id \in task.marked)

\* A card is a box: its lines are as wide as each other, and no wider than the terminal.
CardIsABox ==
    IsShown("card") =>
        \A i, j \in DOMAIN Result.card :
            Result.card[i] = Result.card[j] /\ (task.limit # NoLimit => Result.card[i] <= task.limit)

\* An amount reads as exactly the amount it is, with all of its decimals and a digit before them.
ReadableIsExact ==
    IsShown("amount") =>
        LET n == Decimals(UnitOf(task.amount)) IN
        /\ Len(Result.fraction) = n /\ Result.whole # <<>> /\ Result.negative = task.amount.negative
        /\ Value(Result.whole) * Power(n) + Value(Result.fraction) = Value(task.amount.digits)

\* A date is as many days from 1970 as the calendar counts.
IsLeap(year) == year % 4 = 0 /\ (year % 100 # 0 \/ year % 400 = 0)
MonthDays(year, month) ==
    CASE month = 2 -> IF IsLeap(year) THEN 29 ELSE 28 [] month \in {4, 6, 9, 11} -> 30 [] OTHER -> 31
YearDays(year) == IF IsLeap(year) THEN 366 ELSE 365

AddYear(days, year) == days + YearDays(year)
YearsFrom(first, last) == FoldLeft(AddYear, 0, [i \in 1..(last - first + 1) |-> first + i - 1])

AddMonth(days, m) == days + MonthDays(m.year, m.month)
MonthsBefore(year, month) == FoldLeft(AddMonth, 0, [m \in 1..(month - 1) |-> [year |-> year, month |-> m]])

DatesAreRight ==
    IsShown("date") =>
        Result.days = YearsFrom(1970, task.year - 1) - YearsFrom(task.year, 1969)
                      + MonthsBefore(task.year, task.month) + task.day - 1

\* An age is at least one of the unit it is told in, never told longer than it is, and less than
\* the next unit short of it.
OlderReadsOlder ==
    IsShown("age") /\ task.seconds >= Minute =>
        /\ Result.count >= 1
        /\ Result.count * Result.unit <= task.seconds /\ task.seconds < (Result.count + 1) * Result.unit

\* The estimate of a headline is of a balance in bitcoin of a wallet on mainnet, at the price.
Headlined == task.kind = "wallet" /\ stdout # <<>>

EstimateIsOfBitcoin ==
    Headlined /\ stdout[1].estimate # Refused =>
        LET balance == task.balances[stdout[1].of] IN
        /\ task.network = "mainnet" /\ balance.currency = "btc" /\ task.price # None
        /\ stdout[1].estimate = MsatsToCents(task.price, BaseUnits(balance))

\* The activity of a headline leaves out no payment that completed in its days, and every day
\* with one has a bar above the floor, which the busiest fills.
ActivityShows ==
    Headlined /\ stdout[1].days # <<>> =>
        LET days == stdout[1].days
            line == Sparkline(days)
        IN  /\ \A i \in DOMAIN task.payments :
                 Counts(task.payments[i], task.balances[1].currency) =>
                     days[Days - task.payments[i].age] >= BaseUnits(task.payments[i].balance)
            /\ \A d \in 1..Days : (line[d] = 0 <=> days[d] = 0)
                  /\ (days[d] # 0 /\ days[d] = Max(Range(days)) => line[d] = Bars - 1)

(* What the runs check of the console, in three statements. *)

\* However keys, redraws, Ctrl-C and a failing stdout come in between, the terminal is given back as it
\* was found, without a status line, an echoed secret or the rest of a paste (terminal.rs, output.rs).
TerminalIsKept ==
    TypeOK /\ TerminalRestored /\ StatusIsCleared /\ NothingIsEchoed /\ PasteDiesWithPrompt /\ TypedFitsWhole

\* stdout, stderr, the output file and the exit code tell one story, which is that of the answers:
\* the events of a stream whatever its chunks, a failure with what to do next, and no secret.
StoryIsTrue ==
    /\ EventsAreTheStreams /\ RefusedIsLarge
    /\ ResultOrReport /\ NothingIsLost
    /\ WritesAreLookedUp /\ CredentialIsNamed /\ SecretsStayHidden

\* What is laid out for a reader fits the terminal and agrees with the answer it shows: columns, marks,
\* live frames, cards, amounts, dates, ages, estimates and the activity of a wallet (human.rs, output.rs).
ViewIsHonest ==
    /\ TableIsHonest /\ FrameFits /\ MarksAreRight /\ CardIsABox
    /\ ReadableIsExact /\ DatesAreRight /\ OlderReadsOlder
    /\ EstimateIsOfBitcoin /\ ActivityShows

=============================================================================
