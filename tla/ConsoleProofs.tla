---------------------------- MODULE ConsoleProofs ----------------------------
(***************************************************************************)
(* Proofs about Console for any commands, answers, keys and bounds: of     *)
(* every order in which the command, the thread that reads keys, the task  *)
(* that redraws the status line, Ctrl-C and a failing stdout take turns.   *)
(* First that the terminal is left as it was found, then that what is      *)
(* written, reported and exited with is one story.                         *)
(***************************************************************************)
EXTENDS Console, SequenceTheorems, TLAPS

\* What is computed key by key: the secret, and how many bytes it has.
Editing == INSTANCE Folding WITH Op <- Edited
Counted(n, key) == n + key.bytes
Counting == INSTANCE Folding WITH Op <- Counted

-----------------------------------------------------------------------------
(* The inductive invariant of TerminalIsKept *)

\* The shape of the records.
Screens == [raw : BOOLEAN, paste : BOOLEAN, cursor : BOOLEAN, alternate : BOOLEAN, line : {"blank", "status"}]
StatusLines == [guard : BOOLEAN, cleared : BOOLEAN, locked : BOOLEAN,
                redraw : {"off", "waiting", "drawing", "painting"}]
IsStream(s) == DOMAIN s = {"open", "pending", "asm", "events", "error"} /\ s = [field \in DOMAIN s |-> s[field]]

Records == task \in Tasks /\ screen \in Screens /\ status \in StatusLines /\ IsStream(stream)

\* Which kinds of tasks receive a stream and read keys, and what of the wait is over.
Roles ==
    /\ task.kind # "stream" => stream.open = "no"
    /\ task.kind \notin Prompts => reader = "off"
    /\ task.kind = "hidden" =>
           reader \in {"off", "reading", "flushing", "settling", "entered", "interrupted", "too long"}
    /\ task.kind = "pick" => reader \in {"off", "starting", "picking", "chosen", "interrupted", "failed"}
    /\ pc = "start" => reader = "off"
    /\ task.kind \in Prompts /\ pc = "waiting" => reader # "off"
    /\ task.kind = "live" /\ pc \in {"drop", "clear", "say"} => outcome.kind # "none"

\* A terminal without a mode of this program.
Plain(t) == ~t.raw /\ ~t.paste /\ t.cursor /\ ~t.alternate

\* What each kind of wait has changed of the terminal, and where it is put back.
Modes ==
    /\ task.kind \notin {"hidden", "pick", "live"} => Plain(screen)
    /\ task.kind = "hidden" =>
           /\ ~screen.paste /\ screen.cursor /\ ~screen.alternate
           /\ pc = "waiting" => screen.raw
           /\ pc \notin {"waiting", "drop"} => ~screen.raw
    /\ task.kind = "pick" =>
           /\ ~screen.alternate
           /\ reader \in {"off", "starting"} \/ (pc \notin {"waiting", "drop"} /\ ~late) => Plain(screen)
    /\ task.kind = "live" =>
           /\ ~screen.raw /\ ~screen.paste
           /\ pc \notin {"write", "waiting", "drop"} => screen.cursor /\ ~screen.alternate

\* The status line stands, and may be drawn, only between its start and its end; a frame holds the lock.
Watched == {"waiting", "drop", "clear"}
Tended ==
    /\ screen.line = "status" \/ ~status.cleared => pc \in Watched
    /\ status.locked <=> status.redraw = "painting"
    /\ status.locked => ~status.cleared

\* What the keys make of a secret.
Made(keys) == FoldLeft(Edited, <<>>, keys)

\* `read` are the keys that the thread took of what was typed, in order.
Took(read) == read \in Seq(KeyPress) /\ task.keys = read \o (queue \o coming)

Keyed ==
    /\ queue \in Seq(KeyPress) /\ coming \in Seq(KeyPress) /\ typed \in Seq(KeyPress)
    /\ task.kind # "hidden" => queue = <<>> /\ coming = <<>> /\ reader # "entered"
    /\ task.kind = "hidden" /\ reader \in {"off", "reading"} =>
           \E read : Took(read) /\ typed = Made(read)
    /\ reader = "entered" =>
           \E read, key : Took(Append(read, key)) /\ read \in Seq(KeyPress) /\ typed = Made(read)
    /\ reader \in {"off", "reading", "entered"} => Bytes(typed) <= MaxHidden
    /\ reader = "too long" => queue = <<>> /\ coming = <<>>
    /\ task.kind = "hidden" /\ outcome.message = {"too long"} => reader = "too long"
    /\ ~echoed

Inv == TypeOK /\ Records /\ Roles /\ Modes /\ Tended /\ Keyed

-----------------------------------------------------------------------------
(* What the operators do to the records *)

\* The modes that an operator leaves as they were.
SameBut(t, u, changed) == \A mode \in {"raw", "paste", "cursor", "alternate", "line"} \ changed : u[mode] = t[mode]

\* What each change of the terminal, and each guard that drops, does to its modes, and what it leaves.
LEMMA ModesOf ==
    ASSUME NEW t \in Screens
    PROVE  /\ {EnableRaw(t), DisableRaw(t), BeginPick(t), EndPick(t), DropPickerScreen(t), EnterLive(t), LeaveLive(t)}
                  \subseteq Screens
           /\ EnableRaw(t).raw /\ SameBut(t, EnableRaw(t), {"raw"})
           /\ ~DisableRaw(t).raw /\ SameBut(t, DisableRaw(t), {"raw"})
           /\ SameBut(t, BeginPick(t), {"raw", "paste", "cursor"})
           /\ ~EndPick(t).raw /\ ~EndPick(t).paste /\ EndPick(t).cursor /\ SameBut(t, EndPick(t), {"raw", "paste", "cursor"})
           /\ ~DropPickerScreen(t).paste /\ DropPickerScreen(t).cursor
           /\ SameBut(t, DropPickerScreen(t), {"paste", "cursor"})
           /\ SameBut(t, EnterLive(t), {"cursor", "alternate"})
           /\ LeaveLive(t).cursor /\ ~LeaveLive(t).alternate /\ SameBut(t, LeaveLive(t), {"cursor", "alternate"})
<1>1. {EnableRaw(t), DisableRaw(t), BeginPick(t), EndPick(t)} \subseteq Screens
  BY DEF Screens, EnableRaw, DisableRaw, BeginPick, EndPick
<1>2. {DropPickerScreen(t), EnterLive(t), LeaveLive(t)} \subseteq Screens
  BY DEF Screens, DropPickerScreen, EnterLive, LeaveLive
<1>3. EnableRaw(t).raw /\ SameBut(t, EnableRaw(t), {"raw"})
  BY DEF Screens, EnableRaw, SameBut
<1>4. ~DisableRaw(t).raw /\ SameBut(t, DisableRaw(t), {"raw"})
  BY DEF Screens, DisableRaw, SameBut
<1>5. SameBut(t, BeginPick(t), {"raw", "paste", "cursor"})
  BY DEF Screens, BeginPick, SameBut
<1>6. ~EndPick(t).raw /\ ~EndPick(t).paste /\ EndPick(t).cursor /\ SameBut(t, EndPick(t), {"raw", "paste", "cursor"})
  BY DEF Screens, EndPick, SameBut
<1>7. ~DropPickerScreen(t).paste /\ DropPickerScreen(t).cursor /\ SameBut(t, DropPickerScreen(t), {"paste", "cursor"})
  BY DEF Screens, DropPickerScreen, SameBut
<1>8. SameBut(t, EnterLive(t), {"cursor", "alternate"})
  BY DEF Screens, EnterLive, SameBut
<1>9. LeaveLive(t).cursor /\ ~LeaveLive(t).alternate /\ SameBut(t, LeaveLive(t), {"cursor", "alternate"})
  BY DEF Screens, LeaveLive, SameBut
<1> QED
  BY <1>1, <1>2, <1>3, <1>4, <1>5, <1>6, <1>7, <1>8, <1>9

\* What a command draws on the line of the status does not touch the modes.
LEMMA LineOf ==
    ASSUME NEW t \in Screens, NEW line \in {"blank", "status"}
    PROVE  /\ [t EXCEPT !.line = line] \in Screens /\ [t EXCEPT !.line = line].line = line
           /\ SameBut(t, [t EXCEPT !.line = line], {"line"})
BY DEF Screens, SameBut

\* The status line and its redraw stay in their states.
LEMMA StatusOf ==
    ASSUME NEW s \in StatusLines
    PROVE  /\ NoStatus \in StatusLines /\ \A animated : Drawn(animated) \in StatusLines
           /\ {Tick(s), Checked(s), Painted(s), Aborted(s), Cleared(s)} \subseteq StatusLines
<1>1. NoStatus \in StatusLines /\ \A animated : Drawn(animated) \in StatusLines
  BY DEF StatusLines, NoStatus, Drawn
<1>2. Tick(s) \in StatusLines /\ Aborted(s) \in StatusLines /\ Cleared(s) \in StatusLines
  BY DEF StatusLines, Tick, Aborted, Cleared
<1>3. Checked(s) \in StatusLines
  BY DEF StatusLines, Checked
<1>4. Painted(s) \in StatusLines
  BY DEF StatusLines, Painted
<1> QED
  BY <1>1, <1>2, <1>3, <1>4

\* The kinds of errors that the answers of the auth service, the API and a stream become.
LEMMA KindsOfErrors ==
    \A response, authorization, change, saved :
        /\ AuthError(response, saved).kind \in {"api", "auth", "transport"}
        /\ SendError(authorization, change, response).kind \in {"api", "auth", "transport"}
        /\ OpenError(response).kind \in {"none", "api", "auth", "transport"}
<1> TAKE response, authorization, change, saved
<1>1. \A kind, message : Error(kind, message).kind = kind
  BY DEF Error
<1>2. \A failure, consequence, write, fixed : NoResponse(failure, consequence, write, fixed).kind = "transport"
  BY DEF Error, NoResponse
<1>3. \A code : KindFor(code) \in {"api", "auth"}
  BY DEF KindFor
<1>4. \A message, fields, hint : [Error("auth", message) EXCEPT !.hint = hint, !.detail.form = "credential", !.detail.fields = fields].kind = "auth"
  BY DEF Error
<1>5. AuthError(response, saved).kind \in {"api", "auth", "transport"}
  <2>1. CASE response.body = "none"
    BY <1>2, <2>1, Zenon DEF AuthError
  <2>2. CASE response.body # "none"
    BY <2>2, SMTT(20) DEF AuthError, Error, NoDetail
  <2> QED
    BY <2>1, <2>2
<1>6. OpenError(response).kind \in {"none", "api", "auth", "transport"}
  <2>1. CASE response.body = "none"
    BY <1>2, <2>1, Zenon DEF OpenError
  <2>2. CASE response.body # "none"
    BY <1>3, <2>2 DEF OpenError, Done, Error
  <2> QED
    BY <2>1, <2>2
<1>7. BodyError(response.body, change).kind = "transport"
  BY <1>1 DEF BodyError
<1>8. NonJson(authorization, response).kind \in {"api", "auth", "transport"}
  BY <1>3 DEF NonJson, Error
<1>9. RedactedError(Rejection(authorization, response), Secret).kind \in {"api", "auth", "transport"}
  BY <1>3 DEF RedactedError, Rejection, Error
<1>10. SendError(authorization, change, response).kind \in {"api", "auth", "transport"}
  <2>1. CASE response.body = "none"
    BY <1>2, <2>1, Zenon DEF SendError
  <2>2. CASE response.body # "none" /\ response.body \in {"large", "cut"}
    BY <1>7, <2>2, Zenon DEF SendError
  <2>3. CASE response.body = "html"
    BY <1>8, <2>3 DEF SendError
  <2>4. CASE response.body \notin {"none", "large", "cut", "html"}
    BY <1>9, <2>4 DEF SendError
  <2> QED
    BY <2>1, <2>2, <2>3, <2>4
<1> QED
  BY <1>5, <1>6, <1>10

\* An error that ends a command gives one of the documented exit codes.
LEMMA ExitIsKnown ==
    \A error : error.kind \in {"none", "api", "usage", "auth", "transport", "interrupted"} =>
                  ExitOf(error) \in 0..4 \cup {130}
<1>1. \A kind : kind \in {"none", "api", "usage", "auth", "transport", "interrupted"} /\ kind # "none" =>
          ExitCode(kind) \in {1, 2, 3, 4, 130}
  BY DEF ExitCode
<1>2. ASSUME NEW error, error.kind \in {"none", "api", "usage", "auth", "transport", "interrupted"}
      PROVE  ExitOf(error) = 0 \/ (error.kind # "none" /\ ExitOf(error) = ExitCode(error.kind))
  BY DEF ExitOf
<1> QED
  BY <1>1, <1>2

\* To write may fail, which ends the wait, and leaves all but what is written alone.
LEMMA WritesAre ==
    WriteFile \/ WriteStdout =>
        /\ pc = "write" /\ UNCHANGED <<task, stream, rest, input, display, pipe, end>>
        /\ \/ pc' = pc /\ outcome' = outcome
           \/ pc' = "drop" /\ outcome'.kind = "transport" /\ outcome'.message = {"write"}
<1>1. /\ Error("transport", {"write"}).kind = "transport" /\ Error("transport", {"write"}).message = {"write"}
      /\ [Error("transport", {"write"}) EXCEPT !.closed = (pipe = "closed")].kind = "transport"
      /\ [Error("transport", {"write"}) EXCEPT !.closed = (pipe = "closed")].message = {"write"}
  BY DEF Error
<1>2. CASE WriteFile
  BY <1>1, <1>2, Zenon DEF WriteFile, WaitEnds, wait
<1>3. CASE WriteStdout
  BY <1>1, <1>3, Zenon DEF WriteStdout, WaitEnds, wait
<1> QED
  BY <1>2, <1>3

\* Which threads and streams a task has.
LEMMA RolesKept ==
    Roles /\ [Next]_vars => Roles'
<1>1. SUFFICES ASSUME Roles, [Next]_vars PROVE Roles'
  OBVIOUS
<1> USE DEF wait, input, display, output, end, WaitEnds
<1>2. CASE StartStatus
  BY <1>1, <1>2 DEF Roles, Prompts, Statuses, Waits, StartStatus
<1>3. CASE StartHidden
  BY <1>1, <1>3 DEF Roles, Prompts, Statuses, Waits, StartHidden, EndWith
<1>4. CASE StartPick
  BY <1>1, <1>4 DEF Roles, Prompts, Statuses, Waits, StartPick
<1>5. CASE StartLive
  BY <1>1, <1>5 DEF Roles, Prompts, Statuses, Waits, StartLive
<1>6. CASE StartShow
  BY <1>1, <1>6 DEF Roles, Prompts, Statuses, Waits, StartShow
<1>7. CASE Answer
  BY <1>1, <1>7 DEF Roles, Prompts, Statuses, Waits, Answer
<1>8. CASE Open
  BY <1>1, <1>8 DEF Roles, Prompts, Statuses, Waits, Open
<1>9. CASE Receive
  BY <1>1, <1>9 DEF Roles, Prompts, Statuses, Waits, Receive
<1>10. CASE Close
  BY <1>1, <1>10 DEF Roles, Prompts, Statuses, Waits, Close
<1>11. CASE Prompt
  BY <1>1, <1>11 DEF Roles, Prompts, Statuses, Waits, Prompt
<1>12. CASE StopLive
  BY <1>1, <1>12 DEF Roles, Prompts, Statuses, Waits, StopLive, Error
<1>13. CASE Interrupt
  BY <1>1, <1>13 DEF Roles, Prompts, Statuses, Waits, Interrupt, Interrupted, Error
<1>14. CASE Drop
  BY <1>1, <1>14 DEF Roles, Prompts, Statuses, Waits, Drop
<1>15. CASE Clear
  BY <1>1, <1>15 DEF Roles, Prompts, Statuses, Waits, Clear
<1>16. CASE Say
  BY <1>1, <1>16 DEF Roles, Prompts, Statuses, Waits, Say, EndWith
<1>17. CASE Again
  BY <1>1, <1>17 DEF Roles, Prompts, Statuses, Waits, Again
<1>18. CASE WriteFile \/ WriteStdout
  BY <1>1, <1>18, WritesAre DEF Roles, Prompts, Statuses, Waits
<1>19. CASE Written
  BY <1>1, <1>19 DEF Roles, Prompts, Statuses, Waits, Written, EndWith
<1>20. CASE Read
  BY <1>1, <1>20 DEF Roles, Prompts, Statuses, Waits, Read, TypeHidden
<1>21. CASE Flush
  BY <1>1, <1>21 DEF Roles, Prompts, Statuses, Waits, Flush
<1>22. CASE Settle
  BY <1>1, <1>22 DEF Roles, Prompts, Statuses, Waits, Settle
<1>23. CASE BeginPicking
  BY <1>1, <1>23 DEF Roles, Prompts, Statuses, Waits, BeginPicking
<1>24. CASE EndPicking
  BY <1>1, <1>24 DEF Roles, Prompts, Statuses, Waits, EndPicking
<1>25. CASE NextFrame
  BY <1>1, <1>25 DEF Roles, Prompts, Statuses, Waits, NextFrame
<1>26. CASE CheckFrame
  BY <1>1, <1>26 DEF Roles, Prompts, Statuses, Waits, CheckFrame
<1>27. CASE PaintFrame
  BY <1>1, <1>27 DEF Roles, Prompts, Statuses, Waits, PaintFrame
<1>28. CASE Type
  BY <1>1, <1>28 DEF Roles, Prompts, Statuses, Waits, Type
<1>29. CASE StdoutFails
  BY <1>1, <1>29 DEF Roles, Prompts, Statuses, Waits, StdoutFails
<1>30. CASE UNCHANGED vars
  BY <1>1, <1>30 DEF vars, Roles, Prompts, Statuses, Waits
<1> QED
  BY <1>1, <1>2, <1>3, <1>4, <1>5, <1>6, <1>7, <1>8, <1>9, <1>10, <1>11, <1>12, <1>13, <1>14, <1>15, <1>16, <1>17, <1>18, <1>19, <1>20, <1>21, <1>22, <1>23, <1>24, <1>25, <1>26, <1>27, <1>28, <1>29, <1>30 DEF Next, Main, Reader, Redraw, Outside

\* Opening, closing and receiving change fields of a stream that it has.
LEMMA StreamsAre ==
    ASSUME NEW s, IsStream(s)
    PROVE  /\ \A open : IsStream([s EXCEPT !.open = open]) /\ [s EXCEPT !.open = open].open = open
           /\ \A chunk : IsStream(Received(s, chunk)) /\ Received(s, chunk).open = s.open
<1>1. \A open : IsStream([s EXCEPT !.open = open]) /\ [s EXCEPT !.open = open].open = open
  BY DEF IsStream
<1>2. ASSUME NEW chunk PROVE IsStream(Received(s, chunk)) /\ Received(s, chunk).open = s.open
  <2> DEFINE pending == s.pending \o chunk
             cut == CutLines(pending)
             read == Assembled(s.asm, cut.lines)
  <2>1. CASE Len(pending) > MaxPieces
    <3>1. Received(s, chunk) = [s EXCEPT !.error = "line too large", !.events = <<>>]
      BY <2>1, Zenon DEF Received
    <3> QED
      BY <3>1 DEF IsStream
  <2>2. CASE ~ (Len(pending) > MaxPieces)
    <3>1. Received(s, chunk) = [s EXCEPT !.pending = cut.left, !.asm = read.asm, !.events = read.events,
                                         !.error = read.error]
      BY <2>2, Zenon DEF Received
    <3> HIDE DEF pending, cut, read
    <3>2. IsStream([s EXCEPT !.pending = cut.left, !.asm = read.asm, !.events = read.events, !.error = read.error])
      BY DEF IsStream
    <3>3. [s EXCEPT !.pending = cut.left, !.asm = read.asm, !.events = read.events, !.error = read.error].open
             = s.open
      BY DEF IsStream
    <3> QED
      BY <3>1, <3>2, <3>3
  <2> QED
    BY <2>1, <2>2
<1> QED
  BY <1>1, <1>2

\* The records keep their shapes.
LEMMA RecordsKept ==
    Records /\ [Next]_vars => Records'
<1>1. SUFFICES ASSUME Records, [Next]_vars PROVE Records'
  OBVIOUS
<1> USE DEF wait, input, display, output, end, WaitEnds
<1>2. CASE StartStatus
  BY <1>1, <1>2, StatusOf, LineOf DEF Records, StartStatus
<1>3. CASE StartHidden
  BY <1>1, <1>3, ModesOf DEF Records, StartHidden, Prompted, EndWith
<1>4. CASE StartPick
  BY <1>1, <1>4 DEF Records, StartPick
<1>5. CASE StartLive
  BY <1>1, <1>5, ModesOf DEF Records, StartLive
<1>6. CASE StartShow
  BY <1>1, <1>6 DEF Records, StartShow
<1>7. CASE Answer
  BY <1>1, <1>7 DEF Records, Answer
<1>8. CASE Open
  BY <1>1, <1>8, StreamsAre DEF Records, Open
<1>9. CASE Receive
  BY <1>1, <1>9, StreamsAre DEF Records, Receive
<1>10. CASE Close
  BY <1>1, <1>10, StreamsAre DEF Records, Close
<1>11. CASE Prompt
  BY <1>1, <1>11 DEF Records, Prompt
<1>12. CASE StopLive
  BY <1>1, <1>12 DEF Records, StopLive
<1>13. CASE Interrupt
  BY <1>1, <1>13 DEF Records, Interrupt
<1>14. CASE Drop
  BY <1>1, <1>14, ModesOf, StatusOf DEF Records, Drop, Dropped
<1>15. CASE Clear
  BY <1>1, <1>15, LineOf, StatusOf DEF Records, Clear
<1>16. CASE Say
  BY <1>1, <1>16 DEF Records, Say
<1>17. CASE Again
  BY <1>1, <1>17 DEF Records, Again
<1>18. CASE WriteFile \/ WriteStdout
  BY <1>1, <1>18, WritesAre DEF Records
<1>19. CASE Written
  BY <1>1, <1>19 DEF Records, Written
<1>20. CASE Read
  BY <1>1, <1>20 DEF Records, Read
<1>21. CASE Flush
  BY <1>1, <1>21 DEF Records, Flush
<1>22. CASE Settle
  BY <1>1, <1>22 DEF Records, Settle
<1>23. CASE BeginPicking
  BY <1>1, <1>23, ModesOf DEF Records, BeginPicking
<1>24. CASE EndPicking
  BY <1>1, <1>24, ModesOf DEF Records, EndPicking
<1>25. CASE NextFrame
  BY <1>1, <1>25, StatusOf DEF Records, NextFrame
<1>26. CASE CheckFrame
  BY <1>1, <1>26, StatusOf DEF Records, CheckFrame
<1>27. CASE PaintFrame
  BY <1>1, <1>27, StatusOf, LineOf DEF Records, PaintFrame
<1>28. CASE Type
  BY <1>1, <1>28 DEF Records, Type
<1>29. CASE StdoutFails
  BY <1>1, <1>29 DEF Records, StdoutFails
<1>30. CASE UNCHANGED vars
  BY <1>1, <1>30 DEF vars, Records
<1> QED
  BY <1>1, <1>2, <1>3, <1>4, <1>5, <1>6, <1>7, <1>8, <1>9, <1>10, <1>11, <1>12, <1>13, <1>14, <1>15, <1>16, <1>17, <1>18, <1>19, <1>20, <1>21, <1>22, <1>23, <1>24, <1>25, <1>26, <1>27, <1>28, <1>29, <1>30 DEF Next, Main, Reader, Redraw, Outside

\* The kinds of errors that a wait ends with.
Known(error) == error.kind \in {"none", "api", "usage", "auth", "transport", "interrupted"}

\* A wait ends with an error of a kind that has an exit code, or with none.
LEMMA OutcomeKept ==
    Known(outcome) /\ Next => Known(outcome')
<1>1. \A message : \A kind \in {"none", "api", "usage", "auth", "transport", "interrupted"} : Known(Error(kind, message))
  BY DEF Known, Error
<1>2. Known(Done) /\ Known(Interrupted)
  BY <1>1 DEF Done, Interrupted
<1>3. \A read : Known(Meaning(read))
  BY <1>1, <1>2, Zenon DEF Meaning
<1>4. Known([Interrupted EXCEPT !.message = @ \cup {"may have been submitted"}])
  BY DEF Known, Interrupted, Error
<1>5. \A response, authorization, change, saved :
         Known(AuthError(response, saved)) /\ Known(SendError(authorization, change, response)) /\ Known(OpenError(response))
  BY KindsOfErrors DEF Known
<1>6. CASE StartStatus \/ StartPick \/ StartLive \/ StartShow \/ Drop \/ Clear \/ Again \/ Read \/ Flush \/ Settle \/ BeginPicking \/ EndPicking \/ NextFrame \/ CheckFrame \/ PaintFrame \/ Type \/ StdoutFails
  BY <1>6, Zenon DEF StartStatus, StartPick, StartLive, StartShow, Drop, Clear, Again, Read, Flush, Settle, BeginPicking, EndPicking, NextFrame, CheckFrame, PaintFrame, Type, StdoutFails
<1>7. CASE StartHidden \/ Say \/ Written
  BY <1>1, <1>2, <1>7, Zenon DEF StartHidden, Say, Written, EndWith
<1>8. CASE Answer \/ Open \/ Receive \/ Close
  BY <1>1, <1>2, <1>5, <1>8, Zenon DEF Answer, Open, Receive, Close, WaitEnds
<1>9. CASE Prompt \/ StopLive \/ Interrupt
  BY <1>1, <1>2, <1>3, <1>4, <1>9, Zenon DEF Prompt, StopLive, Interrupt, WaitEnds
<1>10. CASE WriteFile \/ WriteStdout
  BY <1>10, WritesAre DEF Known
<1> QED
  BY <1>6, <1>7, <1>8, <1>9, <1>10 DEF Next, Main, Reader, Redraw, Outside

\* Where a command and the thread that reads may be.
Control ==
    /\ pc \in {"start", "waiting", "drop", "clear", "say", "write", "ended"}
    /\ reader \in {"off", "starting", "picking", "chosen", "failed", "reading", "flushing", "settling",
                   "entered", "interrupted", "too long"}
    /\ pipe \in {"open", "closed", "full"}

\* The exit code is known when the command has ended, and only then.
Exits == exit \in (-1)..4 \cup {130} /\ (exit = -1 <=> pc # "ended")

Codes == 0..4 \cup {130}

\* The type invariant, in parts.
LEMMA TypeParts == TypeOK <=> Control /\ Exits /\ Known(outcome) /\ stream.open \in {"no", "open", "closed"}
BY DEF TypeOK, Control, Exits, Known

\* Nothing but the main task ends the command or starts a wait.
LEMMA OthersLeavePc ==
    ASSUME Reader \/ Redraw \/ Outside
    PROVE  UNCHANGED <<pc, outcome, task, stream, due, exit, report>> /\ pc # "ended"
BY Zenon DEF Reader, Redraw, Outside, Read, Flush, Settle, BeginPicking, EndPicking, NextFrame, CheckFrame, PaintFrame,
             Type, StdoutFails, wait, output, end

\* A command and its thread go from one of their places to another.
LEMMA ControlKept ==
    Control /\ Next => Control'
<1>1. CASE StartStatus \/ StartHidden \/ StartPick \/ StartLive \/ StartShow
  BY <1>1 DEF StartStatus, StartHidden, StartPick, StartLive, StartShow, Control, EndWith, input, output
<1>2. CASE Answer \/ Open \/ Receive \/ Close
  BY <1>2 DEF Answer, Open, Receive, Close, Control, WaitEnds, input, output
<1>3. CASE Prompt \/ StopLive \/ Interrupt \/ Drop \/ Clear
  BY <1>3 DEF Prompt, StopLive, Interrupt, Drop, Clear, Control, WaitEnds, input, output
<1>4. CASE Say \/ Again \/ Written
  BY <1>4 DEF Say, Again, Written, Control, EndWith, input, output
<1>5. CASE WriteFile \/ WriteStdout
  BY <1>5, WritesAre DEF Control, input, output
<1>6. CASE Reader
  BY <1>6 DEF Reader, Read, Flush, Settle, BeginPicking, EndPicking, Control, TypeHidden, input, output
<1>7. CASE Redraw
  BY <1>7 DEF Redraw, NextFrame, CheckFrame, PaintFrame, Control, input, output
<1>8. CASE Outside
  BY <1>8 DEF Outside, Type, StdoutFails, Control, input, output
<1> QED
  BY <1>1, <1>2, <1>3, <1>4, <1>5, <1>6, <1>7, <1>8 DEF Next, Main

\* A command has its exit code when it ends, and not before.
LEMMA ExitsKept ==
    Known(outcome) /\ Exits /\ Next => Exits'
<1>1. \A error : Known(error) => ExitOf(error) \in Codes
  BY ExitIsKnown DEF Known, Codes
<1>2. Known(Done) /\ Known(Error("transport", {"terminal"}))
  BY DEF Known, Done, Error
<1>3. CASE StartHidden \/ Say \/ Written
  <2>1. Known(outcome) =>
           \/ pc' = "ended" /\ exit' \in Codes
           \/ pc # "ended" /\ pc' # "ended" /\ exit' = exit
    <3>1. CASE StartHidden
      BY <1>1, <1>2, <3>1, Zenon DEF StartHidden, EndWith, end
    <3>2. CASE Say
      BY <1>1, <3>2, Zenon DEF Say, EndWith
    <3>3. CASE Written
      BY <1>1, <1>2, <3>3, Zenon DEF Written, EndWith, end
    <3> QED
      BY <1>3, <3>1, <3>2, <3>3
  <2> QED
    BY <2>1 DEF Exits, Codes
<1>4. CASE Again
  BY <1>4 DEF Again, Exits
<1>5. CASE Main /\ ~ (StartHidden \/ Say \/ Written \/ Again)
  <2>1. pc # "ended" /\ pc' # "ended" /\ exit' = exit
    <3>1. CASE StartStatus \/ StartPick \/ StartLive \/ StartShow
      BY <3>1, Zenon DEF StartStatus, StartPick, StartLive, StartShow, end
    <3>2. CASE Answer \/ Open \/ Receive \/ Close \/ Prompt \/ StopLive \/ Interrupt
      BY <3>2, Zenon DEF Answer, Open, Receive, Close, Prompt, StopLive, Interrupt, WaitEnds, end
    <3>3. CASE Drop \/ Clear
      BY <3>3 DEF Drop, Clear, end
    <3>4. CASE WriteFile \/ WriteStdout
      BY <3>4, WritesAre DEF end
    <3> QED
      BY <1>5, <3>1, <3>2, <3>3, <3>4 DEF Main
  <2> QED
    BY <2>1 DEF Exits
<1>6. CASE Reader \/ Redraw \/ Outside
  BY <1>6, OthersLeavePc DEF Exits
<1> QED
  BY <1>3, <1>4, <1>5, <1>6 DEF Next

\* A stream is opened, and then closed.
LEMMA StreamKept ==
    Records /\ stream.open \in {"no", "open", "closed"} /\ Next => stream'.open \in {"no", "open", "closed"}
<1>1. CASE Open \/ Close \/ Receive
  <2>1. Records => stream'.open \in {"open", "closed"} \/ stream' = stream
    <3>1. CASE Open
      BY <3>1, StreamsAre DEF Open, Records
    <3>2. CASE Close
      BY <3>2, StreamsAre DEF Close, Records
    <3>3. CASE Receive
      BY <3>3, StreamsAre DEF Receive, Records
    <3> QED
      BY <1>1, <3>1, <3>2, <3>3
  <2> QED
    BY <2>1
<1>2. CASE WriteFile \/ WriteStdout
  BY <1>2, WritesAre
<1>3. CASE Main /\ ~ (Open \/ Close \/ Receive \/ WriteFile \/ WriteStdout)
  <2>1. stream' = stream
    BY <1>3, Zenon DEF Main, StartStatus, StartHidden, StartPick, StartLive, StartShow, Answer, Prompt, StopLive,
                Interrupt, Drop, Clear, Say, Again, Written, wait
  <2> QED
    BY <2>1
<1>4. CASE Reader \/ Redraw \/ Outside
  BY <1>4, OthersLeavePc
<1> QED
  BY <1>1, <1>2, <1>3, <1>4 DEF Next

\* The type invariant is kept.
LEMMA TypeKept ==
    TypeOK /\ Records /\ [Next]_vars => TypeOK'
<1>1. CASE Next
  <2>1. Control' /\ Exits' /\ Known(outcome') /\ stream'.open \in {"no", "open", "closed"} => TypeOK'
    BY DEF TypeOK, Control, Exits, Known
  <2> QED
    BY <1>1, <2>1, TypeParts, ControlKept, ExitsKept, OutcomeKept, StreamKept, Zenon
<1>2. TypeOK /\ UNCHANGED vars => TypeOK'
  BY DEF TypeOK, vars, wait, input, display, output, end
<1> QED
  BY <1>1, <1>2

\* Which modes a step of the main task changes.
LEMMA ModesKept ==
    Records /\ Control /\ Roles /\ Modes /\ [Next]_vars => Modes'
<1> SUFFICES ASSUME Records, Control, Roles, Modes, [Next]_vars PROVE Modes'
  OBVIOUS
<1>s. screen \in Screens
  BY DEF Records
<1> USE DEF Modes, Plain, SameBut
<1>1. CASE StartStatus
  BY <1>s, <1>1, LineOf DEF StartStatus, Statuses, wait, input
<1>2. CASE StartHidden
  BY <1>s, <1>2, ModesOf DEF StartHidden, Prompted, EndWith, wait
<1>3. CASE StartPick
  BY <1>3 DEF StartPick, Roles, Prompts, wait, display
<1>4. CASE StartLive
  BY <1>s, <1>4, ModesOf DEF StartLive, wait, input
<1>5. CASE StartShow
  BY <1>5 DEF StartShow, Waits, Statuses, Prompts, wait, input, display
<1>6. CASE Answer \/ Open \/ Receive \/ Close
  BY <1>6 DEF Answer, Open, Receive, Close, Roles, WaitEnds, wait, input, display
<1>7. CASE Prompt \/ StopLive \/ Interrupt
  BY <1>7 DEF Prompt, StopLive, Interrupt, WaitEnds, wait, input, display
<1>8. CASE Drop
  BY <1>s, <1>8, ModesOf DEF Drop, Dropped, wait, input, Records
<1>9. CASE Clear
  <2>1. SameBut(screen, screen', {"line"})
    BY <1>s, <1>9, LineOf DEF Clear
  <2>2. /\ UNCHANGED <<task, reader, late, outcome>> /\ pc = "clear"
        /\ pc' \in {"write", "say"} /\ (outcome.kind # "none" => pc' = "say")
    BY <1>9 DEF Clear, wait, input
  <2> QED
    BY <2>1, <2>2 DEF Roles
<1>10. CASE Say \/ Again
  BY <1>10 DEF Say, Again, EndWith, wait, input, display
<1>11. CASE Written
  BY <1>11 DEF Written, EndWith, wait, input, display
<1>12. CASE WriteFile \/ WriteStdout
  BY <1>12, WritesAre DEF input, display
<1>13. CASE Read \/ Flush \/ Settle
  BY <1>13 DEF Read, Flush, Settle, Roles, wait, display
<1>14. CASE BeginPicking
  <2>1. task.kind = "pick" /\ task' = task /\ pc' = pc /\ reader' = "picking"
    BY <1>14 DEF BeginPicking, Roles, Prompts, wait
  <2>2. pc \notin {"waiting", "drop"} => late'
    BY <1>14 DEF BeginPicking
  <2>3. ~screen'.alternate
    BY <1>s, <1>14, <2>1, ModesOf DEF BeginPicking
  <2> QED
    BY <2>1, <2>2, <2>3
<1>15. CASE EndPicking
  BY <1>s, <1>15, ModesOf DEF EndPicking, Roles, Prompts, wait
<1>16. CASE Redraw
  <2>1. CASE NextFrame \/ CheckFrame
    BY <2>1 DEF NextFrame, CheckFrame, wait, input
  <2>2. CASE PaintFrame
    BY <1>s, <2>2, LineOf DEF PaintFrame, wait, input
  <2> QED
    BY <1>16, <2>1, <2>2 DEF Redraw
<1>17. CASE Outside
  BY <1>17 DEF Outside, Type, StdoutFails, wait, input, display
<1>18. CASE UNCHANGED vars
  BY <1>18 DEF vars, wait, input, display
<1> QED
  BY <1>1, <1>2, <1>3, <1>4, <1>5, <1>6, <1>7, <1>8, <1>9, <1>10, <1>11, <1>12, <1>13, <1>14, <1>15, <1>16, <1>17,
     <1>18 DEF Next, Main, Reader

\* Which steps draw the status line, hold its lock or clear it.
LEMMA LineKept ==
    Records /\ Control /\ Tended /\ [Next]_vars => Tended'
<1> SUFFICES ASSUME Records, Control, Tended, [Next]_vars PROVE Tended'
  OBVIOUS
<1>s. screen \in Screens /\ status \in StatusLines
  BY DEF Records
<1> USE DEF Tended, Watched
<1>1. CASE StartStatus
  BY <1>s, <1>1, LineOf DEF StartStatus, Drawn
<1>2. CASE StartHidden
  BY <1>s, <1>2, ModesOf DEF StartHidden, Prompted, EndWith, SameBut
<1>3. CASE StartPick \/ StartShow
  BY <1>3 DEF StartPick, StartShow, display
<1>4. CASE StartLive
  BY <1>s, <1>4, ModesOf DEF StartLive, SameBut
<1>6. CASE Answer \/ Open \/ Receive \/ Close
  BY <1>6 DEF Answer, Open, Receive, Close, WaitEnds, display
<1>7. CASE Prompt \/ StopLive \/ Interrupt
  BY <1>7 DEF Prompt, StopLive, Interrupt, WaitEnds, display
<1>8. CASE Drop
  BY <1>s, <1>8, ModesOf DEF Drop, Dropped, Aborted, StatusLines, SameBut
<1>9. CASE Clear
  BY <1>s, <1>9, LineOf DEF Clear, Cleared, StatusLines
<1>10. CASE Say \/ Again
  BY <1>10 DEF Say, Again, EndWith, display
<1>11. CASE Written
  BY <1>11 DEF Written, EndWith, display
<1>12. CASE WriteFile \/ WriteStdout
  BY <1>12, WritesAre DEF display
<1>13. CASE Read \/ Flush \/ Settle
  BY <1>13 DEF Read, Flush, Settle, display
<1>14. CASE BeginPicking \/ EndPicking
  BY <1>s, <1>14, ModesOf DEF BeginPicking, EndPicking, SameBut
<1>15. CASE NextFrame
  BY <1>s, <1>15 DEF NextFrame, Tick, StatusLines
<1>16. CASE CheckFrame
  BY <1>s, <1>16 DEF CheckFrame, Checked, StatusLines
<1>17. CASE PaintFrame
  BY <1>s, <1>17, LineOf DEF PaintFrame, Painted, StatusLines
<1>18. CASE Outside
  BY <1>18 DEF Outside, Type, StdoutFails, display
<1>19. CASE UNCHANGED vars
  BY <1>19 DEF vars, display
<1> QED
  BY <1>1, <1>2, <1>3, <1>4, <1>6, <1>7, <1>8, <1>9, <1>10, <1>11, <1>12, <1>13, <1>14, <1>15, <1>16, <1>17,
     <1>18, <1>19 DEF Next, Main, Reader, Redraw

-----------------------------------------------------------------------------
(* What is typed *)

\* The secret, of the keys one after the other.
LEMMA EditedInOrder ==
    /\ Made(<<>>) = <<>>
    /\ \A read \in Seq(KeyPress), key \in KeyPress : Made(Append(read, key)) = Edited(Made(read), key)
<1>1. \A read : Made(read) = Editing!Fold(<<>>, read)
  BY DEF Made, Editing!Fold, Editing!MapThenFoldSet, Editing!Max, FoldLeft, MapThenFoldSet, Max
<1> QED
  BY <1>1, Editing!FoldEmpty, Editing!FoldAppend

\* The bytes of a secret.
LEMMA BytesAdd ==
    /\ Bytes(<<>>) = 0
    /\ \A secret \in Seq(KeyPress) : Bytes(secret) \in Nat
    /\ \A secret \in Seq(KeyPress), key \in KeyPress : Bytes(Append(secret, key)) = Bytes(secret) + key.bytes
<1>1. \A secret : Bytes(secret) = Counting!Fold(0, secret)
  BY DEF Bytes, Counted, Counting!Fold, Counting!MapThenFoldSet, Counting!Max, FoldLeft, MapThenFoldSet, Max
<1>2. \A n \in Nat, key \in KeyPress : Counted(n, key) \in Nat
  BY DEF Counted, KeyPress
<1>3. \A secret \in Seq(KeyPress) : Counting!Fold(0, secret) \in Nat
  BY <1>2, Counting!FoldKeeps
<1> QED
  BY <1>1, <1>3, Counting!FoldEmpty, Counting!FoldAppend DEF Counted

\* A key that leaves the prompt open leaves a secret that fits, and is what the keys make of it.
LEMMA TypingFits ==
    ASSUME NEW secret \in Seq(KeyPress), NEW key \in KeyPress, Bytes(secret) <= MaxHidden
    PROVE  /\ Edited(secret, key) \in Seq(KeyPress)
           /\ TypeHidden(secret, key).hidden = "typing" =>
                  /\ TypeHidden(secret, key).typed = Edited(secret, key)
                  /\ Bytes(Edited(secret, key)) <= MaxHidden
           /\ TypeHidden(secret, key).hidden # "typing" => TypeHidden(secret, key).typed = secret
           /\ TypeHidden(secret, key).hidden \in {"typing", "interrupted", "entered", "too long"}
<1>1. secret # <<>> => /\ Front(secret) \in Seq(KeyPress)
                       /\ Bytes(Front(secret)) <= Bytes(secret)
  <2> SUFFICES ASSUME secret # <<>> PROVE Front(secret) \in Seq(KeyPress) /\ Bytes(Front(secret)) <= Bytes(secret)
    OBVIOUS
  <2>1. PICK s \in Seq(KeyPress), e \in KeyPress : secret = Append(s, e)
    BY SequenceEmptyOrAppend
  <2>2. Front(secret) = s
    BY <2>1 DEF Front
  <2>3. e.bytes \in Nat /\ Bytes(s) \in Nat
    BY BytesAdd DEF KeyPress
  <2> QED
    BY <2>1, <2>2, <2>3, BytesAdd
<1>2. Edited(secret, key) \in Seq(KeyPress)
  BY <1>1 DEF Edited
<1>3. MaxHidden \in Nat /\ key.bytes \in Nat /\ Bytes(secret) \in Nat
  BY MaxHiddenIsNatural, BytesAdd DEF KeyPress
<1>4. ASSUME ~ (key.code = "char" /\ TooLong(secret, key)) PROVE Bytes(Edited(secret, key)) <= MaxHidden
  BY <1>1, <1>3, <1>4, BytesAdd DEF Edited, TooLong
<1> QED
  BY <1>2, <1>4 DEF TypeHidden

-----------------------------------------------------------------------------
(* Which keys were typed, read, and are still to come *)

\* A key that is typed goes from the keys to come to the queue.
LEMMA TypeKeeps ==
    ASSUME Keyed, Roles, Modes, Records, Type
    PROVE  Keyed'
<1>1. /\ pc = "waiting" /\ coming # <<>> /\ task.kind = "hidden"
      /\ coming' = Tail(coming) /\ queue' = Append(queue, Head(coming))
      /\ UNCHANGED <<outcome, task, reader, typed>>
  BY DEF Type, Keyed, wait
<1>2. queue \in Seq(KeyPress) /\ coming \in Seq(KeyPress) /\ typed \in Seq(KeyPress)
  BY DEF Keyed
<1>3. Head(coming) \in KeyPress /\ Tail(coming) \in Seq(KeyPress) /\ coming = <<Head(coming)>> \o Tail(coming)
  BY <1>1, <1>2
<1>4. queue' \in Seq(KeyPress) /\ coming' \in Seq(KeyPress)
  BY <1>1, <1>2, <1>3
<1>5. queue' \o coming' = queue \o coming
  <2>1. queue' \o coming' = (queue \o <<Head(coming)>>) \o Tail(coming)
    BY <1>1, <1>2, <1>3, AppendIsConcat
  <2> QED
    BY <1>2, <1>3, <2>1, ConcatAssociative
<1>6. ~echoed'
  <2>1. screen.raw
    BY <1>1 DEF Modes
  <2> QED
    BY <2>1 DEF Type, Keyed
<1>7. \A read : Took(read) => Took(read)'
  BY <1>1, <1>5 DEF Took
<1>8. reader # "too long"
  BY <1>1 DEF Keyed
<1>9. reader \in {"off", "reading"} => \E read : Took(read)' /\ typed' = Made(read)
  BY <1>1, <1>7 DEF Keyed
<1>10. reader = "entered" => \E read, key : Took(Append(read, key))' /\ read \in Seq(KeyPress) /\ typed' = Made(read)
  BY <1>1, <1>7 DEF Keyed
<1> QED
  BY <1>1, <1>2, <1>4, <1>6, <1>8, <1>9, <1>10 DEF Keyed

\* A key that is read goes from the queue to the secret, or ends the prompt.
LEMMA ReadKeeps ==
    ASSUME Keyed, Roles, Read
    PROVE  Keyed'
<1>1. /\ reader = "reading" /\ queue # <<>> /\ task.kind = "hidden"
      /\ queue' = Tail(queue) /\ UNCHANGED <<outcome, task, coming, echoed>>
  BY DEF Read, Roles, Prompts, wait
<1>2. queue \in Seq(KeyPress) /\ coming \in Seq(KeyPress) /\ typed \in Seq(KeyPress) /\ Bytes(typed) <= MaxHidden
  BY <1>1 DEF Keyed
<1>3. PICK key : key = Head(queue)
  OBVIOUS
<1>4. key \in KeyPress /\ Tail(queue) \in Seq(KeyPress) /\ queue = <<key>> \o Tail(queue)
  BY <1>1, <1>2, <1>3
<1>5. PICK read : Took(read) /\ typed = Made(read)
  BY <1>1 DEF Keyed
<1>6. read \in Seq(KeyPress) /\ task.keys = read \o (queue \o coming)
  BY <1>5 DEF Took
<1>7. Append(read, key) \in Seq(KeyPress) /\ Took(Append(read, key))'
  <2>1. queue \o coming = <<key>> \o (Tail(queue) \o coming)
    BY <1>2, <1>4, ConcatAssociative
  <2>2. <<key>> \in Seq(KeyPress) /\ Tail(queue) \o coming \in Seq(KeyPress)
    BY <1>2, <1>4
  <2>3. task.keys = (read \o <<key>>) \o (Tail(queue) \o coming)
    <3>1. PICK left \in Seq(KeyPress) : left = Tail(queue) \o coming
      BY <2>2
    <3>2. \A s, t, u \in Seq(KeyPress) : (s \o t) \o u = s \o (t \o u)
      BY ConcatAssociative
    <3>3. read \o (<<key>> \o left) = (read \o <<key>>) \o left
      BY <1>6, <2>2, <3>1, <3>2
    <3> QED
      BY <1>6, <2>1, <3>1, <3>3
  <2>4. Append(read, key) = read \o <<key>> /\ Append(read, key) \in Seq(KeyPress)
    BY <1>4, <1>6, AppendIsConcat
  <2> QED
    BY <1>1, <2>3, <2>4 DEF Took
<1>8. PICK next : next = TypeHidden(typed, key)
  OBVIOUS
<1>9. /\ Edited(typed, key) \in Seq(KeyPress)
      /\ next.hidden = "typing" => next.typed = Edited(typed, key) /\ Bytes(Edited(typed, key)) <= MaxHidden
      /\ next.hidden # "typing" => next.typed = typed
      /\ next.hidden \in {"typing", "interrupted", "entered", "too long"}
  BY <1>2, <1>4, <1>8, TypingFits
<1>10. /\ typed' = next.typed
       /\ reader' = CASE next.hidden = "typing" -> reader [] next.hidden = "too long" -> "flushing" [] OTHER -> next.hidden
  BY <1>3, <1>8 DEF Read
<1>11. queue' \in Seq(KeyPress) /\ typed' \in Seq(KeyPress) /\ coming' \in Seq(KeyPress) /\ ~echoed'
  BY <1>1, <1>2, <1>4, <1>9, <1>10 DEF Keyed
<1>12. outcome.message # {"too long"}
  BY <1>1 DEF Keyed
<1>13. CASE next.hidden = "typing"
  <2>1. reader' = "reading" /\ typed' = Edited(typed, key) /\ Bytes(typed') <= MaxHidden
    BY <1>1, <1>9, <1>10, <1>13
  <2>2. typed' = Made(Append(read, key))
    BY <1>4, <1>5, <1>6, <2>1, EditedInOrder
  <2> QED
    BY <1>1, <1>7, <1>11, <1>12, <2>1, <2>2 DEF Keyed
<1>14. CASE next.hidden = "entered"
  <2>1. reader' = "entered" /\ typed' = Made(read) /\ Bytes(typed') <= MaxHidden
    BY <1>2, <1>5, <1>9, <1>10, <1>14
  <2> QED
    BY <1>1, <1>6, <1>7, <1>11, <1>12, <2>1 DEF Keyed
<1>15. CASE next.hidden \in {"interrupted", "too long"}
  <2>1. reader' \in {"interrupted", "flushing"}
    BY <1>10, <1>15
  <2> QED
    BY <1>1, <1>11, <1>12, <2>1 DEF Keyed
<1> QED
  BY <1>9, <1>13, <1>14, <1>15

\* What a step that reads and types nothing leaves to show: what it ends the wait with.
LEMMA KeyedStays ==
    ASSUME Keyed, UNCHANGED <<task, reader, typed, queue, coming, echoed>>,
           task.kind = "hidden" /\ outcome'.message = {"too long"} => reader = "too long"
    PROVE  Keyed'
<1>1. \A read : Took(read)' <=> Took(read)
  BY DEF Took
<1>2. reader' \in {"off", "reading"} /\ task'.kind = "hidden" => \E read : Took(read)' /\ typed' = Made(read)
  BY <1>1 DEF Keyed
<1>3. reader' = "entered" => \E read, key : Took(Append(read, key))' /\ read \in Seq(KeyPress) /\ typed' = Made(read)
  BY <1>1 DEF Keyed
<1> QED
  BY <1>2, <1>3 DEF Keyed

\* No error but that of a hidden prompt says that a secret is too long.
LEMMA OtherMessages ==
    /\ Done.message = {} /\ Error("transport", {"terminal"}).message = {"terminal"}
    /\ \A read : Meaning(read).message = {"too long"} => read = "too long"
    /\ Interrupted.message # {"too long"}
    /\ [Interrupted EXCEPT !.message = @ \cup {"may have been submitted"}].message # {"too long"}
<1>1. Done.message = {} /\ Error("transport", {"terminal"}).message = {"terminal"} /\ Interrupted.message = {"interrupted"}
  BY DEF Done, Error, Interrupted
<1>2. [Interrupted EXCEPT !.message = @ \cup {"may have been submitted"}].message
         = {"interrupted", "may have been submitted"}
  BY DEF Interrupted, Error
<1>3. "terminal" # "too long" /\ "interrupted" # "too long" /\ {"terminal"} # {"too long"} /\ {"interrupted"} # {"too long"}
      /\ {"interrupted", "may have been submitted"} # {"too long"} /\ {} # {"too long"}
  OBVIOUS
<1>4. ASSUME NEW read, Meaning(read).message = {"too long"}, read # "too long" PROVE FALSE
  <2>1. Meaning(read) \in {Done, Interrupted, Error("transport", {"terminal"})}
    BY <1>4, Zenon DEF Meaning
  <2> QED
    BY <1>1, <1>3, <1>4, <2>1
<1> QED
  BY <1>1, <1>2, <1>3, <1>4

\* Every step keeps what is known of the keys: those that were typed, read, and are still to come.
LEMMA KeyedKept ==
    Keyed /\ Roles /\ Modes /\ Records /\ [Next]_vars => Keyed'
<1> SUFFICES ASSUME Keyed, Roles, Modes, Records, [Next]_vars PROVE Keyed'
  OBVIOUS
<1>1. CASE Type
  BY <1>1, TypeKeeps
<1>2. CASE Read
  BY <1>2, ReadKeeps
<1>3. CASE Flush
  <2>1. /\ reader = "flushing" /\ reader' = "settling" /\ queue' = <<>>
        /\ UNCHANGED <<outcome, task, typed, coming, echoed>> /\ <<>> \in Seq(KeyPress)
    BY <1>3 DEF Flush, wait
  <2> QED
    BY <2>1 DEF Keyed
<1>4. CASE Settle
  <2>1. reader = "settling" /\ UNCHANGED <<outcome, task, typed, queue, coming, echoed>>
    BY <1>4 DEF Settle, wait
  <2>2. CASE queue = <<>>
    <3>1. reader' = "too long" /\ coming = <<>>
      BY <1>4, <2>2, Zenon DEF Settle, Paused
    <3> QED
      BY <2>1, <2>2, <3>1 DEF Keyed
  <2>3. CASE queue # <<>>
    <3>1. reader' = "flushing"
      BY <1>4, <2>3, Zenon DEF Settle
    <3> QED
      BY <2>1, <3>1 DEF Keyed
  <2> QED
    BY <2>2, <2>3
<1>5. CASE BeginPicking \/ EndPicking
  <2>1. /\ task.kind = "pick" /\ reader' \in {"picking", "chosen", "interrupted", "failed"}
        /\ UNCHANGED <<outcome, task, typed, queue, coming, echoed>>
    BY <1>5 DEF BeginPicking, EndPicking, Roles, Prompts, wait
  <2> QED
    BY <2>1 DEF Keyed
<1>6. CASE StartHidden
  <2>1. task.kind = "hidden" /\ reader = "off" /\ UNCHANGED <<task, typed, queue, coming, echoed>>
    BY <1>6 DEF StartHidden, Roles, wait
  <2>2. CASE reader' = "reading" /\ outcome' = outcome
    <3>1. \A read : Took(read)' <=> Took(read)
      BY <2>1 DEF Took
    <3>2. \E read : Took(read)' /\ typed' = Made(read)
      BY <2>1, <3>1 DEF Keyed
    <3> QED
      BY <2>1, <2>2, <3>2 DEF Keyed
  <2>3. CASE reader' = reader /\ outcome' = Error("transport", {"terminal"})
    <3>1. outcome'.message # {"too long"}
      BY <2>3, OtherMessages
    <3> QED
      BY <2>1, <2>3, <3>1, KeyedStays
  <2> QED
    BY <1>6, <2>2, <2>3, Zenon DEF StartHidden, EndWith
<1>7. CASE StartPick
  <2>1. task.kind = "pick" /\ reader' = "starting" /\ UNCHANGED <<outcome, task, typed, queue, coming, echoed>>
    BY <1>7 DEF StartPick, wait
  <2> QED
    BY <2>1 DEF Keyed
<1>8. CASE StartStatus \/ StartLive \/ StartShow \/ Drop \/ Clear \/ Again \/ Redraw \/ StdoutFails \/ UNCHANGED vars
  <2>1. UNCHANGED <<outcome, task, reader, typed, queue, coming, echoed>>
    BY <1>8 DEF StartStatus, StartLive, StartShow, Drop, Clear, Again, Redraw, NextFrame, CheckFrame, PaintFrame,
                StdoutFails, vars, wait, input
  <2>2. task.kind = "hidden" /\ outcome'.message = {"too long"} => reader = "too long"
    BY <2>1 DEF Keyed
  <2> QED
    BY <2>1, <2>2, KeyedStays
<1>9. CASE Answer \/ Open \/ Receive \/ Close \/ StopLive
  <2>1. task.kind # "hidden" /\ UNCHANGED <<task, reader, typed, queue, coming, echoed>>
    BY <1>9 DEF Answer, Open, Receive, Close, StopLive, Roles, wait, input
  <2> QED
    BY <2>1, KeyedStays
<1>10. CASE Prompt \/ Interrupt
  <2>1. UNCHANGED <<task, reader, typed, queue, coming, echoed>>
    BY <1>10 DEF Prompt, Interrupt, wait, input
  <2>2. outcome' \in {Meaning(reader), Interrupted, [Interrupted EXCEPT !.message = @ \cup {"may have been submitted"}]}
    BY <1>10, Zenon DEF Prompt, Interrupt, WaitEnds
  <2>3. outcome'.message = {"too long"} => reader = "too long"
    BY <2>2, OtherMessages
  <2> QED
    BY <2>1, <2>3, KeyedStays
<1>11. CASE Say \/ WriteFile \/ WriteStdout
  <2>1. UNCHANGED <<task, reader, typed, queue, coming, echoed>>
    BY <1>11, WritesAre, Zenon DEF Say, wait, input
  <2>2. outcome' = outcome \/ outcome'.message = {"write"}
    BY <1>11, WritesAre DEF Say, EndWith
  <2>3. task.kind = "hidden" /\ outcome'.message = {"too long"} => reader = "too long"
    BY <2>2 DEF Keyed
  <2> QED
    BY <2>1, <2>3, KeyedStays
<1>12. CASE Written
  <2>1. UNCHANGED <<task, reader, typed, queue, coming, echoed>>
    BY <1>12 DEF Written, wait, input
  <2>2. outcome' = outcome \/ outcome' = Done \/ task.kind = "stream"
    BY <1>12 DEF Written, EndWith
  <2>3. task.kind = "hidden" /\ outcome'.message = {"too long"} => reader = "too long"
    BY <2>2, OtherMessages DEF Keyed
  <2> QED
    BY <2>1, <2>3, KeyedStays
<1> QED
  BY <1>1, <1>2, <1>3, <1>4, <1>5, <1>6, <1>7, <1>8, <1>9, <1>10, <1>11, <1>12 DEF Next, Main, Reader, Outside

-----------------------------------------------------------------------------
(* The terminal is kept *)

\* A command starts at a terminal as the shell left it, with nothing typed, drawn or read.
LEMMA Starts == Init => Inv
<1> SUFFICES ASSUME Init PROVE Inv
  OBVIOUS
<1>1. TypeOK
  BY DEF Init, TypeOK, Done, Error, NoStream
<1>2. Records
  BY DEF Init, Records, Screens, StatusLines, IsStream, Cooked, NoStatus, NoStream
<1>3. Roles
  BY DEF Init, Roles, NoStream
<1>4. Modes
  BY DEF Init, Modes, Plain, Cooked
<1>5. Tended
  BY DEF Init, Tended, Watched, Cooked, NoStatus
<1>6. Keyed
  <2>1. coming \in Seq(KeyPress) /\ task.keys \in Seq(KeyPress)
    BY KeysArePressed DEF Init
  <2>2. task.kind = "hidden" => Took(<<>>)
    BY <2>1 DEF Init, Took
  <2>3. typed = Made(<<>>) /\ Bytes(typed) <= MaxHidden
    BY EditedInOrder, BytesAdd, MaxHiddenIsNatural DEF Init
  <2>4. outcome.message # {"too long"}
    BY OtherMessages DEF Init
  <2>5. queue = <<>> /\ queue \in Seq(KeyPress) /\ typed \in Seq(KeyPress) /\ reader = "off" /\ ~echoed
    BY DEF Init
  <2>6. task.kind # "hidden" => coming = <<>>
    BY DEF Init
  <2> QED
    BY <2>1, <2>2, <2>3, <2>4, <2>5, <2>6 DEF Keyed
<1> QED
  BY <1>1, <1>2, <1>3, <1>4, <1>5, <1>6 DEF Inv

\* Every step of a command, of its threads and of what is outside of it keeps the invariant.
LEMMA Keeps == Inv /\ [Next]_vars => Inv'
BY TypeParts, TypeKept, RecordsKept, RolesKept, ModesKept, LineKept, KeyedKept DEF Inv

\* What the person entered is what the thread took of the keys before Enter.
LEMMA EnteredIsTyped == Keyed => TypedFitsWhole
<1> SUFFICES ASSUME Keyed, reader = "entered"
             PROVE  /\ Bytes(typed) <= MaxHidden
                    /\ typed = Made(SubSeq(task.keys, 1, Len(task.keys) - Len(queue) - Len(coming) - 1))
  BY DEF TypedFitsWhole, Made
<1>1. PICK read, key : Took(Append(read, key)) /\ read \in Seq(KeyPress) /\ typed = Made(read)
  BY DEF Keyed
<1>2. queue \in Seq(KeyPress) /\ coming \in Seq(KeyPress) /\ Bytes(typed) <= MaxHidden
  BY DEF Keyed
<1>3. PICK left : left = queue \o coming /\ left \in Seq(KeyPress) /\ Len(left) = Len(queue) + Len(coming)
  BY <1>2, ConcatProperties
<1>4. Append(read, key) \in Seq(KeyPress) /\ task.keys = Append(read, key) \o left
  BY <1>1, <1>3 DEF Took
<1>5. Len(task.keys) - Len(queue) - Len(coming) - 1 = Len(read)
  BY <1>1, <1>2, <1>3, <1>4
<1>6. SubSeq(task.keys, 1, Len(read)) = read
  BY <1>1, <1>3, <1>4
<1> QED
  BY <1>1, <1>2, <1>5, <1>6

\* What the invariant says of the moments that the run looks at.
LEMMA KeptMeansKept == Inv => TerminalIsKept
<1> SUFFICES ASSUME Inv PROVE TerminalIsKept
  OBVIOUS
<1>1. TerminalRestored
  <2> SUFFICES ASSUME pc = "ended", ~late PROVE [screen EXCEPT !.line = "blank"] = Cooked
    BY DEF TerminalRestored
  <2>1. Plain(screen)
    BY DEF Inv, Modes, Plain
  <2>2. ASSUME NEW t \in Screens, Plain(t) PROVE [t EXCEPT !.line = "blank"] = Cooked
    <3>1. t.raw = FALSE /\ t.paste = FALSE /\ t.cursor = TRUE /\ t.alternate = FALSE
      BY <2>2 DEF Screens, Plain
    <3>2. [t EXCEPT !.line = "blank"]
             = [raw |-> t.raw, paste |-> t.paste, cursor |-> t.cursor, alternate |-> t.alternate, line |-> "blank"]
      BY DEF Screens
    <3> QED
      BY <3>1, <3>2, Zenon DEF Cooked
  <2> QED
    BY <2>1, <2>2 DEF Inv, Records
<1>2. StatusIsCleared
  BY DEF StatusIsCleared, Inv, Tended, Watched, Records, Screens
<1>3. NothingIsEchoed
  BY DEF NothingIsEchoed, Inv, Keyed
<1>4. PasteDiesWithPrompt
  BY DEF PasteDiesWithPrompt, Inv, Keyed
<1>5. TypedFitsWhole
  BY EnteredIsTyped DEF Inv
<1> QED
  BY <1>1, <1>2, <1>3, <1>4, <1>5 DEF TerminalIsKept, Inv

\* TerminalIsKept: whatever the order of keys, redraws, Ctrl-C and a failing stdout, the guards of
\* src/terminal.rs and src/progress.rs give the terminal back; but a picker's reader that turns raw mode
\* on after Ctrl-C dropped the prompt leaves it on (`late`).
THEOREM TerminalKept == Spec => []TerminalIsKept
<1>1. Init => Inv
  BY Starts
<1>2. Inv /\ [Next]_vars => Inv'
  BY Keeps
<1>3. Inv => TerminalIsKept
  BY KeptMeansKept
<1> QED
  BY <1>1, <1>2, <1>3, PTL DEF Spec

-----------------------------------------------------------------------------
(* How the text of a stream is cut into its lines *)

Cutting == INSTANCE Folding WITH Op <- Cut

\* The pieces of a text, and what a part of it is cut into.
Piece == [line : SentLine, part : Nat]
Cuts == [lines : Seq(SentLine), left : Seq(Piece)]

\* What is cut after `lines` and `left`; a part of a line without its newline.
CutFrom(lines, left, pieces) == FoldLeft(Cut, [lines |-> lines, left |-> left], pieces)
Within(pieces) == \A i \in DOMAIN pieces : pieces[i].part # Newline

\* The first k of a sequence.
LEMMA FirstOf ==
    ASSUME NEW D, NEW s \in Seq(D), NEW k \in 0..Len(s)
    PROVE  /\ SubSeq(s, 1, k) \in Seq(D) /\ Len(SubSeq(s, 1, k)) = k /\ \A i \in 1..k : SubSeq(s, 1, k)[i] = s[i]
           /\ k > 0 => SubSeq(s, 1, k) = Append(SubSeq(s, 1, k - 1), s[k]) /\ s[k] \in D
           /\ SubSeq(s, 1, 0) = <<>> /\ SubSeq(s, 1, Len(s)) = s
<1>1. k \in Nat /\ Len(s) \in Nat /\ k <= Len(s) /\ \A i \in 1..Len(s) : s[i] \in D
  OBVIOUS
<1>2. SubSeq(s, 1, k) \in Seq(D) /\ Len(SubSeq(s, 1, k)) = k /\ \A i \in 1..k : SubSeq(s, 1, k)[i] = s[i]
  <2>1. \A i \in 1..k : s[i] \in D
    BY <1>1
  <2>2. k \in Int /\ 1 \in Int /\ (1 <= k => k - 1 + 1 = k) /\ (~(1 <= k) => k = 0) /\ k - 1 + 1 = k
    BY <1>1
  <2>3. /\ SubSeq(s, 1, k) \in Seq(D) /\ Len(SubSeq(s, 1, k)) = (IF 1 <= k THEN k - 1 + 1 ELSE 0)
        /\ \A i \in 1..(k - 1 + 1) : SubSeq(s, 1, k)[i] = s[1 + i - 1]
    BY <2>1, <2>2, SubSeqProperties
  <2>4. \A i \in 1..k : 1 + i - 1 = i
    OBVIOUS
  <2> QED
    BY <2>2, <2>3, <2>4
<1>3. ASSUME k > 0 PROVE SubSeq(s, 1, k) = Append(SubSeq(s, 1, k - 1), s[k]) /\ s[k] \in D
  <2>1. s[k] \in D
    BY <1>1, <1>3
  <2>2. 1 \in 1..Len(s) /\ k \in 1..Len(s)
    BY <1>1, <1>3
  <2>3. SubSeq(s, 1, k) = SubSeq(s, 1, k - 1) \o <<s[k]>>
    BY <2>2, SubSeqRecursiveSecond
  <2>4. SubSeq(s, 1, k - 1) \in Seq(D)
    <3>1. k - 1 \in Int /\ \A i \in 1..(k - 1) : s[i] \in D
      BY <1>1
    <3> QED
      BY <3>1, SubSeqProperties
  <2> QED
    BY <2>1, <2>3, <2>4
<1>4. SubSeq(s, 1, 0) = <<>>
  BY SubSeqEmpty
<1>5. SubSeq(s, 1, Len(s)) = s
  BY SubSeqFull
<1> QED
  BY <1>2, <1>3, <1>4, <1>5

\* What one piece does.
LEMMA CutIs ==
    ASSUME NEW cut \in Cuts, NEW piece \in Piece
    PROVE  /\ Cut(cut, piece) \in Cuts
           /\ piece.part = Newline => Cut(cut, piece).lines = Append(cut.lines, piece.line) /\ Cut(cut, piece).left = <<>>
           /\ piece.part # Newline => Cut(cut, piece).lines = cut.lines /\ Cut(cut, piece).left = Append(cut.left, piece)
<1>1. /\ cut.lines \in Seq(SentLine) /\ cut.left \in Seq(Piece) /\ piece.line \in SentLine
  BY DEF Cuts, Piece
<1>2. Append(cut.lines, piece.line) \in Seq(SentLine) /\ Append(cut.left, piece) \in Seq(Piece) /\ <<>> \in Seq(Piece)
  BY <1>1
<1>3. CASE piece.part = Newline
  <2>1. Cut(cut, piece) = [lines |-> Append(cut.lines, piece.line), left |-> <<>>]
    BY <1>3 DEF Cut
  <2> QED
    BY <1>2, <1>3, <2>1 DEF Cuts
<1>4. CASE piece.part # Newline
  <2>1. Cut(cut, piece) = [cut EXCEPT !.left = Append(@, piece)]
    BY <1>4 DEF Cut
  <2> QED
    BY <1>1, <1>2, <1>4, <2>1 DEF Cuts
<1> QED
  BY <1>3, <1>4

\* Pieces are cut one after the other, and in two chunks as in one.
LEMMA CutInOrder ==
    ASSUME NEW lines \in Seq(SentLine), NEW left \in Seq(Piece)
    PROVE  /\ CutFrom(lines, left, <<>>).lines = lines /\ CutFrom(lines, left, <<>>).left = left
           /\ \A s \in Seq(Piece) : CutFrom(lines, left, s) \in Cuts
           /\ \A s \in Seq(Piece), piece \in Piece :
                 CutFrom(lines, left, Append(s, piece)) = Cut(CutFrom(lines, left, s), piece)
           /\ \A s \in Seq(Piece) : Within(left) => Within(CutFrom(lines, left, s).left)
<1> DEFINE base == [lines |-> lines, left |-> left]
<1>1. \A s : CutFrom(lines, left, s) = Cutting!Fold(base, s)
  BY DEF CutFrom, Cutting!Fold, Cutting!MapThenFoldSet, Cutting!Max, FoldLeft, MapThenFoldSet, Max
<1>2. ASSUME NEW cut \in Cuts, Within(cut.left), NEW piece \in Piece PROVE Within(Cut(cut, piece).left)
  <2>1. CASE piece.part = Newline
    <3>1. Cut(cut, piece).left = <<>> /\ DOMAIN <<>> = {}
      BY <2>1, CutIs
    <3> QED
      BY <3>1 DEF Within
  <2>2. CASE piece.part # Newline
    <3>1. Cut(cut, piece).left = Append(cut.left, piece) /\ cut.left \in Seq(Piece)
      BY <2>2, CutIs DEF Cuts
    <3> QED
      BY <1>2, <2>2, <3>1, AppendProperties DEF Within
  <2> QED
    BY <2>1, <2>2
<1>3. base \in Cuts /\ base.lines = lines /\ base.left = left
  BY DEF Cuts
<1> DEFINE R == {cut \in Cuts : Within(left) => Within(cut.left)}
<1>4. base \in R
  BY <1>3
<1>5. \A cut \in R, piece \in Piece : Cut(cut, piece) \in R
  BY <1>2, CutIs
<1> HIDE DEF R, base
<1>6. \A s \in Seq(Piece) : Cutting!Fold(base, s) \in R
  BY <1>4, <1>5, Cutting!FoldKeeps
<1>7. \A s \in Seq(Piece) : CutFrom(lines, left, s) \in Cuts /\ (Within(left) => Within(CutFrom(lines, left, s).left))
  BY <1>1, <1>6 DEF R
<1>8. \A s \in Seq(Piece), piece \in Piece : Cutting!Fold(base, Append(s, piece)) = Cut(Cutting!Fold(base, s), piece)
  BY Cutting!FoldAppend
<1> QED
  BY <1>1, <1>3, <1>7, <1>8, Cutting!FoldEmpty

\* What was cut before only comes first; without a newline nothing is cut.
LEMMA CutLater ==
    ASSUME NEW lines \in Seq(SentLine), NEW left \in Seq(Piece)
    PROVE  \A s \in Seq(Piece) :
              /\ CutFrom(lines, left, s).lines = lines \o CutFrom(<<>>, left, s).lines
              /\ CutFrom(lines, left, s).left = CutFrom(<<>>, left, s).left
              /\ Within(s) => CutFrom(lines, left, s).lines = lines /\ CutFrom(lines, left, s).left = left \o s
<1> DEFINE Later(s) == /\ CutFrom(lines, left, s).lines = lines \o CutFrom(<<>>, left, s).lines
                       /\ CutFrom(lines, left, s).left = CutFrom(<<>>, left, s).left
           Same(s) == Within(s) => CutFrom(lines, left, s).lines = lines /\ CutFrom(lines, left, s).left = left \o s
           S == {s \in Seq(Piece) : Later(s) /\ Same(s)}
<1>e. <<>> \in Seq(SentLine) /\ <<>> \in Seq(Piece)
  OBVIOUS
<1>1. <<>> \in S
  <2>1. lines \o <<>> = lines /\ left \o <<>> = left
    OBVIOUS
  <2>2. CutFrom(lines, left, <<>>).lines = lines /\ CutFrom(lines, left, <<>>).left = left
    BY CutInOrder
  <2>3. CutFrom(<<>>, left, <<>>).lines = <<>> /\ CutFrom(<<>>, left, <<>>).left = left
    BY <1>e, CutInOrder
  <2> QED
    BY <1>e, <2>1, <2>2, <2>3
<1>2. ASSUME NEW s \in Seq(Piece), NEW piece \in Piece, s \in S PROVE Append(s, piece) \in S
  <2>1. PICK c \in Cuts : c = CutFrom(<<>>, left, s) /\ CutFrom(<<>>, left, Append(s, piece)) = Cut(c, piece)
    BY <1>e, CutInOrder
  <2>2. PICK d \in Cuts : d = CutFrom(lines, left, s) /\ CutFrom(lines, left, Append(s, piece)) = Cut(d, piece)
    BY CutInOrder
  <2>3. d.lines = lines \o c.lines /\ d.left = c.left
    BY <1>2, <2>1, <2>2
  <2>4. c.lines \in Seq(SentLine) /\ piece.line \in SentLine /\ lines \o Append(c.lines, piece.line) = Append(lines \o c.lines, piece.line)
    <3>1. c.lines \in Seq(SentLine) /\ piece.line \in SentLine
      BY DEF Cuts, Piece
    <3> QED
      BY <3>1
  <2>5. Later(Append(s, piece))
    <3>1. CASE piece.part = Newline
      <4>1. Cut(c, piece).lines = Append(c.lines, piece.line) /\ Cut(c, piece).left = <<>>
        BY <3>1, CutIs
      <4>2. Cut(d, piece).lines = Append(d.lines, piece.line) /\ Cut(d, piece).left = <<>>
        BY <3>1, CutIs
      <4> QED
        BY <2>1, <2>2, <2>3, <2>4, <4>1, <4>2, Zenon
    <3>2. CASE piece.part # Newline
      <4>1. Cut(c, piece).lines = c.lines /\ Cut(c, piece).left = Append(c.left, piece)
        BY <3>2, CutIs
      <4>2. Cut(d, piece).lines = d.lines /\ Cut(d, piece).left = Append(d.left, piece)
        BY <3>2, CutIs
      <4> QED
        BY <2>1, <2>2, <2>3, <4>1, <4>2, Zenon
    <3> QED
      BY <3>1, <3>2
  <2>6. Same(Append(s, piece))
    <3>1. SUFFICES ASSUME Within(Append(s, piece))
                   PROVE  /\ CutFrom(lines, left, Append(s, piece)).lines = lines
                          /\ CutFrom(lines, left, Append(s, piece)).left = left \o Append(s, piece)
      OBVIOUS
    <3>2. Within(s) /\ piece.part # Newline
      <4>1. /\ \A i \in DOMAIN s : i \in DOMAIN Append(s, piece) /\ Append(s, piece)[i] = s[i]
            /\ Len(s) + 1 \in DOMAIN Append(s, piece) /\ Append(s, piece)[Len(s) + 1] = piece
        OBVIOUS
      <4> QED
        BY <3>1, <4>1 DEF Within
    <3>3. d.lines = lines /\ d.left = left \o s
      BY <1>2, <2>2, <3>2
    <3>4. left \o Append(s, piece) = Append(left \o s, piece)
      OBVIOUS
    <3> QED
      BY <2>2, <3>2, <3>3, <3>4, CutIs
  <2>7. Append(s, piece) \in Seq(Piece)
    OBVIOUS
  <2> QED
    BY <2>5, <2>6, <2>7
<1> HIDE DEF S
<1>3. \A s \in Seq(Piece) : s \in S
  BY <1>1, <1>2, Cutting!SequencesInductive
<1> QED
  BY <1>3 DEF S

\* The pieces of a line end with its newline, which none before is.
LEMMA PiecesOf ==
    ASSUME NEW line \in SentLine
    PROVE  /\ Pieces(line) \in Seq(Piece) /\ Len(Pieces(line)) \in Nat \ {0}
           /\ Pieces(line)[Len(Pieces(line))].part = Newline /\ Pieces(line)[Len(Pieces(line))].line = line
           /\ \A i \in 1..(Len(Pieces(line)) - 1) : Pieces(line)[i].part # Newline
<1> DEFINE text == IF line = Blank THEN 0 ELSE line.size + 1
<1>1. text \in Nat
  <2>1. CASE line = Blank
    BY <2>1
  <2>2. CASE line # Blank
    <3>1. line.size \in Nat
      BY <2>2 DEF SentLine
    <3> QED
      BY <2>2, <3>1
  <2> QED
    BY <2>1, <2>2
<1>2. Pieces(line) = [p \in 1..(text + 1) |-> [line |-> line, part |-> IF p > text THEN Newline ELSE p]]
  BY DEF Pieces
<1> DEFINE part(p) == IF p > text THEN Newline ELSE p
<1> HIDE DEF text
<1>3. \A p \in 1..(text + 1) : part(p) \in Nat /\ (part(p) = Newline <=> p = text + 1)
  BY <1>1 DEF Newline
<1>8. \A p \in 1..(text + 1) : Pieces(line)[p] = [line |-> line, part |-> part(p)]
  BY <1>2
<1> HIDE DEF part
<1>4. ASSUME NEW p \in 1..(text + 1)
      PROVE  /\ Pieces(line)[p] \in Piece /\ Pieces(line)[p].line = line
             /\ Pieces(line)[p].part = Newline <=> p = text + 1
  <2>1. PICK n \in Nat : n = part(p) /\ (n = Newline <=> p = text + 1)
    BY <1>3
  <2>2. Pieces(line)[p] = [line |-> line, part |-> n]
    BY <1>8, <2>1
  <2>3. [line |-> line, part |-> n] \in Piece /\ [line |-> line, part |-> n].part = n /\ [line |-> line, part |-> n].line = line
    BY DEF Piece
  <2> QED
    BY <2>1, <2>2, <2>3
<1>5. Pieces(line) \in Seq(Piece) /\ Len(Pieces(line)) = text + 1
  BY <1>1, <1>2, <1>4
<1>6. Pieces(line)[text + 1].part = Newline /\ Pieces(line)[text + 1].line = line
  BY <1>1, <1>4
<1>7. \A i \in 1..text : Pieces(line)[i].part # Newline
  BY <1>1, <1>4
<1> QED
  BY <1>1, <1>5, <1>6, <1>7

\* The text of one more line comes after that of the others.
LEMMA SentOf ==
    /\ Sent(<<>>) = <<>>
    /\ \A lines \in Seq(SentLine) : Sent(lines) \in Seq(Piece)
    /\ \A lines \in Seq(SentLine), line \in SentLine : Sent(Append(lines, line)) = Sent(lines) \o Pieces(line)
<1> DEFINE All(lines) == [i \in DOMAIN lines |-> Pieces(lines[i])]
<1>1. \A ss : FlattenSeq(ss) = Cutting!Flattened(ss)
  BY DEF FlattenSeq, Cutting!Flattened
<1>2. \A lines \in Seq(SentLine) : All(lines) \in Seq(Seq(Piece))
  <2>1. SUFFICES ASSUME NEW lines \in Seq(SentLine) PROVE All(lines) \in Seq(Seq(Piece))
    OBVIOUS
  <2>2. Len(lines) \in Nat /\ DOMAIN lines = 1..Len(lines) /\ \A i \in 1..Len(lines) : lines[i] \in SentLine
    OBVIOUS
  <2>3. \A i \in 1..Len(lines) : Pieces(lines[i]) \in Seq(Piece)
    BY <2>2, PiecesOf
  <2> QED
    BY <2>2, <2>3
<1>3. ASSUME NEW lines \in Seq(SentLine), NEW line \in SentLine
      PROVE  All(Append(lines, line)) = Append(All(lines), Pieces(line))
  <2> DEFINE n == Len(lines)
  <2>1. /\ n \in Nat /\ DOMAIN lines = 1..n /\ DOMAIN Append(lines, line) = 1..(n + 1)
        /\ Append(lines, line)[n + 1] = line /\ \A i \in 1..n : Append(lines, line)[i] = lines[i]
    OBVIOUS
  <2>2. Pieces(line) \in Seq(Piece) /\ All(lines) \in Seq(Seq(Piece))
    BY <1>2, PiecesOf
  <2>3. DOMAIN All(lines) = 1..n /\ Len(All(lines)) = n
    BY <2>1, <2>2
  <2>4. /\ Append(All(lines), Pieces(line)) \in Seq(Seq(Piece)) /\ Len(Append(All(lines), Pieces(line))) = n + 1
        /\ Append(All(lines), Pieces(line))[n + 1] = Pieces(line)
        /\ \A i \in 1..n : Append(All(lines), Pieces(line))[i] = All(lines)[i]
    BY <2>2, <2>3, AppendProperties
  <2>5. Append(lines, line) \in Seq(SentLine)
    OBVIOUS
  <2>6. All(Append(lines, line)) \in Seq(Seq(Piece))
    BY <1>2, <2>5
  <2>7. Len(All(Append(lines, line))) = n + 1
    BY <2>1, <2>6
  <2>8. All(Append(lines, line))[n + 1] = Pieces(line)
    BY <2>1
  <2>9. \A i \in 1..n : All(Append(lines, line))[i] = All(lines)[i]
    BY <2>1
  <2> HIDE DEF All, n
  <2>10. \A i \in 1..(n + 1) : i = n + 1 \/ i \in 1..n
    BY <2>1
  <2>11. \A i \in 1..(n + 1) : All(Append(lines, line))[i] = Append(All(lines), Pieces(line))[i]
    BY <2>4, <2>8, <2>9, <2>10
  <2> QED
    BY <2>4, <2>6, <2>7, <2>11, SeqEqual
<1>4. \A lines : Sent(lines) = FlattenSeq(All(lines))
  BY DEF Sent
<1>5. All(<<>>) = <<>>
  OBVIOUS
<1> HIDE DEF All
<1>6. \A lines \in Seq(SentLine) : Sent(lines) \in Seq(Piece)
  BY <1>1, <1>2, <1>4, Cutting!FlattenPlaces
<1>7. ASSUME NEW lines \in Seq(SentLine), NEW line \in SentLine
      PROVE  Sent(Append(lines, line)) = Sent(lines) \o Pieces(line)
  <2>1. All(lines) \in Seq(Seq(Piece)) /\ Pieces(line) \in Seq(Piece)
    BY <1>2, PiecesOf
  <2>2. Cutting!Flattened(Append(All(lines), Pieces(line))) = Cutting!Flattened(All(lines)) \o Pieces(line)
    BY <2>1, Cutting!FlattenAppend
  <2> QED
    BY <1>1, <1>3, <1>4, <2>2
<1>8. <<>> \in Seq(Seq(Piece)) /\ <<>> \in Seq(Piece)
  OBVIOUS
<1>9. Sent(<<>>) = <<>>
  BY <1>1, <1>4, <1>5, <1>8, Cutting!FlattenAppend
<1> QED
  BY <1>6, <1>7, <1>9

\* What is cut in two parts is cut as in one.
LEMMA CutConcat ==
    ASSUME NEW lines \in Seq(SentLine), NEW left \in Seq(Piece), NEW s \in Seq(Piece), NEW t \in Seq(Piece)
    PROVE  CutFrom(lines, left, s \o t) = CutFrom(CutFrom(lines, left, s).lines, CutFrom(lines, left, s).left, t)
<1>1. \A base, u : FoldLeft(Cut, base, u) = Cutting!Fold(base, u)
  BY DEF Cutting!Fold, Cutting!MapThenFoldSet, Cutting!Max, FoldLeft, MapThenFoldSet, Max
<1>2. PICK c \in Cuts : c = CutFrom(lines, left, s)
  BY CutInOrder
<1>3. c = [lines |-> c.lines, left |-> c.left]
  BY DEF Cuts
<1>4. Cutting!Fold([lines |-> lines, left |-> left], s \o t) = Cutting!Fold(Cutting!Fold([lines |-> lines, left |-> left], s), t)
  BY Cutting!FoldConcat
<1>5. FoldLeft(Cut, [lines |-> lines, left |-> left], s \o t) = FoldLeft(Cut, c, t)
  BY <1>1, <1>2, <1>4 DEF CutFrom
<1> QED
  BY <1>2, <1>3, <1>5 DEF CutFrom

\* A part of the pieces of a line is left, and all of them are the line.
LEMMA CutOfLine ==
    ASSUME NEW lines \in Seq(SentLine), NEW line \in SentLine, NEW m \in 1..Len(Pieces(line))
    PROVE  LET cut == CutFrom(lines, <<>>, SubSeq(Pieces(line), 1, m)) IN
           /\ m < Len(Pieces(line)) => cut.lines = lines /\ cut.left = SubSeq(Pieces(line), 1, m)
           /\ m = Len(Pieces(line)) => cut.lines = Append(lines, line) /\ cut.left = <<>>
<1>1. PICK p \in Seq(Piece) : p = Pieces(line)
  BY PiecesOf
<1>2. PICK n \in Nat \ {0} : n = Len(p) /\ n = Len(Pieces(line))
  BY <1>1, PiecesOf
<1>3. p[n].part = Newline /\ p[n].line = line /\ \A i \in 1..(n - 1) : p[i].part # Newline
  BY <1>1, <1>2, PiecesOf
<1>4. ASSUME NEW k \in Nat, k < n
      PROVE  CutFrom(lines, <<>>, SubSeq(p, 1, k)).lines = lines /\ CutFrom(lines, <<>>, SubSeq(p, 1, k)).left = SubSeq(p, 1, k)
  <2>1. SubSeq(p, 1, k) \in Seq(Piece) /\ Len(SubSeq(p, 1, k)) = k /\ \A i \in 1..k : SubSeq(p, 1, k)[i] = p[i]
    <3>1. k \in 0..Len(p)
      BY <1>2, <1>4
    <3> QED
      BY <3>1, FirstOf
  <2>2. Within(SubSeq(p, 1, k))
    BY <1>3, <1>4, <2>1 DEF Within
  <2>3. <<>> \in Seq(Piece) /\ <<>> \o SubSeq(p, 1, k) = SubSeq(p, 1, k)
    BY <2>1
  <2>4. CutFrom(lines, <<>>, SubSeq(p, 1, k)).lines = lines /\ CutFrom(lines, <<>>, SubSeq(p, 1, k)).left = <<>> \o SubSeq(p, 1, k)
    BY <2>1, <2>2, <2>3, CutLater
  <2> QED
    BY <2>3, <2>4
<1>5. CASE m = n
  <2>1. n - 1 \in Nat /\ n - 1 < n
    OBVIOUS
  <2>2. PICK t \in Seq(Piece), e \in Piece : t = SubSeq(p, 1, n - 1) /\ e = p[n] /\ SubSeq(p, 1, n) = Append(t, e)
    <3>1. n \in 0..Len(p) /\ n > 0 /\ n - 1 \in 0..Len(p)
      BY <1>2
    <3>2. SubSeq(p, 1, n - 1) \in Seq(Piece)
      BY <3>1, FirstOf
    <3>3. SubSeq(p, 1, n) = Append(SubSeq(p, 1, n - 1), p[n]) /\ p[n] \in Piece
      BY <3>1, FirstOf
    <3> QED
      BY <3>2, <3>3
  <2>4. CutFrom(lines, <<>>, Append(t, e)) = Cut(CutFrom(lines, <<>>, t), e) /\ CutFrom(lines, <<>>, t) \in Cuts
    <3>1. <<>> \in Seq(Piece)
      OBVIOUS
    <3> QED
      BY <3>1, CutInOrder
  <2>5. CutFrom(lines, <<>>, t).lines = lines
    BY <1>4, <2>1, <2>2
  <2>6. PICK c \in Cuts : c = CutFrom(lines, <<>>, t)
    BY <2>4
  <2>7. Cut(c, e).lines = Append(c.lines, e.line) /\ Cut(c, e).left = <<>>
    BY <1>3, <2>2, CutIs
  <2>8. CutFrom(lines, <<>>, SubSeq(p, 1, n)).lines = Append(lines, line) /\ CutFrom(lines, <<>>, SubSeq(p, 1, n)).left = <<>>
    BY <1>3, <2>2, <2>4, <2>5, <2>6, <2>7
  <2> QED
    BY <1>1, <1>2, <1>5, <2>8
<1>6. CASE m # n
  <2>1. m \in Nat /\ m < n
    BY <1>2, <1>6
  <2> QED
    BY <1>1, <1>2, <1>4, <1>6, <2>1
<1> QED
  BY <1>5, <1>6

\* Wherever a chunk of the text of `lines` ends, what was cut are the first of the lines, and a part of a
\* line is left.
Cuttable(lines) ==
    /\ CutLines(Sent(lines)).lines = lines /\ CutLines(Sent(lines)).left = <<>>
    /\ \A n \in 0..Len(Sent(lines)) :
          LET cut == CutLines(SubSeq(Sent(lines), 1, n)) IN
          /\ \E j \in 0..Len(lines) : cut.lines = SubSeq(lines, 1, j)
          /\ cut.left = <<>> \/ \E i \in DOMAIN lines : Len(cut.left) < Len(Pieces(lines[i]))
          /\ cut \in Cuts /\ Within(cut.left)

\* Every text of lines that a service may send is cut so.
LEMMA CutOfSent == \A lines \in Seq(SentLine) : Cuttable(lines)
<1>e. <<>> \in Seq(SentLine) /\ <<>> \in Seq(Piece) /\ Within(<<>>)
  BY DEF Within
<1>c. \A pieces : CutLines(pieces) = CutFrom(<<>>, <<>>, pieces)
  BY DEF CutLines, CutFrom
<1>d. \A pieces \in Seq(Piece) : CutLines(pieces) \in Cuts /\ Within(CutLines(pieces).left)
  BY <1>c, <1>e, CutInOrder
<1> DEFINE S == {lines \in Seq(SentLine) : Cuttable(lines)}
<1>1. <<>> \in S
  <2>1. Sent(<<>>) = <<>> /\ CutLines(<<>>).lines = <<>> /\ CutLines(<<>>).left = <<>>
    BY <1>c, <1>e, CutInOrder, SentOf
  <2>2. \A n \in 0..Len(<<>>) : SubSeq(<<>>, 1, n) = <<>>
    OBVIOUS
  <2>3. 0 \in 0..Len(<<>>) /\ SubSeq(<<>>, 1, 0) = <<>>
    OBVIOUS
  <2> QED
    BY <1>d, <1>e, <2>1, <2>2, <2>3 DEF Cuttable
<1>2. ASSUME NEW lines \in Seq(SentLine), NEW line \in SentLine, lines \in S PROVE Append(lines, line) \in S
  <2>1. PICK s \in Seq(Piece), p \in Seq(Piece), long \in Seq(SentLine) :
           s = Sent(lines) /\ p = Pieces(line) /\ long = Append(lines, line) /\ Sent(long) = s \o p
    <3>1. Sent(lines) \in Seq(Piece) /\ Pieces(line) \in Seq(Piece) /\ Append(lines, line) \in Seq(SentLine)
      BY SentOf, PiecesOf
    <3> QED
      BY <3>1, SentOf
  <2>2. /\ Len(s) \in Nat /\ Len(p) \in Nat \ {0} /\ Len(s \o p) = Len(s) + Len(p)
        /\ Len(lines) \in Nat /\ Len(long) = Len(lines) + 1
    BY <2>1, PiecesOf, ConcatProperties, AppendProperties
  <2>3. CutLines(s).lines = lines /\ CutLines(s).left = <<>>
    BY <1>2, <2>1 DEF Cuttable
  <2>4. ASSUME NEW m \in 1..Len(p)
        PROVE  /\ SubSeq(s \o p, 1, Len(s) + m) = s \o SubSeq(p, 1, m)
               /\ CutLines(s \o SubSeq(p, 1, m)) = CutFrom(lines, <<>>, SubSeq(p, 1, m))
    <3>1. SubSeq(s \o p, 1, Len(s) + m) = s \o SubSeq(p, 1, m) /\ SubSeq(p, 1, m) \in Seq(Piece)
      OBVIOUS
    <3>2. PICK t \in Seq(Piece) : t = SubSeq(p, 1, m)
      BY <3>1
    <3>3. CutFrom(<<>>, <<>>, s \o t) = CutFrom(CutFrom(<<>>, <<>>, s).lines, CutFrom(<<>>, <<>>, s).left, t)
      <4>1. PICK lines0 \in Seq(SentLine), left0 \in Seq(Piece) : lines0 = <<>> /\ left0 = <<>>
        BY <1>e
      <4>2. CutFrom(lines0, left0, s \o t) = CutFrom(CutFrom(lines0, left0, s).lines, CutFrom(lines0, left0, s).left, t)
        BY CutConcat
      <4> QED
        BY <4>1, <4>2
    <3> QED
      BY <1>c, <2>3, <3>1, <3>2, <3>3
  <2>5. CutLines(s \o p).lines = long /\ CutLines(s \o p).left = <<>>
    <3>1. Len(p) \in 1..Len(p) /\ SubSeq(p, 1, Len(p)) = p
      BY <2>2
    <3>2. PICK m \in 1..Len(Pieces(line)) : m = Len(Pieces(line))
      BY <2>1, <3>1
    <3>3. CutFrom(lines, <<>>, SubSeq(Pieces(line), 1, m)).lines = Append(lines, line)
          /\ CutFrom(lines, <<>>, SubSeq(Pieces(line), 1, m)).left = <<>>
      BY <3>2, CutOfLine
    <3>4. CutFrom(lines, <<>>, p).lines = Append(lines, line) /\ CutFrom(lines, <<>>, p).left = <<>>
      BY <2>1, <3>1, <3>2, <3>3
    <3> QED
      BY <2>1, <2>4, <3>1, <3>4
  <2>6. ASSUME NEW n \in 0..Len(s \o p)
        PROVE  LET cut == CutLines(SubSeq(s \o p, 1, n)) IN
               /\ \E j \in 0..Len(long) : cut.lines = SubSeq(long, 1, j)
               /\ cut.left = <<>> \/ \E i \in DOMAIN long : Len(cut.left) < Len(Pieces(long[i]))
    <3>1. /\ DOMAIN lines = 1..Len(lines) /\ DOMAIN long = 1..(Len(lines) + 1)
          /\ \A i \in DOMAIN lines : long[i] = lines[i]
          /\ \A j \in 0..Len(lines) : SubSeq(long, 1, j) = SubSeq(lines, 1, j)
          /\ SubSeq(long, 1, Len(lines)) = lines /\ SubSeq(long, 1, Len(lines) + 1) = long /\ long[Len(lines) + 1] = line
      BY <2>1
    <3>2. CASE n <= Len(s)
      <4>1. SubSeq(s \o p, 1, n) = SubSeq(s, 1, n) /\ n \in 0..Len(s)
        BY <2>2, <3>2
      <4>2. PICK cut : cut = CutLines(SubSeq(s, 1, n))
        OBVIOUS
      <4>3. /\ \E j \in 0..Len(lines) : cut.lines = SubSeq(lines, 1, j)
            /\ cut.left = <<>> \/ \E i \in DOMAIN lines : Len(cut.left) < Len(Pieces(lines[i]))
        BY <1>2, <2>1, <4>1, <4>2 DEF Cuttable
      <4>4. \A j \in 0..Len(lines) : j \in 0..Len(long)
        BY <2>2
      <4>5. \A i \in DOMAIN lines : i \in DOMAIN long
        BY <2>2, <3>1
      <4> QED
        BY <3>1, <4>1, <4>2, <4>3, <4>4, <4>5
    <3>3. CASE n > Len(s)
      <4>1. PICK m \in 1..Len(p) : n = Len(s) + m
        <5>1. n - Len(s) \in 1..Len(p) /\ n = Len(s) + (n - Len(s))
          BY <2>2, <3>3
        <5> QED
          BY <5>1
      <4>2. CutLines(SubSeq(s \o p, 1, n)) = CutFrom(lines, <<>>, SubSeq(p, 1, m))
        BY <2>4, <4>1
      <4>3. PICK cut : cut = CutFrom(lines, <<>>, SubSeq(p, 1, m))
        OBVIOUS
      <4>4. /\ m < Len(p) => cut.lines = lines /\ cut.left = SubSeq(p, 1, m)
            /\ m = Len(p) => cut.lines = long /\ cut.left = <<>>
        BY <2>1, <4>3, CutOfLine
      <4>5. Len(SubSeq(p, 1, m)) = m
        BY <2>2
      <4>6. Len(lines) \in 0..Len(long) /\ Len(lines) + 1 \in 0..Len(long) /\ Len(lines) + 1 \in DOMAIN long
        BY <2>2, <3>1
      <4>7. CASE m < Len(p)
        BY <2>1, <3>1, <4>2, <4>3, <4>4, <4>5, <4>6, <4>7
      <4>8. CASE m = Len(p)
        BY <3>1, <4>2, <4>3, <4>4, <4>6, <4>8
      <4> QED
        BY <2>2, <4>7, <4>8
    <3> QED
      BY <2>2, <3>2, <3>3
  <2>7. \A n \in 0..Len(s \o p) : SubSeq(s \o p, 1, n) \in Seq(Piece)
    BY <2>1
  <2>8. \A n \in 0..Len(s \o p) : CutLines(SubSeq(s \o p, 1, n)) \in Cuts /\ Within(CutLines(SubSeq(s \o p, 1, n)).left)
    BY <1>d, <2>7
  <2>9. Cuttable(long)
    BY <2>1, <2>5, <2>6, <2>8 DEF Cuttable
  <2> QED
    BY <2>1, <2>9
<1> HIDE DEF S
<1>3. \A lines \in Seq(SentLine) : lines \in S
  BY <1>1, <1>2, Cutting!SequencesInductive
<1> QED
  BY <1>3 DEF S

-----------------------------------------------------------------------------
(* How events are assembled of the lines *)

Taking == INSTANCE Folding WITH Op <- Taken

\* What a line may say, the events, why a stream stops, and what is assembled of its lines.
Values == {"", "message", Secret} \cup STRING
Events == [event : Values, data : Seq(SentLine), id : Values]
Stops == {"none", "event too large", "invalid UTF-8"}
States == [asm : Events, events : Seq(Events), error : Stops]

\* An event is its name, its data and its ID.
LEMMA EventsEqual ==
    ASSUME NEW a \in Events, NEW b \in Events, a.event = b.event, a.data = b.data, a.id = b.id
    PROVE  a = b
<1>1. a = [event |-> a.event, data |-> a.data, id |-> a.id] /\ b = [event |-> b.event, data |-> b.data, id |-> b.id]
  BY DEF Events
<1> QED
  BY <1>1

\* An event has the name that was given, or else the default.
LEMMA EnvelopeOf ==
    ASSUME NEW asm \in Events
    PROVE  /\ Envelope(asm) \in Events /\ Envelope(asm).data = asm.data /\ Envelope(asm).id = asm.id
           /\ Envelope(asm).event = IF asm.event = "" THEN "message" ELSE asm.event
<1>1. PICK name \in Values : name = IF asm.event = "" THEN "message" ELSE asm.event
  BY DEF Events, Values
<1>2. Envelope(asm) = [event |-> name, data |-> asm.data, id |-> asm.id]
  BY <1>1 DEF Envelope
<1>3. asm.data \in Seq(SentLine) /\ asm.id \in Values
  BY DEF Events
<1>4. [event |-> name, data |-> asm.data, id |-> asm.id] \in Events
  BY <1>3 DEF Events
<1>5. Envelope(asm).data = asm.data /\ Envelope(asm).id = asm.id /\ Envelope(asm).event = name
  BY <1>2
<1> QED
  BY <1>1, <1>2, <1>4, <1>5

\* What one line does to what was assembled of those before.
LEMMA LineIs ==
    ASSUME NEW state \in States, NEW line \in SentLine
    PROVE  LET next == Line(state, line)
               large == Size(Append(state.asm.data, line)) > MaxData
           IN  /\ next \in States
               /\ line.field = "blank" <=> line = Blank
               /\ line.field = "blank" =>
                     /\ next.asm.event = "" /\ next.asm.data = <<>> /\ next.asm.id = state.asm.id /\ next.error = state.error
                     /\ next.events = IF state.asm.data = <<>> THEN state.events ELSE Append(state.events, Envelope(state.asm))
               /\ line.field # "blank" => next.events = state.events
               /\ line.field # "blank" => next.asm.event = IF line.field = "event" THEN line.value ELSE state.asm.event
               /\ line.field # "blank" => next.asm.id = IF line.field = "id" THEN line.value ELSE state.asm.id
               /\ line.field # "blank" =>
                     next.asm.data = IF line.field = "data" THEN Append(state.asm.data, line) ELSE state.asm.data
               /\ line.field \notin {"data", "invalid"} => next.error = state.error
               /\ line.field = "data" => next.error = IF large THEN "event too large" ELSE state.error
               /\ line.field = "invalid" => next.error = "invalid UTF-8"
<1>1. PICK asm \in Events, events \in Seq(Events), error \in Stops : state = [asm |-> asm, events |-> events, error |-> error]
  BY DEF States
<1>2. PICK event \in Values, data \in Seq(SentLine), id \in Values : asm = [event |-> event, data |-> data, id |-> id]
  BY DEF Events
<1>3. line.value \in Values /\ (line.field = "blank" <=> line = Blank)
  <2>1. CASE line = Blank
    BY <2>1 DEF Blank, Values
  <2>2. CASE line # Blank
    <3>1. line \in [field : STRING \ {"blank"}, value : STRING \cup {Secret}, size : Nat]
      BY <2>2 DEF SentLine
    <3>2. line.value \in STRING \cup {Secret} /\ line.field # "blank"
      BY <3>1
    <3> QED
      BY <2>2, <3>2 DEF Values
  <2> QED
    BY <2>1, <2>2
<1>4. state.asm = asm /\ state.events = events /\ state.error = error /\ asm.event = event /\ asm.data = data /\ asm.id = id
  BY <1>1, <1>2
<1>5. Append(data, line) \in Seq(SentLine) /\ <<>> \in Seq(SentLine) /\ "" \in Values /\ "message" \in Values
  <2>1. "" \in Values /\ "message" \in Values
    BY DEF Values
  <2>2. Append(data, line) \in Seq(SentLine)
    OBVIOUS
  <2>3. <<>> \in Seq(SentLine)
    OBVIOUS
  <2> QED
    BY <2>1, <2>2, <2>3
<1>6. CASE line.field = "blank"
  <2>0. PICK name \in Values, none \in Seq(SentLine) : name = "" /\ none = <<>>
    BY <1>5
  <2>1. Dispatched(asm) = [event |-> name, data |-> none, id |-> id] /\ Dispatched(asm) \in Events
    <3>1. Dispatched(asm) = [asm EXCEPT !.event = name, !.data = none]
      BY <2>0 DEF Dispatched
    <3>2. Dispatched(asm) = [event |-> name, data |-> none, id |-> id]
      BY <1>2, <3>1
    <3>3. [event |-> name, data |-> none, id |-> id] \in Events
      BY DEF Events
    <3> QED
      BY <3>2, <3>3
  <2>2. PICK told \in Seq(Events) : told = IF data = <<>> THEN events ELSE Append(events, Envelope(asm))
    <3>1. Envelope(asm) \in Events
      BY EnvelopeOf
    <3>2. Append(events, Envelope(asm)) \in Seq(Events)
      BY <3>1
    <3> QED
      BY <3>2
  <2>3. Line(state, line) = [asm |-> Dispatched(asm), events |-> told, error |-> error]
    BY <1>1, <1>4, <1>6, <2>2 DEF Line
  <2> QED
    <3>1. Line(state, line) \in States
      BY <2>1, <2>3 DEF States
    <3>2. /\ Line(state, line).asm = Dispatched(asm) /\ Line(state, line).events = told /\ Line(state, line).error = error
          /\ Dispatched(asm).event = name /\ Dispatched(asm).data = none /\ Dispatched(asm).id = id
      BY <2>1, <2>3
    <3> QED
      BY <1>3, <1>4, <1>6, <2>0, <2>2, <3>1, <3>2
<1>7. CASE line.field = "event"
  <2>1. Line(state, line) = [state EXCEPT !.asm.event = line.value]
    BY <1>7 DEF Line
  <2>2. Line(state, line) = [asm |-> [event |-> line.value, data |-> data, id |-> id], events |-> events, error |-> error]
    BY <1>1, <1>2, <2>1
  <2>3. [event |-> line.value, data |-> data, id |-> id] \in Events
    BY <1>3 DEF Events
  <2> QED
    BY <1>3, <1>4, <1>7, <2>2, <2>3 DEF States
<1>8. CASE line.field = "id"
  <2>1. Line(state, line) = [state EXCEPT !.asm.id = line.value]
    BY <1>8 DEF Line
  <2>2. Line(state, line) = [asm |-> [event |-> event, data |-> data, id |-> line.value], events |-> events, error |-> error]
    BY <1>1, <1>2, <2>1
  <2>3. [event |-> event, data |-> data, id |-> line.value] \in Events
    BY <1>3 DEF Events
  <2> QED
    BY <1>3, <1>4, <1>8, <2>2, <2>3 DEF States
<1>9. CASE line.field = "data"
  <2>1. PICK stop \in Stops : stop = IF Size(Append(data, line)) > MaxData THEN "event too large" ELSE error
    BY DEF Stops
  <2>2. Line(state, line) = [state EXCEPT !.asm.data = Append(data, line), !.error = stop]
    BY <1>4, <1>9, <2>1 DEF Line
  <2>3. Line(state, line) = [asm |-> [event |-> event, data |-> Append(data, line), id |-> id], events |-> events, error |-> stop]
    BY <1>1, <1>2, <2>2
  <2>4. [event |-> event, data |-> Append(data, line), id |-> id] \in Events
    BY <1>5 DEF Events
  <2> QED
    <3>1. Line(state, line) \in States
      BY <2>3, <2>4 DEF States
    <3>2. /\ Line(state, line).events = events /\ Line(state, line).error = stop
          /\ Line(state, line).asm.event = event /\ Line(state, line).asm.data = Append(data, line)
          /\ Line(state, line).asm.id = id
      BY <2>3
    <3> QED
      BY <1>3, <1>4, <1>9, <2>1, <3>1, <3>2
<1>10. CASE line.field = "invalid"
  <2>1. PICK stop \in Stops : stop = "invalid UTF-8"
    BY DEF Stops
  <2>2. Line(state, line) = [state EXCEPT !.error = stop]
    BY <1>10, <2>1 DEF Line
  <2>3. Line(state, line) = [asm |-> asm, events |-> events, error |-> stop]
    BY <1>1, <2>2
  <2>4. Line(state, line) \in States
    BY <2>3 DEF States
  <2>5. Line(state, line).asm = asm /\ Line(state, line).events = events /\ Line(state, line).error = stop
    BY <2>3
  <2> QED
    BY <1>3, <1>4, <1>10, <2>1, <2>4, <2>5
<1>11. CASE line.field \notin {"blank", "event", "id", "data", "invalid"}
  <2>1. Line(state, line) = state
    BY <1>11 DEF Line
  <2> QED
    BY <1>3, <1>4, <1>11, <2>1
<1> QED
  BY <1>6, <1>7, <1>8, <1>9, <1>10, <1>11

\* A blank line ends an event, which the next starts without.
LEMMA LineBlank ==
    ASSUME NEW state \in States, NEW line \in SentLine, line.field = "blank"
    PROVE  /\ Line(state, line).asm.event = "" /\ Line(state, line).asm.data = <<>>
           /\ Line(state, line).asm.id = state.asm.id /\ Line(state, line).error = state.error
           /\ state.asm.data = <<>> => Line(state, line).events = state.events
           /\ state.asm.data # <<>> => Line(state, line).events = Append(state.events, Envelope(state.asm))
BY LineIs

\* Any other line ends none.
LEMMA LineOther ==
    ASSUME NEW state \in States, NEW line \in SentLine, line.field # "blank"
    PROVE  /\ Line(state, line).events = state.events
           /\ line.field = "event" => Line(state, line).asm.event = line.value
           /\ line.field # "event" => Line(state, line).asm.event = state.asm.event
           /\ line.field = "id" => Line(state, line).asm.id = line.value
           /\ line.field # "id" => Line(state, line).asm.id = state.asm.id
           /\ line.field = "data" => Line(state, line).asm.data = Append(state.asm.data, line)
           /\ line.field # "data" => Line(state, line).asm.data = state.asm.data
           /\ line.field \notin {"data", "invalid"} => Line(state, line).error = state.error
           /\ line.field = "data" =>
                 Line(state, line).error =
                     IF Size(Append(state.asm.data, line)) > MaxData THEN "event too large" ELSE state.error
           /\ line.field = "invalid" => Line(state, line).error = "invalid UTF-8"
BY LineIs

\* What the lines make after `asm` and `events`.
TakenFrom(asm, events, lines) == FoldLeft(Taken, [asm |-> asm, events |-> events, error |-> "none"], lines)

\* Lines are taken one after the other, and in two chunks as in one.
LEMMA TakenInOrder ==
    ASSUME NEW asm \in Events, NEW events \in Seq(Events)
    PROVE  /\ TakenFrom(asm, events, <<>>) = [asm |-> asm, events |-> events, error |-> "none"]
           /\ \A s \in Seq(SentLine) : TakenFrom(asm, events, s) \in States
           /\ \A s \in Seq(SentLine), line \in SentLine :
                 TakenFrom(asm, events, Append(s, line)) = Taken(TakenFrom(asm, events, s), line)
           /\ \A s \in Seq(SentLine), t \in Seq(SentLine) :
                 TakenFrom(asm, events, s).error = "none" =>
                     TakenFrom(asm, events, s \o t) = TakenFrom(TakenFrom(asm, events, s).asm, TakenFrom(asm, events, s).events, t)
<1> DEFINE base == [asm |-> asm, events |-> events, error |-> "none"]
<1>1. \A b, s : FoldLeft(Taken, b, s) = Taking!Fold(b, s)
  BY DEF Taking!Fold, Taking!MapThenFoldSet, Taking!Max, FoldLeft, MapThenFoldSet, Max
<1>2. \A s : TakenFrom(asm, events, s) = Taking!Fold(base, s)
  BY <1>1 DEF TakenFrom
<1>3. base \in States
  BY DEF States, Stops
<1>4. \A state \in States, line \in SentLine : Taken(state, line) \in States
  BY LineIs DEF Taken
<1>e. TakenFrom(asm, events, <<>>) = base
  BY <1>2, Taking!FoldEmpty
<1> HIDE DEF base
<1>5. \A s \in Seq(SentLine) : Taking!Fold(base, s) \in States
  BY <1>3, <1>4, Taking!FoldKeeps
<1>6. \A s \in Seq(SentLine), line \in SentLine : Taking!Fold(base, Append(s, line)) = Taken(Taking!Fold(base, s), line)
  BY Taking!FoldAppend
<1>7. ASSUME NEW s \in Seq(SentLine), NEW t \in Seq(SentLine), TakenFrom(asm, events, s).error = "none"
      PROVE  TakenFrom(asm, events, s \o t) = TakenFrom(TakenFrom(asm, events, s).asm, TakenFrom(asm, events, s).events, t)
  <2>1. PICK c \in States : c = TakenFrom(asm, events, s)
    BY <1>2, <1>5
  <2>2. c = [asm |-> c.asm, events |-> c.events, error |-> "none"]
    BY <1>7, <2>1 DEF States
  <2>3. Taking!Fold(base, s \o t) = Taking!Fold(Taking!Fold(base, s), t)
    BY Taking!FoldConcat
  <2>4. TakenFrom(asm, events, s \o t) = FoldLeft(Taken, c, t)
    BY <1>1, <1>2, <2>1, <2>3
  <2> QED
    BY <2>1, <2>2, <2>4 DEF TakenFrom
<1> QED
  BY <1>2, <1>e, <1>5, <1>6, <1>7 DEF base

\* The events before only come first.
LEMMA TakenLater ==
    ASSUME NEW asm \in Events, NEW events \in Seq(Events)
    PROVE  \A s \in Seq(SentLine) :
              /\ TakenFrom(asm, events, s).asm = TakenFrom(asm, <<>>, s).asm
              /\ TakenFrom(asm, events, s).error = TakenFrom(asm, <<>>, s).error
              /\ TakenFrom(asm, events, s).events = events \o TakenFrom(asm, <<>>, s).events
<1> DEFINE Later(c, d) == d.asm = c.asm /\ d.error = c.error /\ d.events = events \o c.events
           S == {s \in Seq(SentLine) : Later(TakenFrom(asm, <<>>, s), TakenFrom(asm, events, s))}
<1>e. <<>> \in Seq(SentLine) /\ <<>> \in Seq(Events)
  OBVIOUS
<1>1. <<>> \in S
  <2>1. TakenFrom(asm, <<>>, <<>>) = [asm |-> asm, events |-> <<>>, error |-> "none"]
    BY <1>e, TakenInOrder
  <2>2. TakenFrom(asm, events, <<>>) = [asm |-> asm, events |-> events, error |-> "none"]
    BY TakenInOrder
  <2>3. events \o <<>> = events
    OBVIOUS
  <2> QED
    BY <1>e, <2>1, <2>2, <2>3
<1>2. ASSUME NEW s \in Seq(SentLine), NEW line \in SentLine, s \in S PROVE Append(s, line) \in S
  <2>1. PICK c \in States : c = TakenFrom(asm, <<>>, s) /\ TakenFrom(asm, <<>>, Append(s, line)) = Taken(c, line)
    BY <1>e, TakenInOrder
  <2>2. PICK d \in States : d = TakenFrom(asm, events, s) /\ TakenFrom(asm, events, Append(s, line)) = Taken(d, line)
    BY TakenInOrder
  <2>3. Later(c, d)
    BY <1>2, <2>1, <2>2
  <2>4. Later(Taken(c, line), Taken(d, line))
    <3>1. CASE c.error # "none"
      BY <2>3, <3>1 DEF Taken
    <3>2. CASE c.error = "none"
      <4>1. PICK e \in States : e = Line(c, line)
        BY LineIs
      <4>2. PICK f \in States : f = Line(d, line)
        BY LineIs
      <4>3. Taken(c, line) = e /\ Taken(d, line) = f
        BY <2>3, <3>2, <4>1, <4>2 DEF Taken
      <4>4. c.asm \in Events /\ c.events \in Seq(Events) /\ Envelope(c.asm) \in Events
        BY EnvelopeOf DEF States
      <4>5. events \o Append(c.events, Envelope(c.asm)) = Append(events \o c.events, Envelope(c.asm))
        BY <4>4
      <4>6. CASE line.field = "blank"
        <5>1. /\ e.asm.event = "" /\ e.asm.data = <<>> /\ e.asm.id = c.asm.id /\ e.error = c.error
              /\ c.asm.data = <<>> => e.events = c.events
              /\ c.asm.data # <<>> => e.events = Append(c.events, Envelope(c.asm))
          BY <4>1, <4>6, LineBlank
        <5>2. /\ f.asm.event = "" /\ f.asm.data = <<>> /\ f.asm.id = d.asm.id /\ f.error = d.error
              /\ d.asm.data = <<>> => f.events = d.events
              /\ d.asm.data # <<>> => f.events = Append(d.events, Envelope(d.asm))
          BY <4>2, <4>6, LineBlank
        <5>3. f.events = events \o e.events
          BY <2>3, <4>5, <5>1, <5>2
        <5>4. e.asm \in Events /\ f.asm \in Events
          BY DEF States
        <5>5. e.asm = f.asm
          <6>1. e.asm.event = f.asm.event /\ e.asm.data = f.asm.data /\ e.asm.id = f.asm.id
            BY <2>3, <5>1, <5>2
          <6> QED
            BY <5>4, <6>1, EventsEqual
        <5> QED
          BY <2>3, <4>3, <5>1, <5>2, <5>3, <5>5
      <4>7. CASE line.field # "blank"
        <5>1. /\ e.events = c.events
              /\ e.asm.event = IF line.field = "event" THEN line.value ELSE c.asm.event
              /\ e.asm.id = IF line.field = "id" THEN line.value ELSE c.asm.id
              /\ e.asm.data = IF line.field = "data" THEN Append(c.asm.data, line) ELSE c.asm.data
              /\ line.field \notin {"data", "invalid"} => e.error = c.error
              /\ line.field = "data" => e.error = IF Size(Append(c.asm.data, line)) > MaxData THEN "event too large" ELSE c.error
              /\ line.field = "invalid" => e.error = "invalid UTF-8"
          BY <4>1, <4>7, LineOther
        <5>2. /\ f.events = d.events
              /\ f.asm.event = IF line.field = "event" THEN line.value ELSE d.asm.event
              /\ f.asm.id = IF line.field = "id" THEN line.value ELSE d.asm.id
              /\ f.asm.data = IF line.field = "data" THEN Append(d.asm.data, line) ELSE d.asm.data
              /\ line.field \notin {"data", "invalid"} => f.error = d.error
              /\ line.field = "data" => f.error = IF Size(Append(d.asm.data, line)) > MaxData THEN "event too large" ELSE d.error
              /\ line.field = "invalid" => f.error = "invalid UTF-8"
          BY <4>2, <4>7, LineOther
        <5>3. e.asm \in Events /\ f.asm \in Events
          BY DEF States
        <5>4. e.asm = f.asm
          <6>1. e.asm.event = f.asm.event /\ e.asm.data = f.asm.data /\ e.asm.id = f.asm.id
            BY <2>3, <5>1, <5>2
          <6> QED
            BY <5>3, <6>1, EventsEqual
        <5>5. e.error = f.error
          BY <2>3, <5>1, <5>2
        <5> QED
          BY <2>3, <4>3, <5>1, <5>2, <5>4, <5>5
      <4> QED
        BY <4>6, <4>7
    <3> QED
      BY <3>1, <3>2
  <2>5. Append(s, line) \in Seq(SentLine)
    OBVIOUS
  <2> QED
    BY <2>1, <2>2, <2>4, <2>5
<1> HIDE DEF S
<1>3. \A s \in Seq(SentLine) : s \in S
  BY <1>1, <1>2, Taking!SequencesInductive
<1> QED
  BY <1>3 DEF S

-----------------------------------------------------------------------------
(* What a stream of lines means, and that it is what is assembled *)

Adding == INSTANCE Folding WITH Op <- AddData
Listing == INSTANCE Folding WITH Op <- AddEvent

\* The data of one more line.
LEMMA DataInOrder ==
    /\ DataOf(<<>>) = <<>>
    /\ \A s \in Seq(SentLine) : DataOf(s) \in Seq(SentLine)
    /\ \A s \in Seq(SentLine), line \in SentLine :
          DataOf(Append(s, line)) = IF line.field = "data" THEN Append(DataOf(s), line) ELSE DataOf(s)
<1>1. \A s : DataOf(s) = Adding!Fold(<<>>, s)
  BY DEF DataOf, Adding!Fold, Adding!MapThenFoldSet, Adding!Max, FoldLeft, MapThenFoldSet, Max
<1>2. \A data \in Seq(SentLine), line \in SentLine : AddData(data, line) \in Seq(SentLine)
  BY DEF AddData
<1>3. <<>> \in Seq(SentLine)
  OBVIOUS
<1>4. \A s \in Seq(SentLine) : Adding!Fold(<<>>, s) \in Seq(SentLine)
  BY <1>2, <1>3, Adding!FoldKeeps
<1>5. \A s \in Seq(SentLine), line \in SentLine : Adding!Fold(<<>>, Append(s, line)) = AddData(Adding!Fold(<<>>, s), line)
  BY Adding!FoldAppend
<1> QED
  BY <1>1, <1>4, <1>5, Adding!FoldEmpty DEF AddData

\* A greatest member is the maximum.
LEMMA MaxIs ==
    ASSUME NEW T \in SUBSET Nat, NEW m \in T, \A y \in T : m >= y
    PROVE  Max(T) = m
<1>1. \E x \in T : \A y \in T : x >= y
  OBVIOUS
<1>2. Max(T) = CHOOSE x \in T : \A y \in T : x >= y
  BY DEF Max
<1>3. PICK x \in T : x = Max(T) /\ \A y \in T : x >= y
  BY <1>1, <1>2
<1>4. x \in Nat /\ m \in Nat /\ x >= m /\ m >= x
  BY <1>3
<1> QED
  BY <1>3, <1>4

\* The last blank line, or none.
LastBlank(lines) == Max({0} \cup {i \in DOMAIN lines : lines[i] = Blank})

\* Where the last blank line is when there is one more line.
LEMMA BlankInOrder ==
    /\ LastBlank(<<>>) = 0
    /\ \A s \in Seq(SentLine) : LastBlank(s) \in 0..Len(s)
    /\ \A s \in Seq(SentLine), line \in SentLine :
          LastBlank(Append(s, line)) = IF line = Blank THEN Len(s) + 1 ELSE LastBlank(s)
<1>1. LastBlank(<<>>) = 0
  <2>1. {0} \cup {i \in DOMAIN <<>> : <<>>[i] = Blank} = {0}
    OBVIOUS
  <2>2. Max({0}) = 0
    BY MaxIs
  <2> QED
    BY <2>1, <2>2 DEF LastBlank
<1>2. ASSUME NEW s \in Seq(SentLine) PROVE LastBlank(s) \in 0..Len(s)
  <2> DEFINE T == {i \in DOMAIN s : s[i] = Blank}
  <2>1. Len(s) \in Nat /\ T \in SUBSET (1..Len(s)) /\ {0} \cup T \in SUBSET Nat
    OBVIOUS
  <2> HIDE DEF T
  <2>2. CASE T = {}
    <3>1. {0} \cup T = {0}
      BY <2>2
    <3>2. Max({0}) = 0
      BY MaxIs
    <3>3. LastBlank(s) = Max({0} \cup T)
      BY DEF LastBlank, T
    <3>4. LastBlank(s) = 0
      BY <3>1, <3>2, <3>3, Zenon
    <3>5. Len(s) \in Nat
      OBVIOUS
    <3> QED
      BY <3>4, <3>5
  <2>3. CASE T # {}
    <3>1. PICK m \in T : \A y \in T : m >= y
      <4>1. PICK n \in Nat : n = Len(s)
        BY <2>1
      <4>2. Listing!Max(T) \in T /\ \A y \in T : Listing!Max(T) >= y
        BY <2>1, <2>3, <4>1, Listing!Greatest
      <4> QED
        BY <4>2
    <3>2. \A y \in {0} \cup T : m >= y
      BY <2>1, <3>1
    <3>3. Max({0} \cup T) = m
      BY <2>1, <3>2, MaxIs
    <3> QED
      BY <2>1, <3>3 DEF LastBlank, T
  <2> QED
    BY <2>2, <2>3
<1>3. ASSUME NEW s \in Seq(SentLine), NEW line \in SentLine
      PROVE  LastBlank(Append(s, line)) = IF line = Blank THEN Len(s) + 1 ELSE LastBlank(s)
  <2> DEFINE T == {i \in DOMAIN s : s[i] = Blank}
             U == {i \in DOMAIN Append(s, line) : Append(s, line)[i] = Blank}
  <2>1. /\ Len(s) \in Nat /\ DOMAIN s = 1..Len(s) /\ DOMAIN Append(s, line) = 1..(Len(s) + 1)
        /\ Append(s, line)[Len(s) + 1] = line /\ \A i \in 1..Len(s) : Append(s, line)[i] = s[i]
    OBVIOUS
  <2>2. CASE line = Blank
    <3>1. {0} \cup U \in SUBSET Nat /\ Len(s) + 1 \in {0} \cup U /\ \A y \in {0} \cup U : Len(s) + 1 >= y
      BY <2>1, <2>2
    <3>2. Max({0} \cup U) = Len(s) + 1
      BY <3>1, MaxIs
    <3> QED
      BY <2>2, <3>2 DEF LastBlank
  <2>3. CASE line # Blank
    <3>1. U = T
      BY <2>1, <2>3
    <3> QED
      BY <2>3, <3>1 DEF LastBlank
  <2> QED
    BY <2>2, <2>3
<1> QED
  BY <1>1, <1>2, <1>3

\* No line after the last blank one is blank.
LEMMA AfterLastBlank == \A s \in Seq(SentLine) : \A k \in (LastBlank(s) + 1)..Len(s) : s[k] # Blank
<1> SUFFICES ASSUME NEW s \in Seq(SentLine) PROVE \A k \in (LastBlank(s) + 1)..Len(s) : s[k] # Blank
  OBVIOUS
<1> DEFINE T == {i \in DOMAIN s : s[i] = Blank}
<1>1. Len(s) \in Nat /\ T \in SUBSET (1..Len(s)) /\ {0} \cup T \in SUBSET Nat
  OBVIOUS
<1> HIDE DEF T
<1>2. CASE T = {}
  <2>1. \A k \in DOMAIN s : s[k] # Blank
    BY <1>2 DEF T
  <2>2. LastBlank(s) \in Nat
    BY BlankInOrder
  <2> QED
    BY <1>1, <2>1, <2>2
<1>3. CASE T # {}
  <2>1. PICK n \in Nat : n = Len(s)
    BY <1>1
  <2>2. Listing!Max(T) \in T /\ \A y \in T : Listing!Max(T) >= y
    BY <1>1, <1>3, <2>1, Listing!Greatest
  <2>3. PICK m \in T : \A y \in T : m >= y
    BY <2>2
  <2>4. \A y \in {0} \cup T : m >= y
    BY <1>1, <2>3
  <2>5. LastBlank(s) = m
    <3>1. Max({0} \cup T) = m
      BY <1>1, <2>4, MaxIs
    <3> QED
      BY <3>1 DEF LastBlank, T
  <2>6. ASSUME NEW k \in (m + 1)..Len(s) PROVE s[k] # Blank
    <3>1. k \in DOMAIN s /\ k \notin T
      BY <1>1, <2>3
    <3> QED
      BY <3>1 DEF T
  <2> QED
    BY <2>5, <2>6
<1> QED
  BY <1>2, <1>3

\* The lines since the last blank one, when there is one more.
LEMMA SinceInOrder ==
    /\ Since(<<>>) = <<>>
    /\ \A s \in Seq(SentLine) : Since(s) \in Seq(SentLine)
    /\ \A s \in Seq(SentLine), line \in SentLine :
          Since(Append(s, line)) = IF line = Blank THEN <<>> ELSE Append(Since(s), line)
<1>1. \A s : Since(s) = SubSeq(s, LastBlank(s) + 1, Len(s))
  BY DEF Since, LastBlank
<1>2. Since(<<>>) = <<>>
  BY <1>1, BlankInOrder
<1>3. ASSUME NEW s \in Seq(SentLine) PROVE Since(s) \in Seq(SentLine)
  <2>1. PICK m \in 0..Len(s) : m = LastBlank(s)
    BY BlankInOrder
  <2>2. SubSeq(s, m + 1, Len(s)) \in Seq(SentLine)
    <3>1. m + 1 \in Int /\ Len(s) \in Int /\ \A i \in (m + 1)..Len(s) : s[i] \in SentLine
      BY <2>1
    <3> QED
      BY <3>1, SubSeqProperties
  <2> QED
    BY <1>1, <2>1, <2>2
<1>4. ASSUME NEW s \in Seq(SentLine), NEW line \in SentLine
      PROVE  Since(Append(s, line)) = IF line = Blank THEN <<>> ELSE Append(Since(s), line)
  <2>1. PICK m \in 0..Len(s) : m = LastBlank(s)
    BY BlankInOrder
  <2>2. PICK n \in Nat, long \in Seq(SentLine) : n = Len(s) /\ long = Append(s, line) /\ Len(long) = n + 1
    <3>1. Len(s) \in Nat /\ Append(s, line) \in Seq(SentLine) /\ Len(Append(s, line)) = Len(s) + 1
      OBVIOUS
    <3> QED
      BY <3>1
  <2>3. CASE line = Blank
    <3>1. LastBlank(long) = n + 1
      BY <2>2, <2>3, BlankInOrder
    <3>2. SubSeq(long, (n + 1) + 1, n + 1) = <<>>
      BY SubSeqEmpty
    <3> QED
      BY <1>1, <2>2, <2>3, <3>1, <3>2
  <2>4. CASE line # Blank
    <3>1. LastBlank(long) = m
      BY <2>1, <2>2, <2>4, BlankInOrder
    <3>2. SubSeq(long, m + 1, n + 1) = Append(SubSeq(s, m + 1, n), line)
      <4>1. m + 1 \in 1..Len(long) /\ n + 1 \in (m + 1)..Len(long) /\ (n + 1) - 1 = n
        BY <2>2
      <4>2. SubSeq(long, m + 1, n + 1) = SubSeq(long, m + 1, n) \o <<long[n + 1]>>
        BY <4>1, SubSeqRecursiveSecond
      <4>3. long[n + 1] = line
        BY <2>2
      <4>4. SubSeq(long, m + 1, n) = SubSeq(s, m + 1, n)
        BY <2>2
      <4>5. SubSeq(s, m + 1, n) \in Seq(SentLine)
        BY <1>1, <1>3, <2>1, <2>2
      <4> QED
        BY <4>2, <4>3, <4>4, <4>5
    <3> QED
      BY <1>1, <2>1, <2>2, <2>4, <3>1, <3>2
  <2> QED
    BY <2>3, <2>4
<1> QED
  BY <1>2, <1>3, <1>4

\* The last value of a field, when there is one more line.
LEMMA LastInOrder ==
    ASSUME NEW field
    PROVE  /\ LastValue(<<>>, field) = ""
           /\ \A s \in Seq(SentLine) : LastValue(s, field) \in Values
           /\ \A s \in Seq(SentLine), line \in SentLine :
                 LastValue(Append(s, line), field) = IF line.field = field THEN line.value ELSE LastValue(s, field)
<1> DEFINE At(s) == {i \in DOMAIN s : s[i].field = field}
<1>1. \A s : /\ At(s) = {} => LastValue(s, field) = ""
             /\ At(s) # {} => LastValue(s, field) = s[Max(At(s))].value
  BY DEF LastValue
<1>2. LastValue(<<>>, field) = ""
  <2>1. At(<<>>) = {}
    OBVIOUS
  <2> QED
    BY <1>1, <2>1
<1>3. \A s \in Seq(SentLine) : Len(s) \in Nat /\ At(s) \in SUBSET (1..Len(s)) /\ DOMAIN s = 1..Len(s)
  OBVIOUS
<1>4. ASSUME NEW s \in Seq(SentLine), NEW line \in SentLine
      PROVE  LastValue(Append(s, line), field) = IF line.field = field THEN line.value ELSE LastValue(s, field)
  <2>1. /\ Len(s) \in Nat /\ DOMAIN s = 1..Len(s) /\ DOMAIN Append(s, line) = 1..(Len(s) + 1)
        /\ Append(s, line)[Len(s) + 1] = line /\ \A i \in 1..Len(s) : Append(s, line)[i] = s[i]
    OBVIOUS
  <2>2. CASE line.field = field
    <3>1. /\ At(Append(s, line)) \in SUBSET Nat /\ Len(s) + 1 \in At(Append(s, line))
          /\ \A y \in At(Append(s, line)) : Len(s) + 1 >= y
      BY <2>1, <2>2
    <3>2. Max(At(Append(s, line))) = Len(s) + 1 /\ At(Append(s, line)) # {}
      BY <3>1, MaxIs
    <3> HIDE DEF At
    <3> QED
      BY <1>1, <2>1, <2>2, <3>2
  <2>3. CASE line.field # field
    <3>1. At(Append(s, line)) = At(s)
      BY <2>1, <2>3
    <3>2. At(s) # {} => Max(At(s)) \in 1..Len(s)
      <4>1. PICK n \in Nat : n = Len(s) /\ At(s) \in SUBSET (1..n)
        BY <1>3
      <4>2. At(s) # {} => Listing!Max(At(s)) \in At(s)
        BY <4>1, Listing!Greatest
      <4>3. Listing!Max(At(s)) = Max(At(s))
        BY DEF Max, Listing!Max
      <4> QED
        BY <4>1, <4>2, <4>3
    <3> HIDE DEF At
    <3>3. CASE At(s) = {}
      BY <1>1, <2>3, <3>1, <3>3
    <3>4. CASE At(s) # {}
      BY <1>1, <2>1, <2>3, <3>1, <3>2, <3>4
    <3> QED
      BY <3>3, <3>4
  <2> QED
    BY <2>2, <2>3
<1>5. \A s \in Seq(SentLine) : LastValue(s, field) \in Values
  <2>1. ASSUME NEW line \in SentLine PROVE line.value \in Values
    <3>1. CASE line = Blank
      BY <3>1 DEF Blank, Values
    <3>2. CASE line # Blank
      <4>1. line.value \in STRING \cup {Secret}
        BY <3>2 DEF SentLine
      <4> QED
        BY <4>1 DEF Values
    <3> QED
      BY <3>1, <3>2
  <2> DEFINE S == {s \in Seq(SentLine) : LastValue(s, field) \in Values}
  <2>2. <<>> \in S
    <3>1. <<>> \in Seq(SentLine)
      OBVIOUS
    <3>2. LastValue(<<>>, field) \in Values
      BY <1>2, Zenon DEF Values
    <3> QED
      BY <3>1, <3>2
  <2>3. \A s \in Seq(SentLine), line \in SentLine : s \in S => Append(s, line) \in S
    BY <1>4, <2>1
  <2> HIDE DEF S
  <2>4. \A s \in Seq(SentLine) : s \in S
    BY <2>2, <2>3, Listing!SequencesInductive
  <2> QED
    BY <2>4 DEF S
<1> QED
  BY <1>2, <1>4, <1>5

-----------------------------------------------------------------------------
(* The events of a stream, line by line *)

\* The event that ends after `s`.
LEMMA EventAfterIs ==
    ASSUME NEW s \in Seq(SentLine)
    PROVE  /\ EventAfter(s) \in Events /\ EventAfter(s).data = DataOf(Since(s)) /\ EventAfter(s).id = LastValue(s, "id")
           /\ EventAfter(s).event =
                 IF LastValue(Since(s), "event") = "" THEN "message" ELSE LastValue(Since(s), "event")
<1>1. PICK since \in Seq(SentLine) : since = Since(s)
  BY SinceInOrder
<1>2. PICK given \in Values : given = LastValue(since, "event")
  BY LastInOrder
<1>3. PICK name \in Values : name = IF given = "" THEN "message" ELSE given
  BY DEF Values
<1>4. PICK data \in Seq(SentLine), id \in Values : data = DataOf(since) /\ id = LastValue(s, "id")
  BY DataInOrder, LastInOrder
<1>5. EventAfter(s) = [event |-> name, data |-> data, id |-> id]
  BY <1>1, <1>2, <1>3, <1>4 DEF EventAfter
<1>6. [event |-> name, data |-> data, id |-> id] \in Events
  BY DEF Events
<1>7. EventAfter(s).data = data /\ EventAfter(s).id = id /\ EventAfter(s).event = name
  BY <1>5
<1> QED
  BY <1>1, <1>2, <1>3, <1>4, <1>5, <1>6, <1>7

\* A blank line ends the event after the lines before it, if it has data.
LEMMA EventsInOrder ==
    /\ EventsOf(<<>>) = <<>>
    /\ \A s \in Seq(SentLine) : EventsOf(s) \in Seq(Events)
    /\ \A s \in Seq(SentLine), line \in SentLine :
          EventsOf(Append(s, line)) =
              IF line = Blank /\ EventAfter(s).data # <<>> THEN Append(EventsOf(s), EventAfter(s)) ELSE EventsOf(s)
<1> DEFINE base == [lines |-> <<>>, events |-> <<>>]
           Of(s) == Listing!Fold(base, s)
           Right(of, s) == of.lines = s /\ of.events \in Seq(Events)
           S == {s \in Seq(SentLine) : Right(Of(s), s)}
<1>1. \A s : EventsOf(s) = Of(s).events
  BY DEF EventsOf, Listing!Fold, Listing!MapThenFoldSet, Listing!Max, FoldLeft, MapThenFoldSet, Max
<1>2. Of(<<>>) = base /\ base.lines = <<>> /\ base.events = <<>>
  BY Listing!FoldEmpty
<1>3. \A s \in Seq(SentLine), line \in SentLine : Of(Append(s, line)) = AddEvent(Of(s), line)
  BY Listing!FoldAppend
<1> HIDE DEF Of, base
<1>4. <<>> \in S
  <2>1. <<>> \in Seq(SentLine) /\ <<>> \in Seq(Events)
    OBVIOUS
  <2> QED
    BY <1>2, <2>1
<1>5. ASSUME NEW of, NEW s \in Seq(SentLine), NEW line \in SentLine, Right(of, s)
      PROVE  /\ AddEvent(of, line).lines = Append(s, line)
             /\ AddEvent(of, line).events =
                   IF line = Blank /\ EventAfter(s).data # <<>> THEN Append(of.events, EventAfter(s)) ELSE of.events
             /\ AddEvent(of, line).events \in Seq(Events)
  <2>1. PICK events \in Seq(Events), event \in Events : events = of.events /\ event = EventAfter(s)
    BY <1>5, EventAfterIs
  <2>2. PICK more \in Seq(Events) : more = IF line = Blank /\ event.data # <<>> THEN Append(events, event) ELSE events
    <3>1. Append(events, event) \in Seq(Events)
      OBVIOUS
    <3> QED
      BY <3>1
  <2>3. AddEvent(of, line) = [lines |-> Append(s, line), events |-> more]
    BY <1>5, <2>1, <2>2 DEF AddEvent
  <2> QED
    BY <2>1, <2>2, <2>3
<1>6. ASSUME NEW s \in Seq(SentLine), NEW line \in SentLine, s \in S PROVE Append(s, line) \in S
  <2>1. Append(s, line) \in Seq(SentLine)
    OBVIOUS
  <2>2. PICK of : of = Of(s)
    OBVIOUS
  <2>3. Right(of, s)
    BY <1>6, <2>2
  <2>4. Right(AddEvent(of, line), Append(s, line))
    BY <1>5, <2>3
  <2> QED
    BY <1>3, <2>1, <2>2, <2>4
<1> HIDE DEF S
<1>7. \A s \in Seq(SentLine) : s \in S
  BY <1>4, <1>6, Listing!SequencesInductive
<1>8. \A s \in Seq(SentLine) : Right(Of(s), s)
  BY <1>7 DEF S
<1>9. ASSUME NEW s \in Seq(SentLine), NEW line \in SentLine
      PROVE  EventsOf(Append(s, line)) =
                 IF line = Blank /\ EventAfter(s).data # <<>> THEN Append(EventsOf(s), EventAfter(s)) ELSE EventsOf(s)
  <2>1. PICK of : of = Of(s)
    OBVIOUS
  <2>2. Right(of, s)
    BY <1>8, <2>1
  <2>3. AddEvent(of, line).events =
            IF line = Blank /\ EventAfter(s).data # <<>> THEN Append(of.events, EventAfter(s)) ELSE of.events
    BY <1>5, <2>2
  <2> QED
    BY <1>1, <1>3, <2>1, <2>3
<1> QED
  BY <1>1, <1>2, <1>8, <1>9

\* The events of the first lines are the first events.
LEMMA EventsOfFirst ==
    ASSUME NEW s \in Seq(SentLine)
    PROVE  \A t \in Seq(SentLine) : \E more \in Seq(Events) : EventsOf(s \o t) = EventsOf(s) \o more
<1> DEFINE S == {t \in Seq(SentLine) : \E more \in Seq(Events) : EventsOf(s \o t) = EventsOf(s) \o more}
<1>0. PICK events \in Seq(Events) : events = EventsOf(s)
  BY EventsInOrder
<1>1. <<>> \in S
  <2>1. s \o <<>> = s /\ events \o <<>> = events /\ <<>> \in Seq(SentLine) /\ <<>> \in Seq(Events)
    OBVIOUS
  <2> QED
    BY <1>0, <2>1
<1>2. ASSUME NEW t \in Seq(SentLine), NEW line \in SentLine, t \in S PROVE Append(t, line) \in S
  <2>1. PICK more \in Seq(Events) : EventsOf(s \o t) = events \o more
    BY <1>0, <1>2
  <2>2. PICK u \in Seq(SentLine) : u = s \o t
    <3>1. s \o t \in Seq(SentLine)
      OBVIOUS
    <3> QED
      BY <3>1
  <2>3. s \o Append(t, line) = Append(u, line) /\ Append(t, line) \in Seq(SentLine)
    BY <2>2
  <2>4. PICK event \in Events : event = EventAfter(u)
    BY EventAfterIs
  <2>5. events \o Append(more, event) = Append(events \o more, event) /\ Append(more, event) \in Seq(Events)
    OBVIOUS
  <2>6. EventsOf(Append(u, line)) = Append(events \o more, event) \/ EventsOf(Append(u, line)) = events \o more
    BY <2>1, <2>2, <2>4, EventsInOrder
  <2> QED
    BY <1>0, <2>3, <2>5, <2>6
<1> HIDE DEF S
<1>3. \A t \in Seq(SentLine) : t \in S
  BY <1>1, <1>2, Listing!SequencesInductive
<1> QED
  BY <1>3 DEF S

\* What is assembled of the lines `s` is what they mean, up to the first that fails; and that an event is
\* too large says so of some of them.
Agrees(state, s) ==
    /\ \E more \in Seq(Events) : EventsOf(s) = state.events \o more
    /\ state.error = "none" =>
           /\ state.asm.data = DataOf(Since(s)) /\ state.asm.event = LastValue(Since(s), "event")
           /\ state.asm.id = LastValue(s, "id") /\ state.events = EventsOf(s)
    /\ state.error = "event too large" =>
           \E i, j \in 1..Len(s) : OfOneEvent(s, i, j) /\ Size(DataOf(SubSeq(s, i, j))) > MaxData

\* One more line keeps them in agreement.
LEMMA LineAgrees ==
    ASSUME NEW state \in States, NEW s \in Seq(SentLine), NEW line \in SentLine, Agrees(state, s), state.error = "none"
    PROVE  Agrees(Line(state, line), Append(s, line))
<1>1. PICK next \in States : next = Line(state, line)
  BY LineIs
<1>2. PICK long \in Seq(SentLine) : long = Append(s, line)
  <2>1. Append(s, line) \in Seq(SentLine)
    OBVIOUS
  <2> QED
    BY <2>1
<1>3. PICK events \in Seq(Events), event \in Events, asm \in Events :
         events = EventsOf(s) /\ event = EventAfter(s) /\ asm = state.asm /\ events = state.events
  <2>1. EventsOf(s) \in Seq(Events) /\ EventAfter(s) \in Events /\ state.asm \in Events /\ EventsOf(s) = state.events
    BY EventsInOrder, EventAfterIs DEF States, Agrees
  <2> QED
    BY <2>1
<1>4. asm.data = DataOf(Since(s)) /\ asm.event = LastValue(Since(s), "event") /\ asm.id = LastValue(s, "id")
  BY <1>3 DEF Agrees
<1>5. events \o <<>> = events /\ <<>> \in Seq(Events)
  OBVIOUS
<1>6. CASE line.field = "blank"
  <2>1. /\ next.asm.event = "" /\ next.asm.data = <<>> /\ next.asm.id = asm.id /\ next.error = "none"
        /\ asm.data = <<>> => next.events = events
        /\ asm.data # <<>> => next.events = Append(events, Envelope(asm))
    BY <1>1, <1>3, <1>6, LineBlank
  <2>2. line = Blank
    BY <1>6 DEF SentLine
  <2>3. Envelope(asm) = event
    <3>1. PICK told \in Events : told = Envelope(asm)
      BY EnvelopeOf
    <3>2. told.data = asm.data /\ told.id = asm.id /\ told.event = IF asm.event = "" THEN "message" ELSE asm.event
      BY <3>1, EnvelopeOf
    <3>3. event.data = asm.data /\ event.id = asm.id /\ event.event = IF asm.event = "" THEN "message" ELSE asm.event
      BY <1>3, <1>4, EventAfterIs
    <3>4. told.data = event.data /\ told.id = event.id /\ told.event = event.event
      BY <3>2, <3>3
    <3> QED
      BY <3>1, <3>4, EventsEqual
  <2>4. event.data = asm.data
    BY <1>3, <1>4, EventAfterIs
  <2>5. EventsOf(long) = IF event.data # <<>> THEN Append(events, event) ELSE events
    BY <1>2, <1>3, <2>2, EventsInOrder
  <2>6. next.events = EventsOf(long)
    BY <2>1, <2>3, <2>4, <2>5
  <2>7. Since(long) = <<>>
    BY <1>2, <2>2, SinceInOrder
  <2>8. DataOf(<<>>) = <<>> /\ LastValue(<<>>, "event") = ""
    BY DataInOrder, LastInOrder
  <2>9. LastValue(long, "id") = LastValue(s, "id")
    <3>1. LastValue(long, "id") = IF line.field = "id" THEN line.value ELSE LastValue(s, "id")
      BY <1>2, LastInOrder
    <3> QED
      BY <1>6, <3>1
  <2>10. EventsOf(long) \in Seq(Events)
    BY EventsInOrder
  <2>11. EventsOf(long) = EventsOf(long) \o <<>>
    BY <2>10
  <2> QED
    BY <1>1, <1>2, <1>4, <1>5, <2>1, <2>6, <2>7, <2>8, <2>9, <2>11 DEF Agrees
<1>7. CASE line.field # "blank"
  <2>1. /\ next.events = events
        /\ next.asm.event = IF line.field = "event" THEN line.value ELSE asm.event
        /\ next.asm.id = IF line.field = "id" THEN line.value ELSE asm.id
        /\ next.asm.data = IF line.field = "data" THEN Append(asm.data, line) ELSE asm.data
        /\ line.field \notin {"data", "invalid"} => next.error = "none"
        /\ line.field = "data" => next.error = IF Size(Append(asm.data, line)) > MaxData THEN "event too large" ELSE "none"
        /\ line.field = "invalid" => next.error = "invalid UTF-8"
    BY <1>1, <1>3, <1>7, LineOther
  <2>2. line # Blank
    BY <1>7, LineIs
  <2>3. EventsOf(long) = events
    BY <1>2, <1>3, <2>2, EventsInOrder
  <2>4. PICK since \in Seq(SentLine), more \in Seq(SentLine) :
           since = Since(s) /\ more = Since(long) /\ more = Append(since, line)
    <3>1. Since(s) \in Seq(SentLine) /\ Since(long) \in Seq(SentLine) /\ Since(long) = Append(Since(s), line)
      BY <1>2, <2>2, SinceInOrder
    <3> QED
      BY <3>1
  <2>5. DataOf(more) = IF line.field = "data" THEN Append(asm.data, line) ELSE asm.data
    BY <1>4, <2>4, DataInOrder
  <2>6. LastValue(more, "event") = IF line.field = "event" THEN line.value ELSE asm.event
    <3>1. LastValue(Append(since, line), "event") = IF line.field = "event" THEN line.value ELSE LastValue(since, "event")
      BY LastInOrder
    <3> QED
      BY <1>4, <2>4, <3>1
  <2>7. LastValue(long, "id") = IF line.field = "id" THEN line.value ELSE asm.id
    BY <1>2, <1>4, LastInOrder
  <2>8. next.asm.data = DataOf(more) /\ next.asm.event = LastValue(more, "event") /\ next.asm.id = LastValue(long, "id")
    BY <2>1, <2>5, <2>6, <2>7
  <2>9. ASSUME next.error = "event too large"
        PROVE  \E i, j \in 1..Len(long) : OfOneEvent(long, i, j) /\ Size(DataOf(SubSeq(long, i, j))) > MaxData
    <3>1. line.field = "data" /\ Size(Append(asm.data, line)) > MaxData
      BY <2>1, <2>9
    <3>2. Size(DataOf(more)) > MaxData
      BY <2>5, <3>1
    <3>3. PICK m \in 0..Len(s) : m = LastBlank(s)
      BY BlankInOrder
    <3>4. LastBlank(long) = m
      BY <1>2, <2>2, <3>3, BlankInOrder
    <3>5. more = SubSeq(long, m + 1, Len(long))
      BY <2>4, <3>4 DEF Since, LastBlank
    <3>6. Len(long) = Len(s) + 1 /\ Len(s) \in Nat
      BY <1>2
    <3>7. m + 1 \in 1..Len(long) /\ Len(long) \in 1..Len(long)
      BY <3>6
    <3>8. OfOneEvent(long, m + 1, Len(long))
      BY <1>2, <3>4, AfterLastBlank DEF OfOneEvent
    <3> QED
      BY <3>2, <3>5, <3>7, <3>8
  <2> QED
    BY <1>1, <1>2, <1>5, <2>1, <2>3, <2>4, <2>8, <2>9 DEF Agrees
<1> QED
  BY <1>6, <1>7

\* What is assembled of any lines agrees with what they mean.
LEMMA Agreement == \A s \in Seq(SentLine) : Agrees(TakenFrom(NoEvent, <<>>, s), s) /\ TakenFrom(NoEvent, <<>>, s) \in States
<1>1. PICK asm \in Events, none \in Seq(Events) : asm = NoEvent /\ none = <<>>
  <2>1. NoEvent.data = <<>> /\ NoEvent = [event |-> "", data |-> <<>>, id |-> ""]
    BY DEF NoEvent
  <2>2. "" \in Values /\ <<>> \in Seq(SentLine)
    BY DEF Values
  <2>3. NoEvent \in Events
    BY <2>1, <2>2 DEF Events
  <2>4. <<>> \in Seq(Events)
    OBVIOUS
  <2> QED
    BY <2>3, <2>4
<1>2. asm.event = "" /\ asm.data = <<>> /\ asm.id = ""
  BY <1>1 DEF NoEvent
<1> DEFINE S == {s \in Seq(SentLine) : Agrees(TakenFrom(asm, none, s), s)}
<1>3. <<>> \in S
  <2>1. TakenFrom(asm, none, <<>>) = [asm |-> asm, events |-> none, error |-> "none"]
    BY TakenInOrder
  <2>2. PICK state : state = TakenFrom(asm, none, <<>>) /\ state.asm = asm /\ state.events = <<>> /\ state.error = "none"
    BY <1>1, <2>1
  <2>3. /\ EventsOf(<<>>) = <<>> /\ Since(<<>>) = <<>> /\ DataOf(<<>>) = <<>>
        /\ LastValue(<<>>, "event") = "" /\ LastValue(<<>>, "id") = ""
    BY EventsInOrder, SinceInOrder, DataInOrder, LastInOrder
  <2>4. <<>> \o none = none /\ <<>> \in Seq(SentLine)
    BY <1>1
  <2> QED
    BY <1>1, <1>2, <2>2, <2>3, <2>4 DEF Agrees
<1>4. ASSUME NEW s \in Seq(SentLine), NEW line \in SentLine, s \in S PROVE Append(s, line) \in S
  <2>1. PICK long \in Seq(SentLine) : long = Append(s, line)
    <3>1. Append(s, line) \in Seq(SentLine)
      OBVIOUS
    <3> QED
      BY <3>1
  <2>2. PICK state \in States : state = TakenFrom(asm, none, s)
    BY TakenInOrder
  <2>3. TakenFrom(asm, none, long) = Taken(state, line)
    BY <2>1, <2>2, TakenInOrder
  <2>4. Agrees(state, s)
    BY <1>4, <2>2
  <2>5. CASE state.error = "none"
    <3>1. Agrees(Line(state, line), long)
      BY <2>1, <2>4, <2>5, LineAgrees
    <3> QED
      BY <2>1, <2>3, <2>5, <3>1 DEF Taken
  <2>6. CASE state.error # "none"
    <3>1. Taken(state, line) = state
      BY <2>6 DEF Taken
    <3>2. PICK events \in Seq(Events), more \in Seq(Events) : events = state.events /\ EventsOf(s) = events \o more
      BY <2>4 DEF Agrees, States
    <3>3. \E extra \in Seq(Events) : EventsOf(long) = events \o extra
      <4>1. PICK event \in Events : event = EventAfter(s)
        BY EventAfterIs
      <4>2. EventsOf(long) = Append(events \o more, event) \/ EventsOf(long) = events \o more
        BY <2>1, <3>2, <4>1, EventsInOrder
      <4>3. events \o Append(more, event) = Append(events \o more, event) /\ Append(more, event) \in Seq(Events)
        OBVIOUS
      <4> QED
        BY <4>2, <4>3
    <3>4. ASSUME NEW i \in 1..Len(s), NEW j \in 1..Len(s)
          PROVE  /\ SubSeq(long, i, j) = SubSeq(s, i, j) /\ i \in 1..Len(long) /\ j \in 1..Len(long)
                 /\ OfOneEvent(s, i, j) => OfOneEvent(long, i, j)
      BY <2>1 DEF OfOneEvent
    <3>5. state.error = "event too large" => \E i, j \in 1..Len(long) : OfOneEvent(long, i, j) /\ Size(DataOf(SubSeq(long, i, j))) > MaxData
      BY <2>4, <3>4 DEF Agrees
    <3> QED
      BY <2>1, <2>3, <2>6, <3>1, <3>2, <3>3, <3>5 DEF Agrees
  <2> QED
    BY <2>5, <2>6
<1> HIDE DEF S
<1>5. \A s \in Seq(SentLine) : s \in S
  BY <1>3, <1>4, Taking!SequencesInductive
<1>6. \A s \in Seq(SentLine) : Agrees(TakenFrom(asm, none, s), s)
  BY <1>5 DEF S
<1>7. \A s \in Seq(SentLine) : TakenFrom(asm, none, s) \in States
  BY TakenInOrder
<1> QED
  BY <1>1, <1>6, <1>7

-----------------------------------------------------------------------------
(* What was heard, wherever the chunks end *)

\* The lesser of two.
LEMMA MinOf ==
    ASSUME NEW a \in Nat, NEW b \in Nat
    PROVE  Min({a, b}) \in Nat /\ Min({a, b}) <= a /\ Min({a, b}) <= b
<1>1. \E x \in {a, b} : \A y \in {a, b} : x <= y
  <2>1. CASE a <= b
    BY <2>1
  <2>2. CASE ~(a <= b)
    BY <2>2
  <2> QED
    BY <2>1, <2>2
<1>2. Min({a, b}) = CHOOSE x \in {a, b} : \A y \in {a, b} : x <= y
  BY DEF Min
<1>3. PICK x \in {a, b} : x = Min({a, b}) /\ \A y \in {a, b} : x <= y
  BY <1>1, <1>2
<1> QED
  BY <1>3

\* The lines that end in the first `got` pieces of a text and what is left after them; a chunk after them,
\* and what is cut with it.
Whole(lines, got) == CutLines(SubSeq(Sent(lines), 1, got)).lines
Left(lines, got) == CutLines(SubSeq(Sent(lines), 1, got)).left
Chunk(lines, got, to) == SubSeq(Sent(lines), got + 1, to)
New(lines, got, to) == CutLines(Left(lines, got) \o Chunk(lines, got, to))

\* What a stream has after the first `got` pieces, in which j lines end.
Heard(lines, got, j, pending, asm) ==
    LET made == TakenFrom(NoEvent, <<>>, SubSeq(lines, 1, j)) IN
    /\ Whole(lines, got) = SubSeq(lines, 1, j) /\ Left(lines, got) = pending
    /\ made.error = "none" /\ made.asm = asm

\* What was cut before comes first.
LEMMA CutOfMore ==
    ASSUME NEW lines \in Seq(SentLine), NEW left \in Seq(Piece), NEW s \in Seq(Piece), NEW none, none = <<>>
    PROVE  /\ CutFrom(lines, left, s).lines = lines \o CutFrom(none, left, s).lines
           /\ CutFrom(lines, left, s).left = CutFrom(none, left, s).left
<1>2. CutFrom(lines, left, s).lines = lines \o CutFrom(<<>>, left, s).lines
  BY CutLater
<1>3. CutFrom(lines, left, s).left = CutFrom(<<>>, left, s).left
  BY CutLater
<1> QED
  BY <1>2, <1>3

\* Without a newline nothing is cut.
LEMMA CutNothing ==
    ASSUME NEW lines \in Seq(SentLine), NEW left \in Seq(Piece), NEW s \in Seq(Piece), Within(s)
    PROVE  CutFrom(lines, left, s).lines = lines /\ CutFrom(lines, left, s).left = left \o s
BY CutLater

\* A chunk is cut as if all of the text until its end had come at once.
LEMMA ChunkIsCut ==
    ASSUME NEW lines \in Seq(SentLine), NEW got \in Nat, NEW to \in Nat, got <= to, to <= Len(Sent(lines))
    PROVE  /\ Left(lines, got) \in Seq(Piece) /\ Whole(lines, got) \in Seq(SentLine)
           /\ Chunk(lines, got, to) \in Seq(Piece) /\ Len(Chunk(lines, got, to)) = to - got
           /\ New(lines, got, to) \in Cuts
           /\ Whole(lines, to) = Whole(lines, got) \o New(lines, got, to).lines
           /\ Left(lines, to) = New(lines, got, to).left
<1>c. \A pieces : CutLines(pieces) = CutFrom(<<>>, <<>>, pieces)
  BY DEF CutLines, CutFrom
<1>1. PICK none \in Seq(SentLine), empty \in Seq(Piece) : none = <<>> /\ empty = <<>>
  <2>1. <<>> \in Seq(SentLine) /\ <<>> \in Seq(Piece)
    OBVIOUS
  <2> QED
    BY <2>1
<1>2. PICK s \in Seq(Piece) : s = Sent(lines)
  BY SentOf
<1>3. got \in 0..Len(s) /\ to \in got..Len(s) /\ Len(s) \in Nat /\ to \in 0..Len(s)
  BY <1>2
<1>4. PICK first \in Seq(Piece), c \in Seq(Piece) :
         /\ first = SubSeq(s, 1, got) /\ c = Chunk(lines, got, to) /\ Len(c) = to - got
         /\ SubSeq(s, 1, to) = first \o c
  <2>1. SubSeq(s, 1, got) \in Seq(Piece) /\ Len(SubSeq(s, 1, got)) = got
    BY <1>3, FirstOf
  <2>2. SubSeq(s, got + 1, to) \in Seq(Piece) /\ Len(SubSeq(s, got + 1, to)) = to - got
    BY <1>3
  <2>3. SubSeq(s, 1, to) = SubSeq(s, 1, got) \o SubSeq(s, got + 1, to)
    BY <1>3
  <2>4. Chunk(lines, got, to) = SubSeq(s, got + 1, to)
    BY <1>2 DEF Chunk
  <2> QED
    BY <2>1, <2>2, <2>3, <2>4
<1>5. PICK cut \in Cuts : cut = CutLines(first) /\ Within(cut.left) /\ cut.lines = Whole(lines, got) /\ cut.left = Left(lines, got)
  BY <1>2, <1>3, <1>4, CutOfSent DEF Cuttable, Whole, Left
<1>6. PICK mine \in Seq(SentLine), left \in Seq(Piece) : mine = Whole(lines, got) /\ left = Left(lines, got) /\ Within(left)
  <2>1. cut.lines \in Seq(SentLine) /\ cut.left \in Seq(Piece)
    BY DEF Cuts
  <2> QED
    BY <1>5, <2>1
<1>8. CutLines(SubSeq(s, 1, to)) = CutFrom(mine, left, c)
  <2>1. CutFrom(none, empty, first \o c) = CutFrom(CutFrom(none, empty, first).lines, CutFrom(none, empty, first).left, c)
    BY CutConcat
  <2>2. CutFrom(none, empty, first).lines = mine /\ CutFrom(none, empty, first).left = left
    BY <1>c, <1>1, <1>5, <1>6
  <2>3. CutLines(SubSeq(s, 1, to)) = CutFrom(none, empty, first \o c)
    BY <1>c, <1>1, <1>4
  <2> QED
    BY <2>1, <2>2, <2>3
<1>9. New(lines, got, to) = CutFrom(none, left, c)
  <2>1. CutFrom(none, empty, left \o c) = CutFrom(CutFrom(none, empty, left).lines, CutFrom(none, empty, left).left, c)
    BY CutConcat
  <2>2. CutFrom(none, empty, left).lines = none /\ CutFrom(none, empty, left).left = empty \o left
    <3>1. Within(left)
      BY <1>6
    <3> QED
      BY <3>1, CutNothing, Zenon
  <2>3. empty \o left = left
    BY <1>1
  <2>4. New(lines, got, to) = CutFrom(none, empty, left \o c)
    BY <1>c, <1>1, <1>4, <1>6 DEF New
  <2> QED
    BY <2>1, <2>2, <2>3, <2>4
<1>10. PICK next \in Cuts : next = CutFrom(none, left, c)
  BY CutInOrder
<1>11. CutFrom(mine, left, c).lines = mine \o next.lines /\ CutFrom(mine, left, c).left = next.left
  <2>1. CutFrom(mine, left, c).lines = mine \o CutFrom(none, left, c).lines
    BY <1>1, CutOfMore
  <2>2. CutFrom(mine, left, c).left = CutFrom(none, left, c).left
    BY <1>1, CutOfMore
  <2> QED
    BY <1>10, <2>1, <2>2
<1>12. Whole(lines, to) = mine \o next.lines /\ Left(lines, to) = next.left
  BY <1>2, <1>8, <1>11 DEF Whole, Left
<1> QED
  BY <1>4, <1>6, <1>9, <1>10, <1>12

\* The lines that ended are the first ones, and what is left is a part of one.
LEMMA FirstAreWhole ==
    ASSUME NEW lines \in Seq(SentLine), NEW got \in Nat, got <= Len(Sent(lines))
    PROVE  /\ \E k \in 0..Len(lines) : Whole(lines, got) = SubSeq(lines, 1, k)
           /\ Left(lines, got) = <<>> \/ \E i \in DOMAIN lines : Len(Left(lines, got)) < Len(Pieces(lines[i]))
           /\ Whole(lines, Len(Sent(lines))) = lines
<1>1. PICK s \in Seq(Piece) : s = Sent(lines)
  BY SentOf
<1>2. got \in 0..Len(s) /\ SubSeq(s, 1, Len(s)) = s
  BY <1>1
<1> QED
  BY <1>1, <1>2, CutOfSent DEF Cuttable, Whole, Left

\* A line is too large, or the chunk up to `to` makes the events of the lines that end in it.
HeardNext(lines, got, to, j, next) ==
    LET before == TakenFrom(NoEvent, <<>>, SubSeq(lines, 1, j)) IN
    \/ /\ next.error = "line too large" /\ next.events = <<>>
       /\ \E i \in DOMAIN lines : Len(Pieces(lines[i])) - 1 + MaxChunk > MaxPieces
    \/ /\ next.error \in Stops /\ next.events \in Seq(Events)
       /\ \E k \in 0..Len(lines) :
             LET made == TakenFrom(NoEvent, <<>>, SubSeq(lines, 1, k)) IN
             /\ made.events = before.events \o next.events /\ made.error = next.error
             /\ next.error = "none" => Heard(lines, to, k, next.pending, next.asm)

\* If what is left and a chunk are too large, so is a line with any chunk.
LEMMA LineIsLarge ==
    ASSUME NEW lines \in Seq(SentLine), NEW left \in Seq(Piece), NEW d \in Nat, d <= MaxChunk,
           Len(left) + d > MaxPieces, DOMAIN lines # {},
           left = <<>> \/ \E i \in DOMAIN lines : Len(left) < Len(Pieces(lines[i]))
    PROVE  \E i \in DOMAIN lines : Len(Pieces(lines[i])) - 1 + MaxChunk > MaxPieces
<1>1. \A i \in DOMAIN lines : Len(Pieces(lines[i])) \in Nat \ {0}
  BY PiecesOf
<1>2. PICK l \in Nat : l = Len(left) /\ (left = <<>> => l = 0)
  OBVIOUS
<1>3. PICK i \in DOMAIN lines : l < Len(Pieces(lines[i]))
  <2>1. CASE left = <<>>
    BY <1>1, <1>2, <2>1
  <2>2. CASE left # <<>>
    BY <1>2, <2>2
  <2> QED
    BY <2>1, <2>2
<1>4. PICK p \in Nat : p = Len(Pieces(lines[i])) /\ l < p
  BY <1>1, <1>3
<1>5. MaxChunk \in Nat /\ MaxPieces \in Nat /\ l + d > MaxPieces
  BY <1>2, ChunksAreBounded, BoundsAreNatural
<1>6. p - 1 + MaxChunk > MaxPieces
  BY <1>4, <1>5
<1> QED
  BY <1>4, <1>6

\* What a chunk makes of a stream: an error for a line that is too large, or the events of the lines that
\* end in it.
LEMMA ChunkIsHeard ==
    ASSUME NEW lines \in Seq(SentLine), NEW got \in Nat, NEW to \in Nat, got < to, to <= Len(Sent(lines)),
           to - got <= MaxChunk, NEW j \in 0..Len(lines),
           NEW s, DOMAIN s = {"open", "pending", "asm", "events", "error"}, s = [field \in DOMAIN s |-> s[field]],
           Heard(lines, got, j, s.pending, s.asm)
    PROVE  HeardNext(lines, got, to, j, Received(s, Chunk(lines, got, to)))
<1>0. got <= to /\ Len(Sent(lines)) \in Nat /\ to - got \in Nat
  <2>1. Len(Sent(lines)) \in Nat
    BY SentOf
  <2> QED
    BY <2>1
<1>1. PICK left \in Seq(Piece), chunk \in Seq(Piece), cut \in Cuts :
         /\ left = Left(lines, got) /\ chunk = Chunk(lines, got, to) /\ Len(chunk) = to - got
         /\ cut = New(lines, got, to)
         /\ Whole(lines, to) = Whole(lines, got) \o cut.lines /\ Left(lines, to) = cut.left
  <2>1. Left(lines, got) \in Seq(Piece)
    BY <1>0, ChunkIsCut
  <2>2. Chunk(lines, got, to) \in Seq(Piece) /\ Len(Chunk(lines, got, to)) = to - got
    BY <1>0, ChunkIsCut
  <2>3. New(lines, got, to) \in Cuts
    BY <1>0, ChunkIsCut
  <2>4. Whole(lines, to) = Whole(lines, got) \o New(lines, got, to).lines
    BY <1>0, ChunkIsCut
  <2>5. Left(lines, to) = New(lines, got, to).left
    BY <1>0, ChunkIsCut
  <2> QED
    BY <2>1, <2>2, <2>3, <2>4, <2>5
<1>2. s.pending = left /\ Whole(lines, got) = SubSeq(lines, 1, j)
  BY <1>1 DEF Heard
<1>3. cut = CutLines(left \o chunk)
  BY <1>1 DEF New
<1>5. cut.lines \in Seq(SentLine)
  BY DEF Cuts
<1>6. Len(left \o chunk) = Len(left) + (to - got) /\ Len(left) \in Nat
  BY <1>1, ConcatProperties
<1>7. PICK next : next = Received(s, chunk)
  OBVIOUS
<1>8. CASE Len(left \o chunk) > MaxPieces
  <2>1. next = [s EXCEPT !.error = "line too large", !.events = <<>>]
    BY <1>2, <1>7, <1>8 DEF Received
  <2>2. next.error = "line too large" /\ next.events = <<>>
    BY <2>1
  <2>3. left = <<>> \/ \E i \in DOMAIN lines : Len(left) < Len(Pieces(lines[i]))
    BY <1>0, <1>1, FirstAreWhole
  <2>4. DOMAIN lines # {}
    <3>1. SUFFICES ASSUME DOMAIN lines = {} PROVE FALSE
      OBVIOUS
    <3>2. lines = <<>>
      BY <3>1
    <3>3. Sent(<<>>) = <<>> /\ Len(<<>>) = 0
      BY SentOf
    <3>4. Len(Sent(lines)) = 0
      BY <3>2, <3>3
    <3> QED
      BY <1>0, <3>4
  <2>5. PICK d \in Nat : d = to - got /\ d <= MaxChunk
    BY <1>0
  <2>6. Len(left) + d > MaxPieces
    BY <1>6, <1>8, <2>5
  <2>7. \E i \in DOMAIN lines : Len(Pieces(lines[i])) - 1 + MaxChunk > MaxPieces
    BY <2>3, <2>4, <2>5, <2>6, LineIsLarge
  <2> QED
    BY <1>1, <1>7, <2>2, <2>7 DEF HeardNext
<1>9. CASE ~(Len(left \o chunk) > MaxPieces)
  <2>1. PICK asm \in Events, none \in Seq(Events) : asm = NoEvent /\ none = <<>>
    <3>1. NoEvent \in Events
      <4>1. "" \in Values /\ <<>> \in Seq(SentLine)
        BY DEF Values
      <4> QED
        BY <4>1 DEF NoEvent, Events
    <3>2. <<>> \in Seq(Events)
      OBVIOUS
    <3> QED
      BY <3>1, <3>2
  <2>2. PICK k \in 0..Len(lines) : Whole(lines, to) = SubSeq(lines, 1, k) /\ SubSeq(lines, 1, k) = SubSeq(lines, 1, j) \o cut.lines
    <3>1. \E k \in 0..Len(lines) : Whole(lines, to) = SubSeq(lines, 1, k)
      BY FirstAreWhole
    <3> QED
      BY <1>1, <1>2, <3>1
  <2>3. PICK mine \in Seq(SentLine), new \in Seq(SentLine) : mine = SubSeq(lines, 1, j) /\ new = cut.lines
    BY <1>5, FirstOf
  <2>4. PICK before \in States : before = TakenFrom(asm, none, mine) /\ before.error = "none" /\ before.asm = s.asm
    BY <2>1, <2>3, TakenInOrder DEF Heard
  <2>5. before.asm \in Events /\ before.events \in Seq(Events)
    BY DEF States
  <2>6. PICK read \in States : read = TakenFrom(before.asm, none, new)
    BY <2>5, TakenInOrder
  <2>7. PICK made : made = TakenFrom(asm, none, mine \o new)
    OBVIOUS
  <2>8. made = TakenFrom(before.asm, before.events, new)
    BY <2>4, <2>7, TakenInOrder
  <2>9. made.asm = read.asm /\ made.error = read.error /\ made.events = before.events \o read.events
    BY <2>1, <2>5, <2>6, <2>8, TakenLater
  <2>10. next = [s EXCEPT !.pending = cut.left, !.asm = read.asm, !.events = read.events, !.error = read.error]
    <3>1. Assembled(s.asm, new) = read
      <4>1. [Start EXCEPT !.asm = s.asm] = [asm |-> s.asm, events |-> <<>>, error |-> "none"]
        <5>1. PICK n \in Events, e \in Seq(Events), a \in Events : n = NoEvent /\ e = <<>> /\ a = s.asm
          BY <2>1, <2>4, <2>5
        <5>2. Start = [asm |-> n, events |-> e, error |-> "none"]
          BY <5>1 DEF Start
        <5>3. [Start EXCEPT !.asm = a] = [asm |-> a, events |-> e, error |-> "none"]
          BY <5>2
        <5> QED
          BY <5>1, <5>3
      <4> QED
        BY <2>1, <2>4, <2>6, <4>1 DEF Assembled, TakenFrom
    <3> QED
      BY <1>2, <1>3, <1>7, <1>9, <2>3, <3>1, Zenon DEF Received
  <2>11. next.pending = cut.left /\ next.asm = read.asm /\ next.events = read.events /\ next.error = read.error
    BY <2>10
  <2>12. read.error \in Stops /\ read.events \in Seq(Events)
    BY DEF States
  <2>13. SubSeq(lines, 1, k) = mine \o new
    BY <2>2, <2>3
  <2>14. next.error = "none" => Heard(lines, to, k, next.pending, next.asm)
    BY <1>1, <2>1, <2>2, <2>7, <2>9, <2>11, <2>13 DEF Heard
  <2>15. made = TakenFrom(NoEvent, <<>>, SubSeq(lines, 1, k)) /\ before = TakenFrom(NoEvent, <<>>, SubSeq(lines, 1, j))
    BY <2>1, <2>3, <2>4, <2>7, <2>13
  <2> QED
    BY <1>1, <1>7, <2>9, <2>11, <2>12, <2>14, <2>15 DEF HeardNext
<1> QED
  BY <1>8, <1>9

-----------------------------------------------------------------------------
(* The inductive invariant of a stream that is received *)

\* The command receives a stream.
Sending == task.kind = "stream"

\* Events as they are written.
Shows(told) == [i \in DOMAIN told |-> IF task.to.file THEN told[i] ELSE ToStdout(told[i])]

\* What was written and what is due are the events of the lines that ended in the first `got` pieces.
Heeded ==
    \E got \in Nat, j \in 0..Len(task.lines), told \in Seq(Events) :
        /\ got <= Len(Sent(task.lines)) /\ rest = SubSeq(Sent(task.lines), got + 1, Len(Sent(task.lines)))
        /\ TakenFrom(NoEvent, <<>>, SubSeq(task.lines, 1, j)).events = told \o due /\ Delivered = Shows(told)
        /\ stream.error = "none" => Heard(task.lines, got, j, stream.pending, stream.asm)

\* Between two chunks nothing is due; a closed stream, and one that succeeded, was received and written.
Settled ==
    /\ pc \in {"start", "waiting"} => due = <<>> /\ stream.error = "none"
    /\ stream.open = "closed" => rest = <<>> /\ stream.error = "none"
    /\ pc = "ended" /\ outcome = Done => rest = <<>> /\ due = <<>> /\ stream.error = "none"

\* What is received is told in order, wherever its chunks end.
Streamed ==
    /\ RefusedIsLarge /\ stream.error \in Stops \cup {"line too large"}
    /\ ~Sending => stream.error = "none"
    /\ Sending => due \in Seq(Events) /\ Settled /\ Heeded

\* The lines of a stream are lines that a service may send.
LEMMA LinesAre == task \in Tasks /\ Sending => task.lines \in Seq(SentLine)
BY AnswersAreText DEF Sending

\* Nothing of a stream changes but where the command is.
LEMMA SameStream ==
    ASSUME Streamed, UNCHANGED <<task, stream, rest, due, stdout, file>>,
           Sending /\ pc' \in {"start", "waiting"} =>
               pc \in {"start", "waiting"} \/ (due = <<>> /\ stream.error = "none"),
           Sending /\ pc' = "ended" /\ outcome' = Done => (pc = "ended" /\ outcome = Done) \/ (due = <<>> /\ stream.open = "closed")
    PROVE  Streamed'
<1>1. RefusedIsLarge' /\ (Sending <=> Sending')
  BY DEF Streamed, RefusedIsLarge, Sending
<1>2. Sending => Settled'
  BY DEF Streamed, Settled
<1>3. Sending => Heeded'
  <2>1. SUFFICES ASSUME Sending PROVE Heeded'
    OBVIOUS
  <2>2. Heeded
    BY <2>1 DEF Streamed
  <2>3. Delivered' = Delivered /\ \A told : Shows(told)' = Shows(told)
    BY DEF Delivered, Shows, ToStdout, RedactedEvent
  <2> QED
    BY <2>2, <2>3 DEF Heeded
<1> QED
  BY <1>1, <1>2, <1>3 DEF Streamed

\* At first nothing was received.
LEMMA StreamedInit == Init => Streamed
<1>1. SUFFICES ASSUME Init PROVE Streamed
  OBVIOUS
<1>2. stream.error = "none" /\ stream.open = "no" /\ stream.pending = <<>> /\ stream.asm = NoEvent
  BY <1>1 DEF Init, NoStream
<1>3. RefusedIsLarge /\ stream.error \in Stops
  BY <1>2 DEF RefusedIsLarge, Stops
<1>4. ASSUME Sending PROVE Heeded
  <2>1. task.lines \in Seq(SentLine) /\ rest = Sent(task.lines) /\ due = <<>> /\ stdout = <<>> /\ file = <<>>
    BY <1>1, <1>4, LinesAre DEF Init, Sending
  <2>2. PICK lines \in Seq(SentLine), s \in Seq(Piece) : lines = task.lines /\ s = Sent(lines)
    BY <2>1, SentOf
  <2>3. PICK told \in Seq(Events), asm \in Events : told = <<>> /\ asm = NoEvent
    <3>1. NoEvent \in Events
      <4>1. "" \in Values /\ <<>> \in Seq(SentLine)
        BY DEF Values
      <4> QED
        BY <4>1 DEF NoEvent, Events
    <3>2. <<>> \in Seq(Events)
      OBVIOUS
    <3> QED
      BY <3>1, <3>2
  <2>4. SubSeq(lines, 1, 0) = <<>> /\ SubSeq(s, 1, 0) = <<>>
    BY SubSeqEmpty
  <2>5. SubSeq(s, 0 + 1, Len(s)) = s /\ Len(s) \in Nat /\ 0 \in 0..Len(lines)
    BY SubSeqFull
  <2>6. TakenFrom(asm, told, <<>>) = [asm |-> asm, events |-> told, error |-> "none"]
    BY TakenInOrder
  <2>11. PICK made : made.asm = asm /\ made.events = told /\ made.error = "none" /\ made = TakenFrom(NoEvent, <<>>, SubSeq(lines, 1, 0))
    <3>1. TakenFrom(asm, told, <<>>) = TakenFrom(NoEvent, <<>>, SubSeq(lines, 1, 0))
      BY <2>3, <2>4
    <3> QED
      BY <2>6, <3>1
  <2>7. told \o due = told /\ Delivered = Shows(told)
    BY <2>1, <2>3 DEF Delivered, Shows
  <2>8. CutLines(<<>>).lines = <<>> /\ CutLines(<<>>).left = <<>>
    <3>1. CutLines(<<>>) = CutFrom(<<>>, <<>>, <<>>)
      BY DEF CutLines, CutFrom
    <3>2. PICK none \in Seq(SentLine), empty \in Seq(Piece) : none = <<>> /\ empty = <<>>
      <4>1. <<>> \in Seq(SentLine) /\ <<>> \in Seq(Piece)
        OBVIOUS
      <4> QED
        BY <4>1
    <3>3. CutFrom(none, empty, <<>>).lines = none /\ CutFrom(none, empty, <<>>).left = empty
      BY CutInOrder
    <3> QED
      BY <3>1, <3>2, <3>3
  <2>9. Heard(lines, 0, 0, <<>>, asm)
    BY <2>2, <2>4, <2>8, <2>11 DEF Heard, Whole, Left
  <2>10. TakenFrom(NoEvent, <<>>, SubSeq(lines, 1, 0)).events = told
    BY <2>11
  <2>12. rest = SubSeq(Sent(task.lines), 0 + 1, Len(Sent(task.lines))) /\ 0 <= Len(Sent(task.lines)) /\ 0 \in 0..Len(task.lines)
    BY <2>1, <2>2, <2>5
  <2>13. Heard(task.lines, 0, 0, stream.pending, stream.asm)
    BY <1>2, <2>2, <2>3, <2>9
  <2>14. TakenFrom(NoEvent, <<>>, SubSeq(task.lines, 1, 0)).events = told \o due
    BY <2>2, <2>7, <2>10
  <2>15. Delivered = Shows(told)
    BY <2>7
  <2> QED
    BY <2>12, <2>13, <2>14, <2>15 DEF Heeded
<1>5. due = <<>> /\ <<>> \in Seq(Events) /\ Settled
  BY <1>1, <1>2 DEF Init, Settled
<1> QED
  BY <1>2, <1>3, <1>4, <1>5 DEF Streamed

\* What is to come of a text, cut in two.
LEMMA RestOf ==
    ASSUME NEW D, NEW s \in Seq(D), NEW got \in Nat, NEW n \in Nat, got + n <= Len(s)
    PROVE  LET rests == SubSeq(s, got + 1, Len(s)) IN
           /\ rests \in Seq(D) /\ Len(rests) = Len(s) - got
           /\ SubSeq(rests, 1, n) = SubSeq(s, got + 1, got + n)
           /\ SubSeq(rests, n + 1, Len(rests)) = SubSeq(s, (got + n) + 1, Len(s))
<1>1. PICK m \in Nat : m = Len(s)
  OBVIOUS
<1>2. PICK rests \in Seq(D) : rests = SubSeq(s, got + 1, m) /\ Len(rests) = m - got /\ \A i \in 1..(m - got) : rests[i] = s[got + i]
  <2>1. SubSeq(s, got + 1, m) \in Seq(D) /\ Len(SubSeq(s, got + 1, m)) = m - got
    BY <1>1
  <2>2. \A i \in 1..(m - got) : SubSeq(s, got + 1, m)[i] = s[got + i]
    BY <1>1
  <2> QED
    BY <2>1, <2>2
<1>3. SubSeq(rests, 1, n) = SubSeq(s, got + 1, got + n)
  BY <1>1, <1>2
<1>4. SubSeq(rests, n + 1, m - got) = SubSeq(s, (got + n) + 1, m)
  BY <1>1, <1>2
<1> QED
  BY <1>1, <1>2, <1>3, <1>4

\* Sequences that agree on the first n have the same first n.
LEMMA SameFirst ==
    ASSUME NEW V, NEW a \in Seq(V), NEW b \in Seq(V), NEW n \in Nat, n <= Len(a), n <= Len(b),
           \A i \in 1..n : a[i] = b[i]
    PROVE  SubSeq(a, 1, n) = SubSeq(b, 1, n)
<1>1. (\A i \in 1..n : a[i] \in V) /\ (\A i \in 1..n : b[i] \in V) /\ 1 \in Int /\ n \in Int
  OBVIOUS
<1>2. /\ SubSeq(a, 1, n) \in Seq(V) /\ Len(SubSeq(a, 1, n)) = IF 1 <= n THEN n - 1 + 1 ELSE 0
      /\ \A i \in 1..n - 1 + 1 : SubSeq(a, 1, n)[i] = a[1 + i - 1]
  BY <1>1, SubSeqProperties
<1>3. /\ SubSeq(b, 1, n) \in Seq(V) /\ Len(SubSeq(b, 1, n)) = IF 1 <= n THEN n - 1 + 1 ELSE 0
      /\ \A i \in 1..n - 1 + 1 : SubSeq(b, 1, n)[i] = b[1 + i - 1]
  BY <1>1, SubSeqProperties
<1>4. PICK c \in Seq(V), d \in Seq(V) : c = SubSeq(a, 1, n) /\ d = SubSeq(b, 1, n)
  BY <1>2, <1>3
<1>5. Len(c) = n /\ Len(d) = n /\ (\A i \in 1..n : c[i] = a[i]) /\ (\A i \in 1..n : d[i] = b[i])
  BY <1>2, <1>3, <1>4
<1>6. c = d
  BY <1>5, SeqEqual
<1> QED
  BY <1>4, <1>6

\* A part of the first k is that part of the whole.
LEMMA SubSeqAgrees ==
    ASSUME NEW D, NEW s \in Seq(D), NEW k \in Nat, k <= Len(s), NEW i \in 1..k, NEW j \in 1..k
    PROVE  SubSeq(SubSeq(s, 1, k), i, j) = SubSeq(s, i, j)
OBVIOUS

\* An event that is too large is so among the lines that were sent.
LEMMA LargeIsSent ==
    ASSUME NEW lines \in Seq(SentLine), NEW k \in 0..Len(lines)
    PROVE  TakenFrom(NoEvent, <<>>, SubSeq(lines, 1, k)).error = "event too large" =>
               \E i, j \in DOMAIN lines : OfOneEvent(lines, i, j) /\ Size(DataOf(SubSeq(lines, i, j))) > MaxData
<1>1. k \in Nat /\ k <= Len(lines) /\ Len(lines) \in Nat /\ DOMAIN lines = 1..Len(lines)
  OBVIOUS
<1>2. PICK first \in Seq(SentLine) : first = SubSeq(lines, 1, k) /\ Len(first) = k
  <2>1. SubSeq(lines, 1, k) \in Seq(SentLine)
    BY FirstOf
  <2>2. Len(SubSeq(lines, 1, k)) = k
    BY FirstOf
  <2> QED
    BY <2>1, <2>2
<1>3. \A i, j \in 1..k : SubSeq(first, i, j) = SubSeq(lines, i, j) /\ i \in DOMAIN lines /\ j \in DOMAIN lines
  <2>1. ASSUME NEW i \in 1..k, NEW j \in 1..k PROVE SubSeq(SubSeq(lines, 1, k), i, j) = SubSeq(lines, i, j)
    BY <1>1, SubSeqAgrees
  <2> QED
    BY <1>1, <1>2, <2>1
<1>4. Agrees(TakenFrom(NoEvent, <<>>, first), first)
  BY Agreement
<1>5. TakenFrom(NoEvent, <<>>, first).error = "event too large" =>
          \E i, j \in 1..k : OfOneEvent(first, i, j) /\ Size(DataOf(SubSeq(first, i, j))) > MaxData
  BY <1>2, <1>4 DEF Agrees
<1>6. \A i, j \in 1..k : OfOneEvent(first, i, j) => OfOneEvent(lines, i, j)
  BY <1>1, <1>2 DEF OfOneEvent
<1> QED
  BY <1>2, <1>3, <1>5, <1>6

\* A chunk keeps what was heard.
LEMMA ReceiveKept ==
    ASSUME Streamed, task \in Tasks, Sending, IsStream(stream), Receive
    PROVE  Streamed'
<1>1. /\ pc = "waiting" /\ stream.open = "open" /\ pc' = "drop" /\ due' = stream'.events
      /\ UNCHANGED <<task, stdout, file>>
  BY DEF Receive, WaitEnds, wait
<1>2. due = <<>> /\ stream.error = "none"
  BY <1>1 DEF Streamed, Settled
<1>3. PICK lines \in Seq(SentLine), s \in Seq(Piece) : lines = task.lines /\ s = Sent(lines) /\ Len(s) \in Nat
  <2>1. task.lines \in Seq(SentLine)
    BY LinesAre
  <2>2. Sent(task.lines) \in Seq(Piece)
    BY <2>1, SentOf
  <2> QED
    BY <2>1, <2>2
<1>4. PICK got \in Nat, j \in 0..Len(lines), told \in Seq(Events) :
        /\ got <= Len(s) /\ rest = SubSeq(s, got + 1, Len(s))
        /\ TakenFrom(NoEvent, <<>>, SubSeq(lines, 1, j)).events = told \o due /\ Delivered = Shows(told)
        /\ Heard(lines, got, j, stream.pending, stream.asm)
  BY <1>2, <1>3 DEF Streamed, Heeded
<1>5. PICK n \in Nat : /\ n \in 1..Min({MaxChunk, Len(rest)})
                      /\ rest' = SubSeq(rest, n + 1, Len(rest)) /\ stream' = Received(stream, SubSeq(rest, 1, n))
  BY DEF Receive
<1>6. Len(rest) = Len(s) - got /\ Len(rest) \in Nat
  <2>1. got + 0 <= Len(s)
    BY <1>4
  <2>2. PICK zero \in Nat : zero = 0
    OBVIOUS
  <2>3. got + zero <= Len(s)
    BY <2>1, <2>2
  <2>4. Len(SubSeq(s, got + 1, Len(s))) = Len(s) - got
    BY <2>3, RestOf
  <2> QED
    BY <1>3, <1>4, <2>4
<1>7. n >= 1 /\ n <= MaxChunk /\ got + n <= Len(s)
  <2>1. MaxChunk \in Nat
    BY ChunksAreBounded
  <2>2. PICK least \in Nat : least = Min({MaxChunk, Len(rest)}) /\ least <= MaxChunk /\ least <= Len(rest)
    BY <1>6, <2>1, MinOf
  <2>3. n \in 1..least
    BY <1>5, <2>2
  <2> QED
    BY <1>3, <1>6, <2>1, <2>2, <2>3
<1>8. PICK to \in Nat : to = got + n /\ got < to /\ to <= Len(s) /\ to - got <= MaxChunk
  <2>1. MaxChunk \in Nat
    BY ChunksAreBounded
  <2>2. got + n \in Nat /\ got < got + n /\ (got + n) - got <= MaxChunk
    BY <1>7, <2>1
  <2> QED
    BY <1>7, <2>2
<1>9. SubSeq(rest, 1, n) = Chunk(lines, got, to) /\ rest' = SubSeq(s, to + 1, Len(s))
  <2>1. SubSeq(SubSeq(s, got + 1, Len(s)), 1, n) = SubSeq(s, got + 1, got + n)
    BY <1>7, RestOf
  <2>2. SubSeq(SubSeq(s, got + 1, Len(s)), n + 1, Len(SubSeq(s, got + 1, Len(s)))) = SubSeq(s, (got + n) + 1, Len(s))
    BY <1>7, RestOf
  <2> QED
    BY <1>3, <1>4, <1>5, <1>8, <2>1, <2>2 DEF Chunk
<1>10. PICK next, before :
          /\ next = stream' /\ next = Received(stream, Chunk(lines, got, to))
          /\ before = TakenFrom(NoEvent, <<>>, SubSeq(lines, 1, j)) /\ before.events = told
  <2>1. told \o due = told
    BY <1>2
  <2> QED
    BY <1>4, <1>5, <1>9, <2>1
<1>11. \/ /\ next.error = "line too large" /\ next.events = <<>>
          /\ \E i \in DOMAIN lines : Len(Pieces(lines[i])) - 1 + MaxChunk > MaxPieces
       \/ /\ next.error \in Stops /\ next.events \in Seq(Events)
          /\ \E k \in 0..Len(lines) :
                LET made == TakenFrom(NoEvent, <<>>, SubSeq(lines, 1, k)) IN
                /\ made.events = told \o next.events /\ made.error = next.error
                /\ next.error = "none" => Heard(lines, to, k, next.pending, next.asm)
  <2>1. to <= Len(Sent(lines))
    BY <1>3, <1>8
  <2>2. PICK old : old = stream /\ DOMAIN old = {"open", "pending", "asm", "events", "error"} /\ old = [field \in DOMAIN old |-> old[field]]
    BY DEF IsStream
  <2>3. Heard(lines, got, j, old.pending, old.asm) /\ next = Received(old, Chunk(lines, got, to))
    BY <1>4, <1>10, <2>2
  <2>4. HeardNext(lines, got, to, j, Received(old, Chunk(lines, got, to)))
    BY <1>8, <2>1, <2>2, <2>3, ChunkIsHeard
  <2> QED
    BY <1>10, <2>3, <2>4 DEF HeardNext
<1>12. Sending' /\ Delivered' = Delivered /\ \A t : Shows(t)' = Shows(t)
  BY <1>1 DEF Sending, Delivered, Shows, ToStdout, RedactedEvent
<1>13. next.open = "open"
  BY <1>1, <1>10, StreamsAre
<1>14. ASSUME next.error \in Stops \cup {"line too large"} PROVE (Sending => Settled)'
  BY <1>1, <1>10, <1>13 DEF Settled
<1>15. CASE /\ next.error = "line too large" /\ next.events = <<>>
            /\ \E i \in DOMAIN lines : Len(Pieces(lines[i])) - 1 + MaxChunk > MaxPieces
  <2>1. RefusedIsLarge'
    BY <1>1, <1>3, <1>10, <1>15 DEF RefusedIsLarge
  <2>2. due' = <<>> /\ told \o due' = told /\ due' \in Seq(Events)
    <3>1. due' = <<>>
      BY <1>1, <1>10, <1>15
    <3>2. told \o <<>> = told /\ <<>> \in Seq(Events)
      OBVIOUS
    <3> QED
      BY <3>1, <3>2
  <2>3. TakenFrom(NoEvent, <<>>, SubSeq(lines, 1, j)).events = told \o due'
    BY <1>10, <2>2
  <2>4. Heeded'
    BY <1>1, <1>3, <1>4, <1>8, <1>9, <1>10, <1>12, <1>15, <2>3 DEF Heeded
  <2> QED
    BY <1>10, <1>12, <1>14, <1>15, <2>1, <2>2, <2>4 DEF Streamed
<1>16. CASE /\ next.error \in Stops /\ next.events \in Seq(Events)
            /\ \E k \in 0..Len(lines) :
                  LET made == TakenFrom(NoEvent, <<>>, SubSeq(lines, 1, k)) IN
                  /\ made.events = told \o next.events /\ made.error = next.error
                  /\ next.error = "none" => Heard(lines, to, k, next.pending, next.asm)
  <2>1. PICK k \in 0..Len(lines) :
           /\ TakenFrom(NoEvent, <<>>, SubSeq(lines, 1, k)).events = told \o next.events
           /\ TakenFrom(NoEvent, <<>>, SubSeq(lines, 1, k)).error = next.error
           /\ next.error = "none" => Heard(lines, to, k, next.pending, next.asm)
    BY <1>16
  <2>2. next.error = "event too large" => \E h, i \in DOMAIN lines : OfOneEvent(lines, h, i) /\ Size(DataOf(SubSeq(lines, h, i))) > MaxData
    BY <2>1, LargeIsSent
  <2>3. RefusedIsLarge'
    BY <1>1, <1>3, <1>10, <1>16, <2>2 DEF RefusedIsLarge, Stops
  <2>4. Heeded'
    BY <1>1, <1>3, <1>4, <1>8, <1>9, <1>10, <1>12, <2>1 DEF Heeded
  <2> QED
    BY <1>1, <1>10, <1>12, <1>14, <1>16, <2>3, <2>4 DEF Streamed
<1> QED
  BY <1>11, <1>15, <1>16

-----------------------------------------------------------------------------
(* What is received goes on being told *)

\* Opening, or the end of the stream, keeps what was heard.
LEMMA OpenedKept ==
    ASSUME Streamed, Sending, IsStream(stream), Open \/ Close
    PROVE  Streamed'
<1>1. /\ pc = "waiting" /\ pc' = "drop" /\ UNCHANGED <<task, rest, due, stdout, file>>
  BY DEF Open, Close, WaitEnds, wait, output
<1>2. /\ stream' = [stream EXCEPT !.open = "open"] \/ (rest = <<>> /\ stream' = [stream EXCEPT !.open = "closed"]) \/ stream' = stream
  BY DEF Open, Close
<1>3. /\ stream'.error = stream.error /\ stream'.pending = stream.pending /\ stream'.asm = stream.asm
      /\ stream'.open = "closed" => rest = <<>> \/ stream.open = "closed"
  BY <1>2 DEF IsStream
<1>4. stream.error = "none" /\ due = <<>>
  BY <1>1 DEF Streamed, Settled
<1>5. Sending' /\ Delivered' = Delivered /\ \A told : Shows(told)' = Shows(told)
  BY <1>1 DEF Sending, Delivered, Shows, ToStdout, RedactedEvent
<1>6. Heeded'
  BY <1>1, <1>3, <1>5 DEF Streamed, Heeded
<1>7. Settled'
  BY <1>1, <1>3, <1>4 DEF Streamed, Settled
<1>8. RefusedIsLarge'
  BY <1>1, <1>3 DEF Streamed, RefusedIsLarge
<1> QED
  BY <1>1, <1>3, <1>5, <1>6, <1>7, <1>8 DEF Streamed

\* What a write does to what was written and what is due.
LEMMA WritingIs ==
    WriteFile \/ WriteStdout =>
        /\ pc = "write" /\ due # <<>> /\ UNCHANGED <<task, stream, rest, pipe, end>>
        /\ task.to.file => UNCHANGED stdout
        /\ \/ /\ UNCHANGED <<due, stdout, file>> /\ pc' = "drop"
              /\ \/ outcome' = Error("transport", {"write"})
                 \/ pipe # "open" /\ outcome' = [Error("transport", {"write"}) EXCEPT !.closed = (pipe = "closed")]
           \/ /\ due' = Tail(due) /\ pc' = pc /\ outcome' = outcome
              /\ Delivered' = Append(Delivered, IF task.to.file THEN Head(due) ELSE ToStdout(Head(due)))
              /\ ~task.to.file => stdout' = Append(stdout, ToStdout(Head(due)))
<1>1. CASE WriteFile
  <2>1. CASE file' = Append(file, Head(due)) /\ due' = Tail(due) /\ UNCHANGED <<pc, outcome>>
    BY <1>1, <2>1, Zenon DEF WriteFile, Delivered, wait
  <2>2. CASE WaitEnds(Error("transport", {"write"})) /\ UNCHANGED <<file, due>>
    BY <1>1, <2>2, Zenon DEF WriteFile, WaitEnds, wait
  <2> QED
    BY <1>1, <2>1, <2>2, Zenon DEF WriteFile
<1>2. CASE WriteStdout
  <2>1. CASE /\ pipe = "open" /\ stdout' = Append(stdout, ToStdout(Head(due))) /\ due' = Tail(due)
             /\ UNCHANGED <<pc, outcome>>
    BY <1>2, <2>1, Zenon DEF WriteStdout, Delivered, wait
  <2>2. CASE /\ pipe # "open" /\ WaitEnds([Error("transport", {"write"}) EXCEPT !.closed = (pipe = "closed")])
             /\ UNCHANGED <<stdout, due>>
    BY <1>2, <2>2, Zenon DEF WriteStdout, WaitEnds, wait
  <2> QED
    BY <1>2, <2>1, <2>2, Zenon DEF WriteStdout
<1> QED
  BY <1>1, <1>2

\* An event that is written is the next of them.
LEMMA WrittenKept ==
    ASSUME Streamed, Sending, WriteFile \/ WriteStdout
    PROVE  Streamed'
<1>1. pc = "write" /\ due # <<>> /\ UNCHANGED <<task, stream, rest>> /\ pc' \in {"write", "drop"}
  BY WritingIs
<1>2. Sending' /\ (\A told : Shows(told)' = Shows(told)) /\ (\A event : ToStdout(event)' = ToStdout(event))
  BY <1>1 DEF Sending, Shows, ToStdout, RedactedEvent
<1>3. RefusedIsLarge'
  BY <1>1 DEF Streamed, RefusedIsLarge
<1>4. CASE UNCHANGED <<due, stdout, file>>
  BY <1>1, <1>4, SameStream
<1>5. CASE /\ due' = Tail(due)
           /\ Delivered' = Append(Delivered, IF task.to.file THEN Head(due) ELSE ToStdout(Head(due)))
  <2>1. PICK got \in Nat, j \in 0..Len(task.lines), told \in Seq(Events) :
          /\ got <= Len(Sent(task.lines)) /\ rest = SubSeq(Sent(task.lines), got + 1, Len(Sent(task.lines)))
          /\ TakenFrom(NoEvent, <<>>, SubSeq(task.lines, 1, j)).events = told \o due /\ Delivered = Shows(told)
          /\ stream.error = "none" => Heard(task.lines, got, j, stream.pending, stream.asm)
    BY DEF Streamed, Heeded
  <2>2. PICK now \in Seq(Events), event \in Events, later \in Seq(Events) :
           now = due /\ event = Head(due) /\ later = Tail(due) /\ now = <<event>> \o later
    <3>1. PICK now \in Seq(Events) : now = due
      BY DEF Streamed
    <3>2. Head(now) \in Events /\ Tail(now) \in Seq(Events) /\ now = <<Head(now)>> \o Tail(now)
      BY <1>1, <3>1
    <3> QED
      BY <3>1, <3>2
  <2>3. PICK more \in Seq(Events) : more = Append(told, event)
    <3>1. Append(told, event) \in Seq(Events)
      OBVIOUS
    <3> QED
      BY <3>1
  <2>4. told \o now = more \o later
    BY <2>2, <2>3
  <2>5. Append(Shows(told), IF task.to.file THEN event ELSE ToStdout(event)) = Shows(more)
    <3> DEFINE W(e) == IF task.to.file THEN e ELSE ToStdout(e)
    <3>1. Shows(told) = [i \in 1..Len(told) |-> W(told[i])] /\ Len(told) \in Nat
      BY DEF Shows
    <3>2. Shows(more) = [i \in 1..(Len(told) + 1) |-> W(more[i])]
      BY <2>3 DEF Shows
    <3> HIDE DEF W
    <3>3. Shows(more) = [i \in 1..(Len(told) + 1) |-> IF i = Len(told) + 1 THEN W(event) ELSE W(told[i])]
      BY <2>3, <3>2
    <3>4. Append(Shows(told), W(event)) = Shows(more)
      <4>0. PICK n \in Nat : n = Len(told)
        BY <3>1
      <4>1. PICK V : V = {W(told[i]) : i \in 1..n} \cup {W(event)}
        BY <3>1
      <4>2. PICK shown \in Seq(V), last \in V : shown = Shows(told) /\ Len(shown) = n /\ last = W(event)
        <5>1. Shows(told) \in [1..n -> V] /\ W(event) \in V
          BY <3>1, <4>0, <4>1
        <5>2. Shows(told) \in Seq(V) /\ Len(Shows(told)) = n
          BY <5>1
        <5> QED
          BY <5>1, <5>2
      <4>3. /\ Append(shown, last) \in Seq(V) /\ Len(Append(shown, last)) = n + 1
            /\ Append(shown, last)[n + 1] = last /\ \A i \in 1..n : Append(shown, last)[i] = shown[i]
        BY <4>2, AppendProperties
      <4>4. \A i \in 1..Len(told) : Shows(told)[i] = W(told[i])
        BY <3>1
      <4>5. PICK all \in Seq(V) : all = Shows(more) /\ Len(all) = n + 1
        <5>1. Shows(more) \in [1..(n + 1) -> V]
          BY <3>3, <4>0, <4>1
        <5> QED
          BY <5>1
      <4>6. \A i \in 1..(n + 1) : all[i] = Append(shown, last)[i]
        <5>1. \A i \in 1..(n + 1) : all[i] = IF i = n + 1 THEN W(event) ELSE W(told[i])
          BY <3>3, <4>0, <4>1, <4>5
        <5>2. \A i \in 1..(n + 1) : i = n + 1 \/ i \in 1..n
          OBVIOUS
        <5>3. \A i \in 1..n : i # n + 1 /\ i \in 1..(n + 1)
          OBVIOUS
        <5> QED
          BY <4>0, <4>1, <4>2, <4>3, <4>4, <5>1, <5>2, <5>3
      <4>7. all = Append(shown, last)
        BY <4>3, <4>5, <4>6, SeqEqual
      <4> QED
        BY <4>2, <4>5, <4>7
    <3> QED
      BY <3>4 DEF W
  <2>6. TakenFrom(NoEvent, <<>>, SubSeq(task.lines, 1, j)).events = more \o due' /\ Delivered' = Shows(more)
    BY <1>5, <2>1, <2>2, <2>4, <2>5
  <2>7. Heeded'
    BY <1>1, <1>2, <2>1, <2>6 DEF Heeded
  <2>8. due' \in Seq(Events)
    BY <1>5, <2>2
  <2>9. Settled'
    BY <1>1 DEF Streamed, Settled
  <2> QED
    BY <1>1, <1>2, <1>3, <2>7, <2>8, <2>9 DEF Streamed
<1> QED
  BY <1>4, <1>5, WritingIs

\* Only a stream is received.
LEMMA NotSending ==
    ASSUME Streamed, ~Sending, UNCHANGED <<task, stream>>
    PROVE  Streamed'
<1>1. RefusedIsLarge' /\ ~Sending'
  BY DEF Streamed, RefusedIsLarge, Sending
<1> QED
  BY <1>1 DEF Streamed

\* What is said is an error.
Said == pc = "say" => outcome.kind # "none"

\* What was heard and written stays the events of the stream.
LEMMA StreamedKept ==
    ASSUME Streamed, Inv, Said, [Next]_vars
    PROVE  Streamed'
<1>1. Done.kind = "none" /\ Interrupted.kind = "interrupted"
  BY DEF Done, Interrupted, Error
<1>2. task \in Tasks /\ IsStream(stream) /\ (stream.open # "no" => Sending)
  BY DEF Inv, Records, Roles, Sending
<1> USE DEF wait, input, display, output, end, WaitEnds
<1>3. CASE StartHidden \/ StartPick \/ StartLive \/ StartShow \/ Answer \/ StopLive
  <2>1. ~Sending
    BY <1>3 DEF StartHidden, StartPick, StartLive, StartShow, Answer, StopLive, Sending, Waits, Statuses, Prompts
  <2>2. UNCHANGED <<task, stream>>
    BY <1>3 DEF StartHidden, StartPick, StartLive, StartShow, Answer, StopLive
  <2> QED
    BY <2>1, <2>2, NotSending
<1>4. CASE Receive \/ Open \/ Close
  <2>1. Sending
    BY <1>2, <1>4 DEF Receive, Open, Close, Sending
  <2>2. CASE Receive
    BY <1>2, <2>1, <2>2, ReceiveKept
  <2>3. CASE Open \/ Close
    BY <1>2, <2>1, <2>3, OpenedKept
  <2> QED
    BY <1>4, <2>2, <2>3
<1>5. CASE WriteFile \/ WriteStdout
  <2>1. UNCHANGED <<task, stream>>
    BY <1>5, WritingIs
  <2> QED
    BY <1>5, <2>1, WrittenKept, NotSending
<1>6. CASE StartStatus
  <2>1. UNCHANGED <<task, stream, rest, due, stdout, file>> /\ pc = "start" /\ pc' = "waiting"
    BY <1>6 DEF StartStatus
  <2> QED
    BY <2>1, SameStream
<1>7. CASE Prompt \/ Interrupt \/ Drop \/ Clear
  <2>1. UNCHANGED <<task, stream, rest, due, stdout, file>> /\ pc' \in {"drop", "clear", "write", "say"}
    BY <1>7 DEF Prompt, Interrupt, Drop, Clear
  <2> QED
    BY <2>1, SameStream
<1>8. CASE Say \/ Again
  <2>1. UNCHANGED <<task, stream, rest, due, stdout, file>> /\ pc' = "ended" /\ outcome' = outcome /\ pc = "say"
    BY <1>8 DEF Say, Again, EndWith
  <2>2. outcome' # Done
    BY <1>1, <2>1 DEF Said
  <2> QED
    BY <2>1, <2>2, SameStream
<1>9. CASE Written
  <2>1. UNCHANGED <<task, stream, rest, due, stdout, file>> /\ due = <<>>
    BY <1>9 DEF Written
  <2>2. Sending => \/ pc' = "say" \/ (pc' = "start" /\ stream.error = "none")
                   \/ (pc' = "ended" /\ stream.open = "closed")
    BY <1>9, Zenon DEF Written, EndWith, Sending
  <2> QED
    BY <2>1, <2>2, SameStream
<1>10. CASE Reader \/ Redraw \/ Outside
  <2>1. UNCHANGED <<task, stream, rest, due, stdout, file, pc, outcome>>
    BY <1>10, Zenon DEF Reader, Redraw, Outside, Read, Flush, Settle, BeginPicking, EndPicking, NextFrame, CheckFrame, PaintFrame, Type, StdoutFails
  <2> QED
    BY <2>1, SameStream
<1>11. CASE UNCHANGED vars
  <2>1. UNCHANGED <<task, stream, rest, due, stdout, file, pc, outcome>>
    BY <1>11 DEF vars
  <2> QED
    BY <2>1, SameStream
<1> QED
  BY <1>3, <1>4, <1>5, <1>6, <1>7, <1>8, <1>9, <1>10, <1>11 DEF Next, Main

\* A sequence, cut in two.
LEMMA SubSeqSplit ==
    ASSUME NEW D, NEW s \in Seq(D), NEW m \in Nat, NEW n \in Nat, m <= n, n <= Len(s)
    PROVE  SubSeq(s, 1, n) = SubSeq(s, 1, m) \o SubSeq(s, m + 1, n)
OBVIOUS

\* What was heard and written is what the lines mean.
LEMMA EventsTold ==
    ASSUME Streamed, task \in Tasks
    PROVE  EventsAreTheStreams
<1>1. SUFFICES ASSUME Sending PROVE EventsAreTheStreams
  BY DEF EventsAreTheStreams, Sending
<1>2. PICK lines \in Seq(SentLine), s \in Seq(Piece) : lines = task.lines /\ s = Sent(lines) /\ Len(s) \in Nat
  <2>1. task.lines \in Seq(SentLine)
    BY <1>1, LinesAre
  <2>2. Sent(task.lines) \in Seq(Piece)
    BY <2>1, SentOf
  <2> QED
    BY <2>1, <2>2
<1>3. PICK events \in Seq(Events) : events = EventsOf(lines)
  BY EventsInOrder
<1>4. PICK got \in Nat, j \in 0..Len(lines), told \in Seq(Events) :
        /\ got <= Len(s) /\ rest = SubSeq(s, got + 1, Len(s))
        /\ TakenFrom(NoEvent, <<>>, SubSeq(lines, 1, j)).events = told \o due /\ Delivered = Shows(told)
        /\ stream.error = "none" => Heard(lines, got, j, stream.pending, stream.asm)
  BY <1>1, <1>2 DEF Streamed, Heeded
<1>5. PICK now \in Seq(Events), first \in Seq(SentLine), later \in Seq(SentLine) :
         now = due /\ first = SubSeq(lines, 1, j) /\ lines = first \o later
  <2>1. due \in Seq(Events)
    BY <1>1 DEF Streamed
  <2>2. SubSeq(lines, 1, j) \in Seq(SentLine)
    BY FirstOf
  <2>3. SubSeq(lines, j + 1, Len(lines)) \in Seq(SentLine) /\ lines = SubSeq(lines, 1, j) \o SubSeq(lines, j + 1, Len(lines))
    <3>1. PICK n \in Nat : n = Len(lines) /\ j \in 0..n /\ SubSeq(lines, 1, n) = lines
      BY SubSeqFull
    <3>2. SubSeq(lines, j + 1, n) \in Seq(SentLine)
      BY <3>1
    <3>4. j \in Nat /\ j <= n /\ n <= Len(lines)
      BY <3>1
    <3>3. SubSeq(lines, 1, n) = SubSeq(lines, 1, j) \o SubSeq(lines, j + 1, n)
      BY <3>4, SubSeqSplit
    <3> QED
      BY <3>1, <3>2, <3>3
  <2> QED
    BY <2>1, <2>2, <2>3
<1>6. PICK more \in Seq(Events) : EventsOf(first) = (told \o now) \o more
  <2>1. Agrees(TakenFrom(NoEvent, <<>>, first), first)
    BY Agreement
  <2> QED
    BY <1>4, <1>5, <2>1 DEF Agrees
<1>7. PICK most \in Seq(Events) : events = ((told \o now) \o more) \o most
  <2>1. \E most \in Seq(Events) : EventsOf(first \o later) = EventsOf(first) \o most
    BY EventsOfFirst
  <2> QED
    BY <1>3, <1>5, <1>6, <2>1
<1>8. PICK shown : /\ shown = [i \in DOMAIN events |-> IF task.to.file THEN events[i] ELSE ToStdout(events[i])]
  OBVIOUS
<1>9. IsPrefix(Shows(told), shown)
  <2>1. PICK n \in Nat, m \in Nat : n = Len(told) /\ m = Len(events) /\ n <= m
    BY <1>7
  <2>2. \A i \in 1..n : events[i] = told[i]
    BY <1>7, <2>1
  <2> DEFINE W(e) == IF task.to.file THEN e ELSE ToStdout(e)
  <2>3. Shows(told) = [i \in 1..n |-> W(told[i])] /\ shown = [i \in 1..m |-> W(events[i])]
    BY <1>8, <2>1 DEF Shows
  <2> HIDE DEF W
  <2>4. Len(Shows(told)) = n /\ Len(shown) = m
    BY <2>3
  <2>5. \A i \in 1..n : shown[i] = Shows(told)[i]
    BY <2>1, <2>2, <2>3
  <2>6. SubSeq(Shows(told), 1, n) = SubSeq(shown, 1, n)
    <3>1. PICK V : V = {W(e) : e \in Events}
      OBVIOUS
    <3>2. (\A i \in 1..n : W(told[i]) \in V) /\ \A i \in 1..m : W(events[i]) \in V
      BY <2>1, <3>1
    <3>3. Shows(told) \in Seq(V) /\ shown \in Seq(V)
      BY <2>1, <2>3, <3>2
    <3>4. PICK a \in Seq(V), b \in Seq(V) : a = Shows(told) /\ b = shown
      BY <3>3
    <3>5. SubSeq(a, 1, n) = SubSeq(b, 1, n)
      BY <2>1, <2>4, <2>5, <3>4, SameFirst
    <3> QED
      BY <3>4, <3>5
  <2> QED
    BY <2>1, <2>4, <2>6 DEF IsPrefix
<1>10. ASSUME pc = "ended", outcome = Done PROVE Delivered = shown
  <2>1. rest = <<>> /\ due = <<>> /\ stream.error = "none"
    BY <1>1, <1>10 DEF Streamed, Settled
  <2>2. got = Len(s)
    <3>1. SubSeq(s, got + 1, Len(s)) = <<>>
      BY <1>4, <2>1
    <3>4. ASSUME got < Len(s) PROVE FALSE
      <4>1. SubSeq(s, got + 1, Len(s)) \in Seq(Piece) /\ Len(SubSeq(s, got + 1, Len(s))) = Len(s) - got
        BY <1>2, <3>4
      <4>2. PICK l \in Nat : l = Len(s) /\ got < l
        BY <1>2, <3>4
      <4>3. l - got # 0
        BY <4>2
      <4>4. PICK t \in Seq(Piece) : t = SubSeq(s, got + 1, Len(s)) /\ Len(t) = l - got
        BY <4>1, <4>2
      <4>5. t # <<>>
        BY <4>3, <4>4
      <4> QED
        BY <3>1, <4>4, <4>5
    <3> QED
      BY <1>2, <1>4, <3>4
  <2>3. first = lines
    <3>1. Whole(lines, got) = first
      BY <1>4, <1>5, <2>1 DEF Heard
    <3>2. Whole(lines, Len(Sent(lines))) = lines
      BY <1>2, FirstAreWhole
    <3> QED
      BY <1>2, <2>2, <3>1, <3>2
  <2>4. events = told
    <3>1. TakenFrom(NoEvent, <<>>, first).error = "none"
      BY <1>4, <1>5, <2>1 DEF Heard
    <3>2. Agrees(TakenFrom(NoEvent, <<>>, first), first)
      BY Agreement
    <3>3. TakenFrom(NoEvent, <<>>, first).events = EventsOf(first)
      BY <3>1, <3>2 DEF Agrees
    <3>4. told \o <<>> = told
      OBVIOUS
    <3> QED
      BY <1>3, <1>4, <1>5, <2>1, <2>3, <3>3, <3>4
  <2> QED
    BY <1>4, <1>8, <2>4 DEF Shows
<1> QED
  BY <1>2, <1>3, <1>4, <1>8, <1>9, <1>10 DEF EventsAreTheStreams

-----------------------------------------------------------------------------
(* What errors say *)

\* A field of text, which quotes no credential and is no missing value.
Legible(f) == f = [key |-> f.key, text |-> f.text] /\ Secret \notin f.text /\ None \notin f.text

\* The parts of an error's detail.
Parts == {"form", "status", "fields", "top", "sources"}

\* An error says something, and no credential.
Sound(error) ==
    /\ DOMAIN error.detail = Parts
    /\ error.kind = "none" => error = Done
    /\ error.kind # "none" => error.message # {}
    /\ Secret \notin error.message \cup error.hint
    /\ \A f \in error.detail.fields \cup error.detail.top : Legible(f)

\* An error that is not of a closed stdout.
Fine(error) == Sound(error) /\ error.closed = FALSE

\* The parts of a plain error.
LEMMA ErrorIs ==
    \A kind, message :
        /\ Error(kind, message).kind = kind /\ Error(kind, message).message = message
        /\ Error(kind, message).hint = {} /\ Error(kind, message).closed = FALSE
        /\ Error(kind, message).detail.fields = {} /\ Error(kind, message).detail.top = {}
        /\ Error(kind, message).detail.form = "none" /\ DOMAIN Error(kind, message).detail = Parts
BY DEF Error, NoDetail, Parts

\* An error with a hint.
LEMMA HintedIs ==
    \A kind, message, hint :
        LET error == [Error(kind, message) EXCEPT !.hint = hint] IN
        /\ error.kind = kind /\ error.message = message /\ error.hint = hint /\ error.closed = FALSE
        /\ error.detail.fields = {} /\ error.detail.top = {} /\ error.detail.form = "none"
        /\ DOMAIN error.detail = Parts
BY DEF Error, NoDetail, Parts

\* A plain error in the words of this program.
LEMMA PlainIsFine ==
    ASSUME NEW kind, kind # "none", NEW message \in SUBSET Wordings, message # {}
    PROVE  Fine(Error(kind, message))
<1>1. Secret \notin message
  BY SecretsAreNoWords
<1> QED
  BY <1>1, ErrorIs DEF Fine, Sound

\* A plain error with a hint.
LEMMA HintedIsFine ==
    ASSUME NEW kind, kind # "none", NEW message \in SUBSET Wordings, message # {}, NEW hint, Secret \notin hint
    PROVE  Fine([Error(kind, message) EXCEPT !.hint = hint])
<1>1. Secret \notin message
  BY SecretsAreNoWords
<1> QED
  BY <1>1, HintedIs DEF Fine, Sound

\* A request that got no answer.
LEMMA NoResponseIs ==
    ASSUME NEW failure, NEW consequence \in SUBSET Wordings, NEW write, NEW fixed
    PROVE  LET error == NoResponse(failure, consequence, write, fixed) IN
           /\ Fine(error) /\ error.kind = "transport" /\ error.message = {Classify(failure)} \cup consequence
           /\ error.hint = Advice(Classify(failure), write, fixed) /\ error.detail.form = "none"
<1>1. PICK class \in Wordings : class = Classify(failure)
  BY DEF Classify, Wordings
<1>2. Advice(class, write, fixed) \subseteq Wordings
  BY DEF Advice, Wordings
<1>3. Secret \notin Advice(class, write, fixed) /\ {class} \cup consequence \in SUBSET Wordings /\ {class} \cup consequence # {}
  BY <1>2, SecretsAreNoWords
<1>4. NoResponse(failure, consequence, write, fixed) =
          [Error("transport", {class} \cup consequence) EXCEPT !.hint = Advice(class, write, fixed)]
  BY <1>1 DEF NoResponse
<1>5. Fine([Error("transport", {class} \cup consequence) EXCEPT !.hint = Advice(class, write, fixed)])
  BY <1>3, HintedIsFine
<1> QED
  BY <1>1, <1>4, <1>5, HintedIs

\* What is redacted quotes no credential.
LEMMA RedactedSays ==
    ASSUME NEW text
    PROVE  /\ Secret \notin RedactedText(text, Secret) /\ RedactedText(text, Secret) \subseteq text \cup {Redacted}
           /\ text # {} => RedactedText(text, Secret) # {}
           /\ Secret \notin text => RedactedText(text, Secret) = text
           /\ None \notin text => RedactedText(text, None) = text
<1>1. Secret # Redacted
  BY SecretsAreNoWords DEF Wordings
<1> QED
  BY <1>1 DEF RedactedText

\* The fields of an answer.
Fields == [key : STRING, text : SUBSET (STRING \cup {Secret})]

\* What is redacted of a field, and of what was redacted before.
LEMMA RedactedFieldsAre ==
    ASSUME NEW fields
    PROVE  /\ fields \subseteq Fields =>
                  /\ Hides(RedactedFields(fields, Secret))
                  /\ \A g \in RedactedFields(fields, Secret) : Legible(g)
           /\ (\A f \in fields : Legible(f)) =>
                  /\ Hides(RedactedFields(fields, None))
                  /\ \A f \in fields : \E g \in RedactedFields(fields, None) :
                        g.key = f.key /\ (f.key \notin SecretKeys => g.text = f.text)
<1> DEFINE Of(f, secret) == IF f.key \in SecretKeys THEN [f EXCEPT !.text = {Redacted}]
                            ELSE [f EXCEPT !.text = RedactedText(@, secret)]
<1>1. \A secret : RedactedFields(fields, secret) = {Of(f, secret) : f \in fields}
  BY DEF RedactedFields
<1>2. Secret # Redacted /\ None # Redacted
  BY SecretsAreNoWords, AnswersAreText DEF Wordings
<1>3. ASSUME NEW f \in Fields
      PROVE  Legible(Of(f, Secret)) /\ (Of(f, Secret).key \in SecretKeys => Of(f, Secret).text = {Redacted})
  <2>1. PICK key \in STRING, text \in SUBSET (STRING \cup {Secret}) : f = [key |-> key, text |-> text]
    BY DEF Fields
  <2>2. CASE key \in SecretKeys
    <3>1. Of(f, Secret) = [key |-> key, text |-> {Redacted}]
      BY <2>1, <2>2
    <3> HIDE DEF Of
    <3> QED
      BY <1>2, <3>1 DEF Legible
  <2>3. CASE key \notin SecretKeys
    <3>1. PICK clean : clean = RedactedText(text, Secret) /\ Secret \notin clean /\ clean \subseteq text \cup {Redacted}
      BY RedactedSays
    <3>2. Of(f, Secret) = [key |-> key, text |-> clean]
      BY <2>1, <2>3, <3>1
    <3>3. None \notin clean
      BY <1>2, <3>1, AnswersAreText
    <3> HIDE DEF Of
    <3> QED
      BY <2>3, <3>1, <3>2, <3>3 DEF Legible
  <2> QED
    BY <2>2, <2>3
<1>4. ASSUME NEW f, Legible(f)
      PROVE  /\ Of(f, None).key = f.key /\ Secret \notin Of(f, None).text
             /\ f.key \in SecretKeys => Of(f, None).text = {Redacted}
             /\ f.key \notin SecretKeys => Of(f, None).text = f.text
  <2>1. PICK key, text : f = [key |-> key, text |-> text] /\ Secret \notin text /\ None \notin text
    BY <1>4 DEF Legible
  <2>2. CASE key \in SecretKeys
    <3>1. Of(f, None) = [key |-> key, text |-> {Redacted}]
      BY <2>1, <2>2
    <3> HIDE DEF Of
    <3> QED
      BY <1>2, <2>1, <2>2, <3>1
  <2>3. CASE key \notin SecretKeys
    <3>1. RedactedText(text, None) = text
      BY <2>1, RedactedSays
    <3>2. Of(f, None) = [key |-> key, text |-> text]
      BY <2>1, <2>3, <3>1
    <3> HIDE DEF Of
    <3> QED
      BY <2>1, <2>3, <3>2
  <2> QED
    BY <2>2, <2>3
<1> HIDE DEF Of
<1>5. ASSUME fields \subseteq Fields
      PROVE  Hides(RedactedFields(fields, Secret)) /\ \A g \in RedactedFields(fields, Secret) : Legible(g)
  <2>1. ASSUME NEW g \in RedactedFields(fields, Secret)
        PROVE  Legible(g) /\ (g.key \in SecretKeys => g.text = {Redacted})
    <3>1. PICK f \in fields : g = Of(f, Secret)
      BY <1>1
    <3> QED
      BY <1>3, <1>5, <3>1
  <2> QED
    BY <2>1 DEF Hides, Legible
<1>6. ASSUME \A f \in fields : Legible(f)
      PROVE  /\ Hides(RedactedFields(fields, None))
             /\ \A f \in fields : \E g \in RedactedFields(fields, None) :
                   g.key = f.key /\ (f.key \notin SecretKeys => g.text = f.text)
  <2>1. ASSUME NEW g \in RedactedFields(fields, None)
        PROVE  Secret \notin g.text /\ (g.key \in SecretKeys => g.text = {Redacted})
    <3>1. PICK f \in fields : g = Of(f, None)
      BY <1>1
    <3> QED
      BY <1>4, <1>6, <3>1
  <2>2. ASSUME NEW f \in fields
        PROVE  \E g \in RedactedFields(fields, None) : g.key = f.key /\ (f.key \notin SecretKeys => g.text = f.text)
    <3>1. Of(f, None) \in RedactedFields(fields, None)
      BY <1>1
    <3> QED
      BY <1>4, <1>6, <3>1
  <2> QED
    BY <2>1, <2>2 DEF Hides
<1> QED
  BY <1>5, <1>6

\* The hint of a refusal.
Hint(authorization, response) ==
    LET hint == RejectionHint(authorization, RejectedAs(response.type, response.status))
    IN  IF hint # {} THEN hint ELSE TypeHint(response.type, response.reason)

\* No hint of a rejected credential quotes one.
LEMMA HintsHide ==
    ASSUME NEW authorization, authorization.sources # Secret
    PROVE  /\ \A code : Secret \notin RejectionHint(authorization, code)
           /\ \A response : Secret \notin Hint(authorization, response)
<1>1. \A code : RejectionHint(authorization, code) \subseteq Wordings \cup {authorization.sources}
  <2> TAKE code
  <2>1. authorization.by \in {"key", "token"} /\ code = 403 =>
           RejectionHint(authorization, code) \subseteq {"context", "VOLTAGE_API_KEY", authorization.sources}
    BY DEF RejectionHint
  <2>2. ~(authorization.by \in {"key", "token"} /\ code = 403) =>
           RejectionHint(authorization, code) \subseteq {"auth status", "VOLTAGE_CHECKOUT_TOKEN", "VOLTAGE_STREAM_TOKEN"}
    BY DEF RejectionHint
  <2> QED
    BY <2>1, <2>2 DEF Wordings
<1>2. \A type, reason : TypeHint(type, reason) \subseteq Wordings
  BY DEF TypeHint, Wordings
<1> QED
  BY <1>1, <1>2, SecretsAreNoWords DEF Hint

\* A refusal is a sound error, without the credential.
LEMMA RefusalIsFine ==
    ASSUME NEW authorization, authorization.sources # Secret,
           NEW response, response.fields \cup response.top \subseteq Fields
    PROVE  LET error == RedactedError(Rejection(authorization, response), Secret) IN
           Fine(error) /\ error.kind = KindFor(response.status) /\ error.hint = Hint(authorization, response)
<1>1. PICK kind, message, hint, code, fields, top, sources :
         /\ kind = KindFor(response.status) /\ message = Message(response.type, response.reason, response.status)
         /\ hint = Hint(authorization, response) /\ code = response.status /\ fields = response.fields /\ top = response.top
         /\ sources = Sources(authorization, RejectedAs(response.type, response.status))
  OBVIOUS
<1>2. kind # "none" /\ message # {} /\ Secret \notin hint
  BY <1>1, HintsHide DEF KindFor, Message
<1>3. PICK clean, others, text : /\ clean = RedactedFields(fields, Secret) /\ others = RedactedFields(top, Secret)
                                 /\ text = RedactedText(message, Secret)
  OBVIOUS
<1>4. text # {} /\ Secret \notin text /\ \A f \in clean \cup others : Legible(f)
  BY <1>1, <1>2, <1>3, RedactedSays, RedactedFieldsAre
<1>5. PICK detail : detail = [form |-> "http", status |-> code, top |-> top, fields |-> fields, sources |-> sources]
  OBVIOUS
<1>6. PICK raw : raw = [Error(kind, message) EXCEPT !.hint = hint, !.detail = detail]
  OBVIOUS
<1>7. Rejection(authorization, response) = raw
  BY <1>1, <1>5, <1>6 DEF Rejection, Hint
<1>8. PICK error : error = [raw EXCEPT !.message = text, !.detail.fields = clean, !.detail.top = others]
  OBVIOUS
<1>9. RedactedError(raw, Secret) = error
  <2>1. raw.message = message /\ raw.detail.fields = fields /\ raw.detail.top = top
    BY <1>5, <1>6 DEF Error
  <2>2. RedactedError(raw, Secret) =
           [raw EXCEPT !.message = RedactedText(raw.message, Secret),
                       !.detail.fields = RedactedFields(raw.detail.fields, Secret),
                       !.detail.top = RedactedFields(raw.detail.top, Secret)]
    BY <1>5, <1>6 DEF RedactedError, Error
  <2> QED
    BY <1>3, <1>8, <2>1, <2>2
<1>10. /\ error.kind = kind /\ error.message = text /\ error.hint = hint /\ error.closed = FALSE
       /\ error.detail.fields = clean /\ error.detail.top = others /\ DOMAIN error.detail = Parts
  BY <1>5, <1>6, <1>8 DEF Error, Parts
<1>11. Fine(error)
  BY <1>2, <1>4, <1>10 DEF Fine, Sound
<1> QED
  BY <1>1, <1>7, <1>9, <1>10, <1>11

\* An answer that is not JSON.
LEMMA NonJsonIs ==
    ASSUME NEW authorization, authorization.sources # Secret, NEW response
    PROVE  LET error == NonJson(authorization, response) IN
           /\ Fine(error) /\ error.kind \in {"transport", KindFor(response.status)}
           /\ error.hint = RejectionHint(authorization, response.status)
<1>1. PICK kind, hint, detail, sources :
         /\ kind = IF IsSuccess(response.status) THEN "transport" ELSE KindFor(response.status)
         /\ hint = RejectionHint(authorization, response.status)
         /\ sources = Sources(authorization, response.status)
         /\ detail = IF sources = None THEN NoDetail
                     ELSE [NoDetail EXCEPT !.form = "http", !.status = response.status, !.sources = sources]
  OBVIOUS
<1>2. detail.fields = {} /\ detail.top = {} /\ DOMAIN detail = Parts
  BY <1>1 DEF NoDetail, Parts
<1>3. PICK error : error = [Error(kind, {"HTTP"}) EXCEPT !.hint = hint, !.detail = detail]
  OBVIOUS
<1>4. NonJson(authorization, response) = error
  BY <1>1, <1>3 DEF NonJson
<1>5. error.kind = kind /\ error.message = {"HTTP"} /\ error.hint = hint /\ error.closed = FALSE /\ error.detail = detail
  BY <1>3 DEF Error
<1>6. kind # "none" /\ kind \in {"transport", KindFor(response.status)} /\ Secret \notin hint /\ Secret # "HTTP"
  BY <1>1, HintsHide, SecretsAreNoWords DEF KindFor, Wordings
<1>7. Fine(error)
  BY <1>2, <1>5, <1>6 DEF Fine, Sound
<1> QED
  BY <1>1, <1>4, <1>5, <1>6, <1>7

\* A body that could not be read.
LEMMA BodyIs ==
    ASSUME NEW body, NEW change
    PROVE  LET error == BodyError(body, change) IN
           /\ Fine(error) /\ error.kind = "transport" /\ error.hint = {}
           /\ body # "large" /\ change => error.message = {"reconcile"}
<1>1. PICK message \in SUBSET Wordings :
         message # {} /\ message = IF body = "large" THEN {"too large"} ELSE IF change THEN {"reconcile"} ELSE {"retry"}
  <2>1. (IF body = "large" THEN {"too large"} ELSE IF change THEN {"reconcile"} ELSE {"retry"}) \in SUBSET Wordings
    BY DEF Wordings
  <2> QED
    BY <2>1
<1>2. BodyError(body, change) = Error("transport", message)
  BY <1>1 DEF BodyError
<1>3. Fine(Error("transport", message))
  BY <1>1, PlainIsFine
<1>4. body # "large" /\ change => message = {"reconcile"}
  BY <1>1, Zenon
<1> QED
  BY <1>2, <1>3, <1>4, ErrorIs

\* What the report of a change without an answer says: to look before it is run again.
LooksUp(error) ==
    /\ "retry" \notin error.hint \cup error.message
    /\ (error.hint \cup error.message) \cap {"look up first", "reconcile", "may have been submitted"} # {}

\* Nothing told the client whether the change was made.
Unanswered(response) ==
    \/ response.body = "cut"
    \/ response.body = "none" /\ Classify(response.failure) \in {"timeout", "other"}

\* What the report of a refusal says of the credential.
NamesCredential(authorization, response, hint) ==
    /\ response.status = 401 \/ response.type = "missing_credentials" => hint # {}
    /\ response.status = 403 /\ response.type # "missing_credentials"
         /\ authorization.by \in {"key", "token"} /\ authorization.sources \notin {None, "unset"} =>
           authorization.sources \in hint

\* The hints of a rejected credential name it.
LEMMA HintsName ==
    ASSUME NEW authorization, authorization.by \in {"key", "token", "session", "stream"}, NEW response
    PROVE  /\ NamesCredential(authorization, response, Hint(authorization, response))
           /\ response.type = "none" =>
                  NamesCredential(authorization, response, RejectionHint(authorization, response.status))
<1>1. RejectionHint(authorization, 401) # {}
  <2>1. CASE authorization.by \in {"key", "token"}
    <3>1. ASSUME NEW code, code = 401 PROVE RejectionHint(authorization, code) = {"auth status"}
      <4>1. CASE authorization.by = "key"
        BY <3>1, <4>1 DEF RejectionHint
      <4>2. CASE authorization.by = "token"
        BY <3>1, <4>2 DEF RejectionHint
      <4> QED
        BY <2>1, <4>1, <4>2
    <3> QED
      BY <3>1
  <2>2. CASE authorization.by = "session"
    BY <2>2 DEF RejectionHint
  <2>3. CASE authorization.by = "stream"
    BY <2>3 DEF RejectionHint
  <2> QED
    BY <2>1, <2>2, <2>3
<1>2. authorization.by \in {"key", "token"} /\ authorization.sources \notin {None, "unset"} =>
         authorization.sources \in RejectionHint(authorization, 403)
  BY DEF RejectionHint
<1>3. /\ response.status = 401 \/ response.type = "missing_credentials" => RejectedAs(response.type, response.status) = 401
      /\ response.status = 403 /\ response.type # "missing_credentials" => RejectedAs(response.type, response.status) = 403
  BY DEF RejectedAs
<1>4. \A code : RejectionHint(authorization, code) # {} /\ code = RejectedAs(response.type, response.status) =>
                   Hint(authorization, response) = RejectionHint(authorization, code)
  BY DEF Hint
<1>5. NamesCredential(authorization, response, Hint(authorization, response))
  BY <1>1, <1>2, <1>3, <1>4 DEF NamesCredential
<1>6. response.type = "none" =>
         NamesCredential(authorization, response, RejectionHint(authorization, response.status))
  BY <1>1, <1>2 DEF NamesCredential
<1> QED
  BY <1>5, <1>6

\* What is said of a request of the API that did not succeed.
LEMMA SendErrorIs ==
    ASSUME NEW authorization, authorization.sources # Secret,
           authorization.by \in {"key", "token", "session", "stream"}, NEW change,
           NEW response, response.fields \cup response.top \subseteq Fields,
           response.body # "json" => response.type = "none", ~Succeeds(response)
    PROVE  LET error == SendError(authorization, change, response) IN
           /\ Fine(error)
           /\ change = TRUE /\ Unanswered(response) => LooksUp(error)
           /\ error.kind \in {"api", "auth"} => NamesCredential(authorization, response, error.hint)
<1>1. CASE response.body = "none"
  <2>1. PICK consequence \in SUBSET Wordings : consequence = IF change THEN {"may have been submitted"} ELSE {}
    <3>1. (IF change THEN {"may have been submitted"} ELSE {}) \in SUBSET Wordings
      BY DEF Wordings
    <3> QED
      BY <3>1
  <2>7. PICK fixed : fixed = FALSE
    OBVIOUS
  <2>2. SendError(authorization, change, response) = NoResponse(response.failure, consequence, change, fixed)
    BY <1>1, <2>1, <2>7, Zenon DEF SendError
  <2>6. Fine(NoResponse(response.failure, consequence, change, fixed))
    BY NoResponseIs
  <2>8. NoResponse(response.failure, consequence, change, fixed).kind = "transport"
    BY NoResponseIs
  <2>9. NoResponse(response.failure, consequence, change, fixed).message = {Classify(response.failure)} \cup consequence
    BY NoResponseIs
  <2>10. NoResponse(response.failure, consequence, change, fixed).hint = Advice(Classify(response.failure), change, fixed)
    BY NoResponseIs
  <2>3. PICK error : error = NoResponse(response.failure, consequence, change, fixed)
    OBVIOUS
  <2>4. /\ Fine(error) /\ error.kind = "transport" /\ error.message = {Classify(response.failure)} \cup consequence
        /\ error.hint = Advice(Classify(response.failure), change, fixed)
    BY <2>3, <2>6, <2>8, <2>9, <2>10
  <2>5. ASSUME change = TRUE, Unanswered(response) PROVE LooksUp(error)
    <3>1. PICK class : class = Classify(response.failure) /\ class \in {"timeout", "other"}
      BY <1>1, <2>5 DEF Unanswered
    <3>2. Advice(class, TRUE, fixed) \subseteq {"look up first", "--timeout", "check the service"}
      BY <2>7, <3>1 DEF Advice
    <3>3. consequence = {"may have been submitted"}
      BY <2>1, <2>5
    <3>4. error.hint \subseteq {"look up first", "--timeout", "check the service"}
      BY <2>4, <2>5, <3>1, <3>2
    <3>5. error.message = {class, "may have been submitted"}
      BY <2>4, <3>1, <3>3
    <3>6. "retry" \notin error.hint \cup error.message
      BY <3>1, <3>4, <3>5
    <3> QED
      BY <3>5, <3>6 DEF LooksUp
  <2> QED
    BY <2>2, <2>3, <2>4, <2>5
<1>2. CASE response.body \in {"large", "cut"}
  <2>1. SendError(authorization, change, response) = BodyError(response.body, change)
    BY <1>2 DEF SendError
  <2>2. PICK error : error = BodyError(response.body, change)
    OBVIOUS
  <2>3. /\ Fine(error) /\ error.kind = "transport" /\ error.hint = {}
        /\ response.body # "large" /\ change => error.message = {"reconcile"}
    BY <2>2, BodyIs
  <2>4. change = TRUE /\ Unanswered(response) => LooksUp(error)
    <3>1. SUFFICES ASSUME change = TRUE, Unanswered(response) PROVE LooksUp(error)
      OBVIOUS
    <3>2. response.body # "large"
      BY <1>2, <3>1 DEF Unanswered
    <3>3. error.message = {"reconcile"}
      BY <2>3, <3>1, <3>2
    <3> QED
      BY <2>3, <3>3 DEF LooksUp
  <2> QED
    BY <2>1, <2>2, <2>3, <2>4
<1>3. CASE response.body = "html"
  <2>1. SendError(authorization, change, response) = NonJson(authorization, response)
    BY <1>3 DEF SendError
  <2>2. PICK error : error = NonJson(authorization, response)
    OBVIOUS
  <2>3. Fine(error) /\ error.hint = RejectionHint(authorization, response.status)
    BY <2>2, NonJsonIs
  <2>4. ~Unanswered(response) /\ response.type = "none"
    BY <1>3 DEF Unanswered
  <2>5. NamesCredential(authorization, response, RejectionHint(authorization, response.status))
    BY <2>4, HintsName
  <2> QED
    BY <2>1, <2>2, <2>3, <2>4, <2>5
<1>4. CASE response.body \notin {"none", "large", "cut", "html"}
  <2>1. SendError(authorization, change, response) = RedactedError(Rejection(authorization, response), Secret)
    BY <1>4, Zenon DEF SendError
  <2>2. PICK error : error = RedactedError(Rejection(authorization, response), Secret)
    OBVIOUS
  <2>3. Fine(error) /\ error.hint = Hint(authorization, response)
    BY <2>2, RefusalIsFine
  <2>4. ~Unanswered(response)
    BY <1>4 DEF Unanswered
  <2>5. NamesCredential(authorization, response, Hint(authorization, response))
    BY HintsName
  <2> QED
    BY <2>1, <2>2, <2>3, <2>4, <2>5
<1> QED
  BY <1>1, <1>2, <1>3, <1>4

\* What is said of a request of the auth service that did not succeed.
LEMMA AuthErrorIs ==
    ASSUME NEW response, Secret \in response.reason => FreeText \in response.reason, NEW saved
    PROVE  Fine(AuthError(response, saved))
<1>1. CASE response.body = "none"
  <2>1. PICK consequence \in SUBSET Wordings : consequence = {}
    OBVIOUS
  <2>4. PICK write, fixed : write = FALSE /\ fixed = TRUE
    OBVIOUS
  <2>2. AuthError(response, saved) = NoResponse(response.failure, consequence, write, fixed)
    BY <1>1, <2>1, <2>4, Zenon DEF AuthError
  <2>3. Fine(NoResponse(response.failure, consequence, write, fixed))
    BY NoResponseIs
  <2> QED
    BY <2>2, <2>3
<1>2. CASE response.body # "none" /\ response.status = 429
  <2>1. PICK message \in SUBSET Wordings : message = {"HTTP", "slow_down"} /\ message # {}
    <3>1. {"HTTP", "slow_down"} \in SUBSET Wordings
      BY DEF Wordings
    <3> QED
      BY <3>1
  <2>2. AuthError(response, saved) = Error("auth", message)
    BY <1>2, <2>1 DEF AuthError
  <2> QED
    BY <2>1, <2>2, PlainIsFine
<1>3. CASE response.body \in {"cut", "large", "html"} /\ response.status # 429
  <2>4. PICK kind : kind = IF response.body = "cut" THEN "transport" ELSE "auth"
    OBVIOUS
  <2>1. PICK message \in SUBSET Wordings : message = IF response.body = "cut" THEN {"unreadable"} ELSE {"invalid"}
    <3>1. (IF response.body = "cut" THEN {"unreadable"} ELSE {"invalid"}) \in SUBSET Wordings
      BY DEF Wordings
    <3> QED
      BY <3>1
  <2>2. AuthError(response, saved) = Error(kind, message)
    BY <1>3, <2>1, <2>4 DEF AuthError
  <2>3. kind # "none" /\ message # {}
    BY <2>1, <2>4
  <2> QED
    BY <2>2, <2>3, PlainIsFine
<1>4. CASE /\ response.body \notin {"none", "cut", "large", "html"} /\ response.status # 429
           /\ saved /\ response.body \in {"json", "empty"} /\ response.reason = {"invalid_grant"}
  <2>1. PICK fields : fields = {[key |-> "credential_problem", text |-> {"login_expired"}]}
    OBVIOUS
  <2>2. PICK error : error = [Error("auth", {"expired"}) EXCEPT
                                !.hint = {"login"}, !.detail.form = "credential", !.detail.fields = fields]
    OBVIOUS
  <2>3. AuthError(response, saved) = error
    BY <1>4, <2>1, <2>2 DEF AuthError
  <2>4. /\ error.kind = "auth" /\ error.message = {"expired"} /\ error.hint = {"login"} /\ error.closed = FALSE
        /\ error.detail.fields = fields /\ error.detail.top = {} /\ DOMAIN error.detail = Parts
    BY <2>2 DEF Error, NoDetail, Parts
  <2>5. Secret \notin {"expired", "login", "login_expired"} /\ None # "login_expired"
    BY SecretsAreNoWords, AnswersAreText DEF Wordings
  <2>6. \A f \in fields : Legible(f)
    BY <2>1, <2>5 DEF Legible
  <2> QED
    BY <2>3, <2>4, <2>5, <2>6 DEF Fine, Sound
<1>5. CASE /\ response.body \notin {"none", "cut", "large", "html"} /\ response.status # 429
           /\ ~(saved /\ response.body \in {"json", "empty"} /\ response.reason = {"invalid_grant"})
  <2>1. PICK message : message = {"HTTP"} \cup ErrorCode(response)
    OBVIOUS
  <2>2. AuthError(response, saved) = Error("auth", message)
    BY <1>5, <2>1 DEF AuthError
  <2>3. Secret \notin ErrorCode(response) /\ Secret # "HTTP"
    BY SecretsAreNoWords DEF ErrorCode, Wordings
  <2> QED
    BY <2>1, <2>2, <2>3, ErrorIs DEF Fine, Sound
<1> QED
  BY <1>1, <1>2, <1>3, <1>4, <1>5

\* What is said of a stream that cannot be opened.
LEMMA OpenErrorIs ==
    ASSUME NEW response
    PROVE  Fine(OpenError(response))
<1>1. Fine(Done)
  BY ErrorIs, SecretsAreNoWords DEF Fine, Sound, Done
<1>2. CASE response.body = "none"
  <2>1. PICK consequence \in SUBSET Wordings : consequence = {}
    OBVIOUS
  <2>4. PICK write, fixed : write = FALSE /\ fixed = FALSE
    OBVIOUS
  <2>2. OpenError(response) = NoResponse(response.failure, consequence, write, fixed)
    BY <1>2, <2>1, <2>4, Zenon DEF OpenError
  <2>3. Fine(NoResponse(response.failure, consequence, write, fixed))
    BY NoResponseIs
  <2> QED
    BY <2>2, <2>3
<1>3. CASE response.body # "none" /\ ~IsSuccess(response.status)
  <2>4. PICK kind : kind = KindFor(response.status)
    OBVIOUS
  <2>1. PICK message \in SUBSET Wordings : message = {"HTTP"} /\ message # {}
    <3>1. {"HTTP"} \in SUBSET Wordings
      BY DEF Wordings
    <3> QED
      BY <3>1
  <2>2. OpenError(response) = Error(kind, message)
    BY <1>3, <2>1, <2>4 DEF OpenError
  <2>3. kind # "none"
    BY <2>4 DEF KindFor
  <2> QED
    BY <2>1, <2>2, <2>3, PlainIsFine
<1>4. CASE response.body \notin {"none", "events"} /\ IsSuccess(response.status)
  <2>1. PICK message \in SUBSET Wordings : message = {"not a stream"} /\ message # {}
    <3>1. {"not a stream"} \in SUBSET Wordings
      BY DEF Wordings
    <3> QED
      BY <3>1
  <2>2. OpenError(response) = Error("transport", message)
    BY <1>4, <2>1 DEF OpenError
  <2> QED
    BY <2>1, <2>2, PlainIsFine
<1>5. CASE response.body = "events" /\ IsSuccess(response.status)
  BY <1>1, <1>5 DEF OpenError
<1> QED
  BY <1>2, <1>3, <1>4, <1>5

\* What Ctrl-C makes of the wait.
Abandoned ==
    IF task.kind = "call" /\ task.change THEN [Interrupted EXCEPT !.message = @ \cup {"may have been submitted"}]
    ELSE Interrupted

\* Success, and Ctrl-C.
LEMMA EndingsAreFine ==
    /\ Fine(Done) /\ Done.kind = "none" /\ Done.detail.form = "none"
    /\ Fine(Abandoned) /\ Abandoned.kind = "interrupted" /\ Abandoned.detail.form = "none"
    /\ task.kind = "call" /\ task.change => LooksUp(Abandoned)
    /\ \A closed \in BOOLEAN :
          LET error == [Error("transport", {"write"}) EXCEPT !.closed = closed] IN
          Sound(error) /\ error.kind = "transport" /\ error.closed = closed
<1>1. Secret \notin {"interrupted", "may have been submitted", "write"}
  BY SecretsAreNoWords DEF Wordings
<1>2. Fine(Done) /\ Done.kind = "none" /\ Done.detail.form = "none"
  BY ErrorIs DEF Done, Fine, Sound
<1>3. PICK plain : plain = Interrupted
  OBVIOUS
<1>4. /\ plain.kind = "interrupted" /\ plain.message = {"interrupted"} /\ plain.hint = {} /\ plain.closed = FALSE
      /\ plain.detail.fields = {} /\ plain.detail.top = {} /\ plain.detail.form = "none" /\ DOMAIN plain.detail = Parts
  BY <1>3, ErrorIs DEF Interrupted
<1>5. PICK told : told = [Interrupted EXCEPT !.message = @ \cup {"may have been submitted"}]
  OBVIOUS
<1>6. /\ told.kind = "interrupted" /\ told.message = {"interrupted", "may have been submitted"} /\ told.hint = {}
      /\ told.closed = FALSE /\ told.detail = plain.detail
  BY <1>3, <1>5 DEF Interrupted, Error
<1>7. Fine(plain) /\ Fine(told) /\ LooksUp(told)
  <2>1. Fine(plain)
    BY <1>1, <1>4 DEF Fine, Sound
  <2>2. Fine(told)
    BY <1>1, <1>4, <1>6 DEF Fine, Sound
  <2> QED
    BY <1>6, <2>1, <2>2 DEF LooksUp
<1>8. Abandoned = IF task.kind = "call" /\ task.change THEN told ELSE plain
  BY <1>3, <1>5 DEF Abandoned
<1>9. ASSUME NEW closed \in BOOLEAN
      PROVE  LET error == [Error("transport", {"write"}) EXCEPT !.closed = closed] IN
             Sound(error) /\ error.kind = "transport" /\ error.closed = closed
  <2>1. PICK error : error = [Error("transport", {"write"}) EXCEPT !.closed = closed]
    OBVIOUS
  <2>2. /\ error.kind = "transport" /\ error.message = {"write"} /\ error.hint = {} /\ error.closed = closed
        /\ error.detail.fields = {} /\ error.detail.top = {} /\ DOMAIN error.detail = Parts
    BY <2>1 DEF Error, NoDetail, Parts
  <2>3. Sound(error)
    BY <1>1, <2>2 DEF Sound
  <2> QED
    BY <2>1, <2>2, <2>3
<1>10. Fine(Abandoned) /\ Abandoned.kind = "interrupted" /\ Abandoned.detail.form = "none"
  BY <1>4, <1>6, <1>7, <1>8
<1>11. task.kind = "call" /\ task.change => LooksUp(Abandoned)
  BY <1>7, <1>8
<1> QED
  BY <1>2, <1>9, <1>10, <1>11

\* What is printed of an error hides what the error hides, and leaves out no field that it does not say.
LEMMA PrintedIs ==
    ASSUME NEW error, Sound(error), error.kind # "not executed", NEW format, NEW person
    PROVE  /\ Printed(error, format, person).message = error.message
           /\ Printed(error, format, person).hint = error.hint
           /\ Hides(Printed(error, format, person).fields)
           /\ \A f \in error.detail.fields \cup error.detail.top :
                  \/ f.text \subseteq error.message
                  \/ \E shown \in Printed(error, format, person).fields : shown.key = f.key
<1>1. PICK detail : detail = error.detail
  OBVIOUS
<1>2. DOMAIN detail = Parts /\ \A f \in detail.fields \cup detail.top : Legible(f)
  BY <1>1 DEF Sound
<1>3. PICK clean, top, message, hint : /\ clean = RedactedFields(detail.fields, None) /\ top = RedactedFields(detail.top, None)
                                       /\ message = error.message /\ hint = error.hint
  OBVIOUS
<1>4. /\ Hides(clean) /\ Hides(top)
      /\ \A f \in detail.fields : \E g \in clean : g.key = f.key /\ (f.key \notin SecretKeys => g.text = f.text)
      /\ \A f \in detail.top : \E g \in top : g.key = f.key
  BY <1>2, <1>3, RedactedFieldsAre
<1>5. PICK whole : whole = [message |-> message, hint |-> hint, fields |-> clean \cup top]
  OBVIOUS
<1>6. PICK shown, human : shown = [detail EXCEPT !.fields = clean, !.top = top] /\ human = HumanFields(shown, message)
  OBVIOUS
<1>7. Printed(error, format, person) \in {whole, [whole EXCEPT !.fields = human]}
  <2>1. CASE format # "table"
    BY <1>1, <1>3, <1>5, <2>1 DEF Printed
  <2>2. CASE format = "table" /\ detail.form = "http"
    BY <1>1, <1>3, <1>5, <1>6, <2>2, Zenon DEF Printed
  <2>3. CASE format = "table" /\ detail.form # "http"
    BY <1>1, <1>3, <1>5, <2>3, Zenon DEF Printed
  <2> QED
    BY <2>1, <2>2, <2>3
<1>8. shown.fields = clean /\ shown.top = top
  BY <1>2, <1>6 DEF Parts
<1>9. PICK kept : kept = {f \in clean : ~(f.key = "detail" /\ IsClientError(shown.status) /\ f.text \subseteq message)}
  OBVIOUS
<1>10. human = kept \cup {f \in top : f.key \notin Keys(kept)}
  BY <1>6, <1>8, <1>9 DEF HumanFields
<1>11. Hides(human) /\ Hides(clean \cup top)
  BY <1>4, <1>9, <1>10 DEF Hides
<1>12. ASSUME NEW f \in detail.fields \cup detail.top
       PROVE  /\ \E g \in clean \cup top : g.key = f.key
              /\ f.text \subseteq message \/ \E g \in human : g.key = f.key
  <2>1. CASE f \in detail.fields
    <3>1. PICK g \in clean : g.key = f.key /\ (f.key \notin SecretKeys => g.text = f.text)
      BY <1>4, <2>1
    <3>2. CASE g \in kept
      BY <1>10, <3>1, <3>2
    <3>3. CASE g \notin kept
      <4>1. g.key = "detail" /\ g.text \subseteq message
        BY <1>9, <3>1, <3>3
      <4> QED
        BY <3>1, <4>1, ReasonsAreShown
    <3> QED
      BY <3>1, <3>2, <3>3
  <2>2. CASE f \in detail.top
    <3>1. PICK g \in top : g.key = f.key
      BY <1>4, <2>2
    <3>2. CASE g.key \in Keys(kept)
      BY <1>10, <3>1, <3>2 DEF Keys
    <3>3. CASE g.key \notin Keys(kept)
      BY <1>10, <3>1, <3>3
    <3> QED
      BY <3>1, <3>2, <3>3
  <2> QED
    BY <2>1, <2>2
<1>13. /\ whole.message = message /\ whole.hint = hint /\ whole.fields = clean \cup top
       /\ [whole EXCEPT !.fields = human].message = message /\ [whole EXCEPT !.fields = human].hint = hint
       /\ [whole EXCEPT !.fields = human].fields = human
  BY <1>5
<1>14. CASE Printed(error, format, person) = whole
  BY <1>1, <1>3, <1>11, <1>12, <1>13, <1>14
<1>15. CASE Printed(error, format, person) = [whole EXCEPT !.fields = human]
  BY <1>1, <1>3, <1>11, <1>12, <1>13, <1>15
<1> QED
  BY <1>7, <1>14, <1>15

-----------------------------------------------------------------------------
(* What a command ends with *)

\* An outcome is a sound error, of a closed stdout only if it was closed; a wait has none before it ends.
Outcomes ==
    /\ Sound(outcome) /\ (outcome.closed => pipe = "closed")
    /\ pc \in {"start", "waiting", "write"} => outcome = Done
    /\ Said

\* An error that ends a wait or a command in this step, or success before something is written.
LEMMA OutcomeIs ==
    ASSUME NEW error, Fine(error), outcome' = error, pc' \in {"drop", "say", "ended"},
           pc' = "say" => error.kind # "none"
    PROVE  Outcomes'
BY DEF Outcomes, Said, Fine, Sound

\* An outcome stays while the command goes on to something that it may go on to.
LEMMA OutcomeStays ==
    ASSUME Outcomes, outcome' = outcome, pipe' = pipe \/ pipe = "open",
           pc' = pc \/ pc' \in {"drop", "clear", "ended"} \/ (pc' = "say" /\ outcome.kind # "none")
              \/ (pc' \in {"start", "waiting", "write"} /\ outcome = Done)
    PROVE  Outcomes'
BY DEF Outcomes, Said, Sound

\* What ends a wait for an answer.
Refusal ==
    IF task.auth THEN AuthError(task.response, task.saved)
    ELSE SendError(task.authorization, task.change, task.response)

\* A refusal is a sound error, which says what to look up and which credential was rejected.
LEMMA RefusalIs ==
    ASSUME task \in Tasks, ~Succeeds(task.response)
    PROVE  /\ Fine(Refusal)
           /\ ~task.auth => /\ task.change = TRUE /\ Unanswered(task.response) => LooksUp(Refusal)
                            /\ Refusal.kind \in {"api", "auth"} =>
                                  NamesCredential(task.authorization, task.response, Refusal.hint)
<1>1. PICK response, authorization, change, saved :
         response = task.response /\ authorization = task.authorization /\ change = task.change /\ saved = task.saved
  OBVIOUS
<1>2. /\ response.fields \cup response.top \subseteq Fields
      /\ response.body # "json" => response.type = "none"
      /\ authorization.by \in {"key", "token", "session", "stream"}
  BY <1>1, AnswersAreText DEF Fields
<1>3. authorization.sources # Secret /\ (task.auth /\ Secret \in response.reason => FreeText \in response.reason)
  BY <1>1, SecretsAreNoWords
<1>4. CASE task.auth
  <2>1. Fine(AuthError(response, saved))
    BY <1>3, <1>4, AuthErrorIs
  <2> QED
    BY <1>1, <1>4, <2>1 DEF Refusal
<1>5. CASE ~task.auth
  <2>1. ~Succeeds(response)
    BY <1>1
  <2>2. /\ Fine(SendError(authorization, change, response))
        /\ change = TRUE /\ Unanswered(response) => LooksUp(SendError(authorization, change, response))
        /\ SendError(authorization, change, response).kind \in {"api", "auth"} =>
              NamesCredential(authorization, response, SendError(authorization, change, response).hint)
    BY <1>2, <1>3, <2>1, SendErrorIs
  <2>3. Refusal = SendError(authorization, change, response)
    BY <1>1, <1>5 DEF Refusal
  <2> QED
    BY <1>1, <1>5, <2>2, <2>3
<1> QED
  BY <1>4, <1>5

\* A prompt that was read.
LEMMA MeaningIs ==
    ASSUME NEW read
    PROVE  Fine(Meaning(read))
<1>1. Fine(Done)
  BY EndingsAreFine
<1>2. {{"interrupted"}, {"too long"}, {"terminal"}} \subseteq SUBSET Wordings
  BY DEF Wordings
<1>3. Fine(Interrupted)
  BY <1>2, PlainIsFine DEF Interrupted
<1>4. Fine(Error("usage", {"too long"})) /\ Fine(Error("transport", {"terminal"}))
  BY <1>2, PlainIsFine
<1> QED
  BY <1>1, <1>3, <1>4 DEF Meaning

\* Every outcome of a command is a sound error, or success.
LEMMA OutcomesKept ==
    ASSUME Outcomes, Streamed, Inv, [Next]_vars
    PROVE  Outcomes'
<1>1. task \in Tasks
  BY DEF Inv, Records
<1>2. {{"terminal"}, {"disconnected"}, {"HTTP"}, {"write"}} \subseteq SUBSET Wordings
  BY DEF Wordings
<1>3. /\ Fine(Error("transport", {"terminal"})) /\ Fine(Error("transport", {"disconnected"}))
      /\ Fine(Error("transport", {"write"})) /\ Fine(Error("api", {"HTTP"}))
  BY <1>2, PlainIsFine
<1>4. Fine(Done) /\ Done.kind = "none" /\ Fine(Abandoned)
  BY EndingsAreFine
<1> USE DEF wait, input, display, output, end, WaitEnds
<1>5. CASE StartStatus \/ StartPick \/ StartLive \/ StartShow
  <2>1. pc = "start" /\ outcome' = outcome /\ pipe' = pipe /\ pc' \in {"waiting", "write"}
    BY <1>5 DEF StartStatus, StartPick, StartLive, StartShow
  <2>2. outcome = Done
    BY <2>1 DEF Outcomes
  <2> QED
    BY <2>1, <2>2, OutcomeStays
<1>6. CASE StartHidden
  <2>1. CASE outcome' = outcome /\ pc' = "waiting" /\ pc = "start" /\ pipe' = pipe
    BY <2>1, OutcomeStays DEF Outcomes
  <2>2. CASE EndWith(Error("transport", {"terminal"}))
    <3>1. outcome' = Error("transport", {"terminal"}) /\ pc' = "ended"
      BY <2>2 DEF EndWith
    <3> QED
      BY <1>3, <3>1, OutcomeIs
  <2> QED
    BY <1>6, <2>1, <2>2 DEF StartHidden
<1>7. CASE Answer
  <2>1. pc' = "drop" /\ outcome' = IF Succeeds(task.response) THEN Done ELSE Refusal
    BY <1>7 DEF Answer, Refusal
  <2>2. Fine(IF Succeeds(task.response) THEN Done ELSE Refusal)
    BY <1>1, <1>4, RefusalIs
  <2> QED
    BY <2>1, <2>2, OutcomeIs
<1>8. CASE Open
  <2>1. pc' = "drop" /\ outcome' = OpenError(task.response)
    BY <1>8 DEF Open
  <2> QED
    BY <2>1, OpenErrorIs, OutcomeIs
<1>9. CASE Receive \/ Close
  <2>1. pc' = "drop" /\ outcome' \in {Done, Error("transport", {"disconnected"})}
    BY <1>9 DEF Receive, Close
  <2> QED
    BY <1>3, <1>4, <2>1, OutcomeIs
<1>10. CASE Prompt
  <2>1. pc' = "drop" /\ outcome' = Meaning(reader)
    BY <1>10 DEF Prompt
  <2> QED
    BY <2>1, MeaningIs, OutcomeIs
<1>11. CASE StopLive
  <2>1. pc' = "drop" /\ outcome' = Error("api", {"HTTP"})
    BY <1>11 DEF StopLive
  <2> QED
    BY <1>3, <2>1, OutcomeIs
<1>12. CASE Interrupt
  <2>1. pc' = "drop" /\ outcome' = Abandoned
    BY <1>12 DEF Interrupt, Abandoned
  <2> QED
    BY <1>4, <2>1, OutcomeIs
<1>13. CASE Drop
  <2>1. outcome' = outcome /\ pipe' = pipe /\ pc' = "clear"
    BY <1>13 DEF Drop
  <2> QED
    BY <2>1, OutcomeStays
<1>14. CASE Clear
  <2>1. outcome' = outcome /\ pipe' = pipe /\ pc' = IF outcome.kind = "none" THEN "write" ELSE "say"
    BY <1>14 DEF Clear
  <2>2. outcome.kind = "none" => outcome = Done
    BY DEF Outcomes, Sound
  <2> QED
    BY <2>1, <2>2, OutcomeStays
<1>15. CASE Say
  <2>1. outcome' = outcome /\ pipe' = pipe /\ pc' = "ended"
    BY <1>15 DEF Say, EndWith
  <2> QED
    BY <2>1, OutcomeStays
<1>16. CASE Again
  <2>1. outcome' = outcome /\ pipe' = pipe /\ pc' = "ended"
    BY <1>16 DEF Again
  <2> QED
    BY <2>1, OutcomeStays
<1>17. CASE WriteFile
  <2>1. pipe' = pipe /\ ((outcome' = outcome /\ pc' = pc) \/ (pc' = "drop" /\ outcome' = Error("transport", {"write"})))
    BY <1>17 DEF WriteFile
  <2> QED
    BY <1>3, <2>1, OutcomeIs, OutcomeStays
<1>18. CASE WriteStdout
  <2>1. PICK closed \in BOOLEAN : closed = (pipe = "closed")
    OBVIOUS
  <2>2. /\ pipe' = pipe
        /\ \/ outcome' = outcome /\ pc' = pc
           \/ pc' = "drop" /\ outcome' = [Error("transport", {"write"}) EXCEPT !.closed = closed]
    BY <1>18, <2>1, Zenon DEF WriteStdout
  <2>3. CASE outcome' = outcome /\ pc' = pc
    BY <2>2, <2>3, OutcomeStays
  <2>4. CASE pc' = "drop" /\ outcome' = [Error("transport", {"write"}) EXCEPT !.closed = closed]
    <3>1. PICK error : error = [Error("transport", {"write"}) EXCEPT !.closed = closed]
      OBVIOUS
    <3>2. Sound(error) /\ error.kind = "transport" /\ error.closed = closed
      BY <3>1, EndingsAreFine
    <3>3. outcome' = error /\ (error.closed => pipe' = "closed")
      BY <2>1, <2>2, <2>4, <3>1, <3>2
    <3> QED
      BY <2>4, <3>2, <3>3 DEF Outcomes, Said, Sound
  <2> QED
    BY <2>2, <2>3, <2>4
<1>19. CASE Written
  <2>1. pc = "write" /\ pipe' = pipe /\ outcome = Done
    BY <1>19 DEF Written, Outcomes
  <2>2. CASE pc' \in {"waiting", "start"} /\ outcome' = outcome
    BY <2>1, <2>2, OutcomeStays
  <2>3. CASE EndWith(Done)
    <3>1. pc' = "ended" /\ outcome' = Done
      BY <2>3 DEF EndWith
    <3> QED
      BY <1>4, <3>1, OutcomeIs
  <2>4. CASE stream.error # "none" /\ pc' = "say" /\ outcome' = Error("transport", {stream.error})
    <3>1. PICK message \in SUBSET Wordings : message = {stream.error} /\ message # {}
      <4>1. {stream.error} \in SUBSET Wordings
        BY <2>4 DEF Streamed, Stops, Wordings
      <4> QED
        BY <4>1
    <3>2. Fine(Error("transport", message)) /\ Error("transport", message).kind # "none"
      BY PlainIsFine, ErrorIs, <3>1
    <3> QED
      BY <2>4, <3>1, <3>2, OutcomeIs
  <2> QED
    BY <1>19, <2>2, <2>3, <2>4, Zenon DEF Written
<1>20. CASE Reader \/ Redraw \/ Outside
  <2>1. UNCHANGED <<pc, outcome>> /\ (pipe' = pipe \/ pipe = "open")
    BY <1>20 DEF Reader, Redraw, Outside, Read, Flush, Settle, BeginPicking, EndPicking, NextFrame, CheckFrame, PaintFrame, Type, StdoutFails
  <2> QED
    BY <2>1, OutcomeStays
<1>21. CASE UNCHANGED vars
  <2>1. UNCHANGED <<pc, outcome, pipe>>
    BY <1>21 DEF vars
  <2> QED
    BY <2>1, OutcomeStays
<1> QED
  BY <1>5, <1>6, <1>7, <1>8, <1>9, <1>10, <1>11, <1>12, <1>13, <1>14, <1>15, <1>16, <1>17, <1>18, <1>19, <1>20, <1>21
  DEF Next, Main

\* What was reported: nothing before the end, and at the end what the outcome says, or nothing at a
\* second Ctrl-C.
Told ==
    /\ pc # "ended" => report = NoReport
    /\ pc = "ended" /\ outcome.kind = "none" => due = <<>>
    /\ pc = "ended" => \/ report = Report(outcome) /\ exit = ExitOf(outcome)
                       \/ report = NoReport /\ exit = 130 /\ outcome.kind = "interrupted"

\* The command ends with an error, or with all written.
LEMMA EndsTold ==
    ASSUME NEW error, EndWith(error), task' = task, error.kind = "none" => due' = <<>>
    PROVE  Told'
<1>1. pc' = "ended" /\ exit' = ExitOf(error) /\ outcome' = error /\ report' = Report(error)
  BY DEF EndWith
<1>2. Report(outcome)' = Report(error)
  BY <1>1 DEF Report
<1>3. ExitOf(outcome)' = ExitOf(error)
  BY <1>1 DEF ExitOf
<1> QED
  BY <1>1, <1>2, <1>3 DEF Told

\* The command goes on.
LEMMA OnTold ==
    ASSUME Told, pc # "ended", pc' # "ended", report' = report
    PROVE  Told'
BY DEF Told

\* Nothing of the end changes.
LEMMA SameTold ==
    ASSUME Told, UNCHANGED <<pc, task, outcome, due, report, exit>>
    PROVE  Told'
BY DEF Told, Report, ExitOf

\* Every command that ends says what its outcome is.
LEMMA ToldKept ==
    ASSUME Told, Outcomes, [Next]_vars
    PROVE  Told'
<1>1. Done.kind = "none"
  BY EndingsAreFine
<1> USE DEF wait, input, display, output, end, WaitEnds
<1>2. CASE StartStatus \/ StartPick \/ StartLive \/ StartShow \/ Answer \/ Open \/ Receive \/ Close \/ Prompt
              \/ StopLive \/ Interrupt \/ Drop
  <2>1. pc # "ended" /\ pc' # "ended" /\ report' = report
    BY <1>2 DEF StartStatus, StartPick, StartLive, StartShow, Answer, Open, Receive, Close, Prompt, StopLive, Interrupt, Drop
  <2> QED
    BY <2>1, OnTold
<1>3. CASE Clear
  <2>1. pc # "ended" /\ pc' # "ended" /\ report' = report
    BY <1>3 DEF Clear
  <2> QED
    BY <2>1, OnTold
<1>4. CASE WriteFile \/ WriteStdout
  <2>1. pc # "ended" /\ pc' # "ended" /\ report' = report
    BY <1>4, WritesAre
  <2> QED
    BY <2>1, OnTold
<1>5. CASE StartHidden
  <2>1. CASE pc' = "waiting" /\ report' = report /\ pc = "start"
    BY <2>1, OnTold
  <2>2. CASE EndWith(Error("transport", {"terminal"})) /\ task' = task
    BY <2>2, EndsTold, ErrorIs
  <2> QED
    BY <1>5, <2>1, <2>2, Zenon DEF StartHidden
<1>6. CASE Say
  <2>1. outcome.kind # "none" /\ EndWith(outcome) /\ task' = task
    BY <1>6 DEF Say, Outcomes, Said
  <2> QED
    BY <2>1, EndsTold
<1>7. CASE Again
  <2>1. /\ pc = "say" /\ pc' = "ended" /\ exit' = 130 /\ outcome' = outcome /\ report' = report
        /\ outcome.kind = "interrupted"
    BY <1>7 DEF Again
  <2> QED
    BY <2>1 DEF Told
<1>8. CASE Written
  <2>1. pc = "write" /\ due' = <<>> /\ task' = task
    BY <1>8 DEF Written
  <2>2. CASE pc' # "ended" /\ report' = report
    BY <2>1, <2>2, OnTold
  <2>3. CASE EndWith(Done)
    BY <2>1, <2>3, EndsTold
  <2> QED
    BY <1>8, <2>2, <2>3 DEF Written
<1>9. CASE Reader \/ Redraw
  <2>1. UNCHANGED <<pc, task, outcome, due, report, exit>>
    BY <1>9 DEF Reader, Redraw, Read, Flush, Settle, BeginPicking, EndPicking, NextFrame, CheckFrame, PaintFrame
  <2> QED
    BY <2>1, SameTold
<1>10. CASE Outside \/ UNCHANGED vars
  <2>1. UNCHANGED <<pc, task, outcome, due, report, exit>>
    BY <1>10 DEF Outside, Type, StdoutFails, vars
  <2> QED
    BY <2>1, SameTold
<1> QED
  BY <1>2, <1>3, <1>4, <1>5, <1>6, <1>7, <1>8, <1>9, <1>10 DEF Next, Main

-----------------------------------------------------------------------------
(* What a request of a service brings *)

\* The result of a request.
Answered(response) == [fields |-> response.fields]

\* A command that calls a service ends with success, with what refused it, with Ctrl-C, or because
\* its result could not be written; and it writes nothing but that result.
Called ==
    /\ task.to.file => stdout = <<>>
    /\ task.kind = "call" =>
          /\ \/ outcome \in {Done, Abandoned}
             \/ outcome = Refusal /\ ~Succeeds(task.response)
             \/ outcome.kind = "transport" /\ Succeeds(task.response)
          /\ due = <<>> \/ (due = <<Answered(task.response)>> /\ Succeeds(task.response))
          /\ stdout = <<>> \/ stdout = <<ToStdout(Answered(task.response))>>
          /\ stdout # <<>> => due = <<>>
          /\ pc \in {"start", "waiting"} => due = <<>> /\ stdout = <<>>

\* A command that does not call a service, or that writes nothing in this step.
LEMMA CalledStays ==
    ASSUME Called, task' = task, stdout' = stdout,
           task.kind = "call" =>
              /\ outcome' = outcome \/ outcome' \in {Done, Abandoned}
              /\ due' = due
              /\ pc' \in {"start", "waiting"} => pc \in {"start", "waiting"}
    PROVE  Called'
<1>1. Abandoned' = Abandoned /\ Refusal' = Refusal /\ \A result : ToStdout(result)' = ToStdout(result)
  BY DEF Abandoned, Refusal, ToStdout
<1> QED
  BY <1>1 DEF Called

\* What is called, and what is written of it.
LEMMA CalledKept ==
    ASSUME Called, Outcomes, Inv, [Next]_vars
    PROVE  Called'
<1> USE DEF wait, input, display, output, end, WaitEnds
<1>1. /\ stream.open # "no" => task.kind # "call"
      /\ task.kind \notin Prompts => reader = "off"
  BY DEF Inv, Roles
<1>2. CASE StartStatus
  BY <1>2, CalledStays DEF StartStatus
<1>3. CASE \/ StartHidden \/ StartPick \/ StartLive \/ StartShow
           \/ Open \/ Receive \/ Close \/ Prompt \/ StopLive
  <2>1. task' = task /\ stdout' = stdout /\ task.kind # "call"
    BY <1>1, <1>3 DEF StartHidden, StartPick, StartLive, StartShow, Open, Receive, Close, Prompt, StopLive, Waits, Statuses, Prompts
  <2> QED
    BY <2>1, CalledStays
<1>4. CASE Answer
  <2>1. /\ task' = task /\ stdout' = stdout /\ task.kind = "call" /\ pc = "waiting" /\ pc' = "drop"
        /\ outcome' = IF Succeeds(task.response) THEN Done ELSE Refusal
        /\ due' = IF Succeeds(task.response) THEN <<Answered(task.response)>> ELSE <<>>
    BY <1>4 DEF Answer, Refusal, Answered
  <2>2. stdout' = <<>>
    BY <2>1 DEF Called
  <2>3. Refusal' = Refusal
    BY <2>1 DEF Refusal
  <2>4. CASE Succeeds(task.response)
    BY <2>1, <2>2, <2>4 DEF Called
  <2>5. CASE ~Succeeds(task.response)
    BY <2>1, <2>2, <2>3, <2>5 DEF Called
  <2> QED
    BY <2>4, <2>5
<1>5. CASE Interrupt
  <2>1. task' = task /\ stdout' = stdout /\ outcome' = Abandoned /\ due' = due /\ pc' = "drop"
    BY <1>5 DEF Interrupt, Abandoned
  <2> QED
    BY <2>1, CalledStays
<1>6. CASE Drop \/ Clear \/ Say \/ Again
  <2>1. task' = task /\ stdout' = stdout /\ outcome' = outcome /\ due' = due /\ pc' \notin {"start", "waiting"}
    BY <1>6 DEF Drop, Clear, Say, Again, EndWith
  <2> QED
    BY <2>1, CalledStays
<1>7. CASE WriteFile \/ WriteStdout
  <2>1. /\ pc = "write" /\ due # <<>> /\ task' = task /\ (task.to.file => stdout' = stdout)
        /\ \/ /\ due' = due /\ stdout' = stdout /\ pc' = "drop" /\ outcome'.kind = "transport"
           \/ /\ due' = Tail(due) /\ pc' = pc /\ outcome' = outcome
              /\ ~task.to.file => stdout' = Append(stdout, ToStdout(Head(due)))
    BY <1>7, WritingIs, WritesAre
  <2>2. Abandoned' = Abandoned /\ Refusal' = Refusal /\ \A result : ToStdout(result)' = ToStdout(result)
    BY <2>1 DEF Abandoned, Refusal, ToStdout
  <2>3. CASE task.kind # "call"
    BY <2>1, <2>3 DEF Called
  <2>4. CASE task.kind = "call"
    <3>1. due = <<Answered(task.response)>> /\ Succeeds(task.response) /\ stdout = <<>>
      BY <2>1, <2>4 DEF Called
    <3>2. CASE due' = due /\ stdout' = stdout /\ pc' = "drop" /\ outcome'.kind = "transport"
      BY <2>1, <2>4, <3>1, <3>2 DEF Called
    <3>3. CASE /\ due' = Tail(due) /\ pc' = pc /\ outcome' = outcome
               /\ ~task.to.file => stdout' = Append(stdout, ToStdout(Head(due)))
      <4>1. due' = <<>> /\ Head(due) = Answered(task.response)
        BY <3>1, <3>3
      <4>2. task.to.file => stdout' = <<>>
        BY <2>1, <3>1
      <4>3. ~task.to.file => stdout' = <<ToStdout(Answered(task.response))>>
        BY <3>1, <3>3, <4>1
      <4>4. \/ outcome \in {Done, Abandoned}
            \/ outcome = Refusal /\ ~Succeeds(task.response)
            \/ outcome.kind = "transport" /\ Succeeds(task.response)
        BY <2>4 DEF Called
      <4> QED
        BY <2>1, <2>2, <2>4, <3>3, <4>1, <4>2, <4>3, <4>4 DEF Called
    <3> QED
      BY <2>1, <3>2, <3>3
  <2> QED
    BY <2>3, <2>4
<1>8. CASE Written
  <2>1. /\ task' = task /\ stdout' = stdout /\ due' = due
        /\ task.kind = "call" => outcome' = Done /\ pc' = "ended"
    BY <1>8 DEF Written, EndWith
  <2> QED
    BY <2>1, CalledStays
<1>9. CASE Reader \/ Redraw
  <2>1. UNCHANGED <<pc, task, outcome, due, stdout>>
    BY <1>9 DEF Reader, Redraw, Read, Flush, Settle, BeginPicking, EndPicking, NextFrame, CheckFrame, PaintFrame
  <2> QED
    BY <2>1, CalledStays
<1>10. CASE Outside \/ UNCHANGED vars
  <2>1. UNCHANGED <<pc, task, outcome, due, stdout>>
    BY <1>10 DEF Outside, Type, StdoutFails, vars
  <2> QED
    BY <2>1, CalledStays
<1> QED
  BY <1>2, <1>3, <1>4, <1>5, <1>6, <1>7, <1>8, <1>9, <1>10 DEF Next, Main

-----------------------------------------------------------------------------
(* The story *)

\* The inductive invariant of StoryIsTrue: the terminal's, the stream's, what the outcome is, what is
\* reported of it, and what a request of a service brings.
Story == Inv /\ Streamed /\ Outcomes /\ Told /\ Called

\* It begins,
LEMMA StoryBegins == Init => Story
<1>1. SUFFICES ASSUME Init PROVE Story
  OBVIOUS
<1>2. Inv /\ Streamed
  BY <1>1, Starts, StreamedInit
<1>3. Fine(Done) /\ Done.kind = "none"
  BY EndingsAreFine
<1>4. outcome = Done /\ pc = "start" /\ report = NoReport /\ due = <<>> /\ stdout = <<>>
  BY <1>1 DEF Init
<1>5. Outcomes
  BY <1>3, <1>4 DEF Outcomes, Said, Fine
<1>6. Told /\ Called
  BY <1>4 DEF Told, Called
<1> QED
  BY <1>2, <1>5, <1>6 DEF Story

\* and goes on.
LEMMA StoryGoesOn == Story /\ [Next]_vars => Story'
<1>1. SUFFICES ASSUME Story, [Next]_vars PROVE Story'
  OBVIOUS
<1>2. Inv /\ Streamed /\ Outcomes /\ Told /\ Called
  BY <1>1 DEF Story
<1>3. Inv'
  BY <1>1, <1>2, Keeps
<1>4. Streamed'
  BY <1>1, <1>2, StreamedKept DEF Outcomes
<1>5. Outcomes'
  BY <1>1, <1>2, OutcomesKept
<1>6. Told'
  BY <1>1, <1>2, ToldKept
<1>7. Called'
  BY <1>1, <1>2, CalledKept
<1> QED
  BY <1>3, <1>4, <1>5, <1>6, <1>7 DEF Story

\* What is reported is what the outcome says.
LEMMA ReportSays ==
    ASSUME Story, report # NoReport
    PROVE  /\ pc = "ended" /\ outcome.kind # "none" /\ ~outcome.closed /\ exit = ExitOf(outcome)
           /\ report.message = outcome.message /\ report.hint = outcome.hint /\ Hides(report.fields)
           /\ \A f \in outcome.detail.fields \cup outcome.detail.top :
                  f.text \subseteq report.message \/ \E shown \in report.fields : shown.key = f.key
<1>1. pc = "ended" /\ report = Report(outcome) /\ exit = ExitOf(outcome)
  BY DEF Story, Told
<1>2. /\ outcome.kind # "none" /\ ~outcome.closed
      /\ Report(outcome) = Printed(outcome, task.to.format, task.to.person)
  BY <1>1, Zenon DEF Report
<1>3. Sound(outcome) /\ outcome.kind # "not executed"
  BY DEF Story, Outcomes, Inv, TypeOK
<1>4. PICK error, format, person : error = outcome /\ format = task.to.format /\ person = task.to.person
  OBVIOUS
<1>5. Sound(error) /\ error.kind # "not executed" /\ report = Printed(error, format, person)
  BY <1>1, <1>2, <1>3, <1>4
<1>6. /\ Printed(error, format, person).message = error.message
      /\ Printed(error, format, person).hint = error.hint
      /\ Hides(Printed(error, format, person).fields)
      /\ \A f \in error.detail.fields \cup error.detail.top :
             \/ f.text \subseteq error.message
             \/ \E shown \in Printed(error, format, person).fields : shown.key = f.key
  BY <1>5, PrintedIs
<1> QED
  BY <1>1, <1>2, <1>4, <1>5, <1>6

\* The exit code of an error.
LEMMA ErrorExits ==
    ASSUME Story, pc = "ended"
    PROVE  /\ exit = 0 => (due = <<>> /\ outcome = Done) \/ pipe = "closed"
           /\ exit \notin {0, 130} => report # NoReport
           /\ report # NoReport => exit # 0
<1>1. /\ \/ report = Report(outcome) /\ exit = ExitOf(outcome)
         \/ report = NoReport /\ exit = 130 /\ outcome.kind = "interrupted"
      /\ outcome.kind = "none" => due = <<>> /\ outcome = Done
      /\ outcome.closed => pipe = "closed"
      /\ outcome.kind # "none" => outcome.message # {}
  BY DEF Story, Told, Outcomes, Sound
<1>2. outcome.kind \in {"none", "api", "usage", "auth", "transport", "interrupted"}
  BY DEF Story, Inv, TypeOK
<1>3. /\ outcome.kind # "none" => ExitCode(outcome.kind) # 0
      /\ outcome.kind = "interrupted" => ExitCode(outcome.kind) = 130
  <2>1. \A kind : kind \in {"none", "api", "usage", "auth", "transport", "interrupted"} /\ kind # "none" =>
          ExitCode(kind) \in {1, 2, 3, 4, 130}
    BY DEF ExitCode
  <2>2. \A kind : kind = "interrupted" => ExitCode(kind) = 130
    BY DEF ExitCode
  <2> QED
    BY <1>2, <2>1, <2>2
<1>4. /\ ExitOf(outcome) = 0 => outcome.closed \/ outcome.kind = "none"
      /\ outcome.closed \/ outcome.kind = "none" => ExitOf(outcome) = 0
      /\ ~(outcome.closed \/ outcome.kind = "none") => ExitOf(outcome) = ExitCode(outcome.kind)
  BY <1>3 DEF ExitOf
<1>5. exit = 0 => (due = <<>> /\ outcome = Done) \/ pipe = "closed"
  BY <1>1, <1>4
<1>6. report # NoReport => exit # 0
  BY <1>3, <1>4, ReportSays
<1>7. ASSUME exit \notin {0, 130} PROVE report # NoReport
  <2>1. report = Report(outcome) /\ exit = ExitOf(outcome)
    BY <1>1, <1>7
  <2>2. ~outcome.closed /\ outcome.kind # "none" /\ outcome.kind # "interrupted"
    BY <1>3, <1>4, <1>7, <2>1
  <2>3. report = Printed(outcome, task.to.format, task.to.person)
    BY <2>1, <2>2, Zenon DEF Report
  <2>4. PICK error, format, person : error = outcome /\ format = task.to.format /\ person = task.to.person
    OBVIOUS
  <2>5. Sound(error) /\ error.kind # "not executed"
    BY <1>2, <2>4 DEF Story, Outcomes
  <2>6. Printed(error, format, person).message = error.message
    BY <2>5, PrintedIs
  <2>7. report.message # {}
    BY <1>1, <2>2, <2>3, <2>4, <2>6
  <2> QED
    BY <2>7 DEF NoReport
<1> QED
  BY <1>5, <1>6, <1>7

\* No secret is told: what is reported is redacted, and so is what is written unless it is to be shown.
LEMMA SecretsHidden == Story => SecretsStayHidden
<1>1. SUFFICES ASSUME Story PROVE SecretsStayHidden
  OBVIOUS
<1>2. Secret \notin report.message \cup report.hint /\ Hides(report.fields)
  <2>1. CASE report = NoReport
    BY <2>1 DEF NoReport, Hides
  <2>2. CASE report # NoReport
    BY <1>1, <2>2, ReportSays DEF Story, Outcomes, Sound
  <2> QED
    BY <2>1, <2>2
<1>3. ASSUME ~task.to.show, task.kind = "call", NEW i \in DOMAIN stdout
      PROVE  Hides(stdout[i].fields)
  <2>1. PICK result : result = Answered(task.response)
    OBVIOUS
  <2>2. result.fields = task.response.fields /\ task.response.fields \subseteq Fields
    BY <1>1, <2>1, AnswersAreText DEF Answered, Fields, Story, Inv, Records
  <2>3. PICK fields : fields = RedactedFields(task.response.fields, Secret) /\ Hides(fields)
    BY <2>2, RedactedFieldsAre
  <2>4. ToStdout(result) = [result EXCEPT !.fields = RedactedFields(result.fields, Secret)]
    BY <1>3, <2>1 DEF ToStdout, Answered
  <2>5. ToStdout(result).fields = fields
    BY <2>1, <2>2, <2>3, <2>4 DEF Answered
  <2>6. stdout[i] = ToStdout(result)
    BY <1>1, <1>3, <2>1 DEF Story, Called
  <2> QED
    BY <2>3, <2>5, <2>6
<1>4. ASSUME ~task.to.show, task.kind = "stream", NEW i \in DOMAIN stdout, NEW j \in DOMAIN stdout[i].data
      PROVE  stdout[i].data[j].value # Secret
  <2>1. PICK told \in Seq(Events) : Delivered = Shows(told)
    BY <1>1, <1>4 DEF Story, Streamed, Sending, Heeded
  <2>2. ~task.to.file
    BY <1>1, <1>4 DEF Story, Called
  <2>3. stdout = Shows(told) /\ i \in DOMAIN told /\ stdout[i] = ToStdout(told[i])
    BY <1>4, <2>1, <2>2 DEF Delivered, Shows
  <2>4. PICK event \in Events : event = told[i]
    BY <2>3
  <2>5. ToStdout(event) = RedactedEvent(event)
    BY <1>4 DEF ToStdout
  <2>6. PICK clean : clean = [k \in DOMAIN event.data |->
           IF event.data[k].value = Secret THEN [event.data[k] EXCEPT !.value = Redacted] ELSE event.data[k]]
    OBVIOUS
  <2>7. RedactedEvent(event).data = clean
    BY <2>6 DEF RedactedEvent, Events
  <2>8. stdout[i].data = clean /\ j \in DOMAIN event.data
    BY <1>4, <2>3, <2>4, <2>5, <2>6, <2>7
  <2>9. PICK line \in SentLine : line = event.data[j]
    BY <2>8 DEF Events
  <2>10. clean[j] = IF line.value = Secret THEN [line EXCEPT !.value = Redacted] ELSE line
    BY <2>6, <2>8, <2>9
  <2>11. [line EXCEPT !.value = Redacted].value = Redacted
    BY DEF SentLine, Blank
  <2>12. Secret # Redacted
    BY SecretsAreNoWords DEF Wordings
  <2> QED
    BY <2>8, <2>10, <2>11, <2>12
<1> QED
  BY <1>2, <1>3, <1>4 DEF SecretsStayHidden

\* What is said of a change without an answer, and of a rejected credential.
LEMMA CallsAreTold == Story => WritesAreLookedUp /\ CredentialIsNamed
<1>1. SUFFICES ASSUME Story PROVE WritesAreLookedUp /\ CredentialIsNamed
  OBVIOUS
<1>2. /\ Done.kind = "none" /\ Abandoned.kind = "interrupted"
      /\ task.kind = "call" /\ task.change => LooksUp(Abandoned)
  BY EndingsAreFine
<1>3. task \in Tasks
  BY <1>1 DEF Story, Inv, Records
<1>4. task.kind = "call" =>
         \/ outcome \in {Done, Abandoned}
         \/ outcome = Refusal /\ ~Succeeds(task.response)
         \/ outcome.kind = "transport" /\ Succeeds(task.response)
  BY <1>1 DEF Story, Called
<1>5. ASSUME task.kind = "call", task.change, ~task.auth, outcome # Done, report # NoReport,
             outcome.kind = "interrupted" \/ Unanswered(task.response)
      PROVE  LooksUp(report)
  <2>1. report.message = outcome.message /\ report.hint = outcome.hint
    BY <1>1, <1>5, ReportSays
  <2>2. LooksUp(outcome)
    <3>1. CASE outcome = Abandoned
      BY <1>2, <1>5, <3>1
    <3>2. CASE outcome = Refusal /\ ~Succeeds(task.response)
      <4>1. outcome.kind # "interrupted"
        BY <1>5, <3>2, KindsOfErrors DEF Refusal
      <4> QED
        BY <1>3, <1>5, <3>2, <4>1, RefusalIs
    <3>3. CASE outcome.kind = "transport" /\ Succeeds(task.response)
      BY <1>5, <3>3 DEF Unanswered, Succeeds
    <3> QED
      BY <1>4, <1>5, <3>1, <3>2, <3>3
  <2> QED
    BY <2>1, <2>2 DEF LooksUp
<1>6. ASSUME task.kind = "call", ~task.auth, outcome.kind \in {"api", "auth"}, pc = "ended"
      PROVE  NamesCredential(task.authorization, task.response, report.hint)
  <2>1. outcome = Refusal /\ ~Succeeds(task.response)
    BY <1>2, <1>4, <1>6
  <2>2. NamesCredential(task.authorization, task.response, outcome.hint)
    BY <1>3, <1>6, <2>1, RefusalIs
  <2>3. report # NoReport
    <3>1. Fine(Refusal)
      BY <1>3, <2>1, RefusalIs
    <3>2. ~outcome.closed /\ outcome.kind # "none" /\ outcome.kind # "interrupted"
      BY <1>6, <2>1, <3>1 DEF Fine
    <3>3. outcome.message # {}
      BY <2>1, <3>1, <3>2 DEF Fine, Sound
    <3>4. exit \notin {0, 130}
      <4>1. exit = ExitOf(outcome)
        BY <1>1, <1>6, <3>2 DEF Story, Told
      <4>2. \A kind \in {"api", "auth"} : ExitCode(kind) \in {1, 3}
        BY DEF ExitCode
      <4>3. ExitOf(outcome) = ExitCode(outcome.kind)
        BY <3>2 DEF ExitOf
      <4> QED
        BY <1>6, <4>1, <4>2, <4>3
    <3> QED
      BY <1>1, <1>6, <3>4, ErrorExits
  <2>4. report.hint = outcome.hint
    BY <1>1, <2>3, ReportSays
  <2> QED
    BY <2>2, <2>4
<1>7. WritesAreLookedUp
  BY <1>5 DEF WritesAreLookedUp, Unanswered, LooksUp
<1>8. CredentialIsNamed
  BY <1>6 DEF CredentialIsNamed, NamesCredential
<1> QED
  BY <1>7, <1>8

\* What the invariant says of the moments that the run looks at.
LEMMA StoryMeansTrue == Story => StoryIsTrue
<1>1. SUFFICES ASSUME Story PROVE StoryIsTrue
  OBVIOUS
<1>2. EventsAreTheStreams /\ RefusedIsLarge
  BY <1>1, EventsTold DEF Story, Streamed, Inv, Records
<1>3. ResultOrReport
  <2>1. ASSUME report # NoReport PROVE report.message # {}
    BY <1>1, <2>1, ReportSays DEF Story, Outcomes, Sound
  <2> QED
    BY <1>1, <2>1, ErrorExits DEF ResultOrReport
<1>4. NothingIsLost
  BY <1>1, ReportSays DEF NothingIsLost
<1> QED
  BY <1>1, <1>2, <1>3, <1>4, CallsAreTold, SecretsHidden DEF StoryIsTrue

\* StoryIsTrue: for any answers, chunks, pipes, files and presses of Ctrl-C, what src/output.rs and
\* src/startup.rs write, report and exit with is one story, and tells no credential, but in the name or
\* the ID of an event, which Envelope::event leaves as they came.
THEOREM StoryTrue == Spec => []StoryIsTrue
<1>1. Init => Story
  BY StoryBegins
<1>2. Story /\ [Next]_vars => Story'
  BY StoryGoesOn
<1>3. Story => StoryIsTrue
  BY StoryMeansTrue
<1> QED
  BY <1>1, <1>2, <1>3, PTL DEF Spec

=============================================================================
