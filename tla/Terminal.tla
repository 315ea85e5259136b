------------------------------ MODULE Terminal ------------------------------
(***************************************************************************)
(* What a command does to the terminal (src/terminal.rs, src/progress.rs,   *)
(* src/output.rs): the modes it changes and the guards that put them back,  *)
(* a secret typed at a hidden prompt, and the status line with the task     *)
(* that redraws it.                                                         *)
(***************************************************************************)
EXTENDS Naturals, Sequences, SequencesExt

CONSTANT MaxHidden      \* MAX_HIDDEN_BYTES

ASSUME MaxHiddenIsNatural == MaxHidden \in Nat

\* A terminal as a shell leaves it.  `line` is what stands on the line of the cursor.
Cooked == [raw |-> FALSE, paste |-> FALSE, cursor |-> TRUE, alternate |-> FALSE, line |-> "blank"]

\* RawMode::enable and its drop: crossterm keeps the modes from before.
EnableRaw(t) == [t EXCEPT !.raw = TRUE]
DisableRaw(t) == [t EXCEPT !.raw = FALSE]

\* What inquire does around a prompt.
BeginPick(t) == [t EXCEPT !.raw = TRUE, !.paste = TRUE, !.cursor = FALSE]
EndPick(t) == [t EXCEPT !.raw = FALSE, !.paste = FALSE, !.cursor = TRUE]

DropPickerScreen(t) == [t EXCEPT !.paste = FALSE, !.cursor = TRUE]

\* LiveScreen::enter and its drop.
EnterLive(t) == [t EXCEPT !.alternate = TRUE, !.cursor = FALSE]
LeaveLive(t) == [t EXCEPT !.alternate = FALSE, !.cursor = TRUE]

-----------------------------------------------------------------------------
(* The hidden prompt.  A key is [code, bytes]; "char" adds a character.     *)

KeyPress == [code : {"char", "backspace", "clear", "enter", "ctrl-c", "other"}, bytes : Nat]

Bytes(typed) == FoldLeft(LAMBDA n, key : n + key.bytes, 0, typed)

TooLong(typed, key) == Bytes(typed) + key.bytes > MaxHidden

\* What a key makes of the secret, unless it ends the prompt.
Edited(typed, key) ==
    CASE key.code = "clear" -> <<>>
      [] key.code = "backspace" /\ typed # <<>> -> Front(typed)
      [] key.code = "char" -> Append(typed, key)
      [] OTHER -> typed

\* type_hidden: where the prompt stands after a key.
TypeHidden(typed, key) ==
    CASE key.code = "ctrl-c" -> [hidden |-> "interrupted", typed |-> typed]
      [] key.code = "enter" -> [hidden |-> "entered", typed |-> typed]
      [] key.code = "char" /\ TooLong(typed, key) -> [hidden |-> "too long", typed |-> typed]
      [] OTHER -> [hidden |-> "typing", typed |-> Edited(typed, key)]

-----------------------------------------------------------------------------
(* The status line: the guard of Progress, and the task that redraws it.    *)

NoStatus == [guard |-> FALSE, cleared |-> TRUE, locked |-> FALSE, redraw |-> "off"]

\* Progress::start draws the line, and spawns its redraw when it is animated.
Drawn(animated) ==
    [guard |-> TRUE, cleared |-> FALSE, locked |-> FALSE, redraw |-> IF animated THEN "waiting" ELSE "off"]

\* The interval ticks: the task is on its way to StatusLine::draw.
Tick(s) == [s EXCEPT !.redraw = "drawing"]

\* MUTANT of Checked: a frame is on its way whatever happened meanwhile.
CheckedAnyway(s) == [s EXCEPT !.locked = TRUE, !.redraw = "painting"]

\* draw takes the lock and looks whether the line was cleared.
Checked(s) ==
    IF s.cleared THEN [s EXCEPT !.redraw = IF s.guard THEN "waiting" ELSE "off"]
    ELSE [s EXCEPT !.locked = TRUE, !.redraw = "painting"]

\* The frame is written, and the lock given back.
Painted(s) == [s EXCEPT !.locked = FALSE, !.redraw = IF s.guard THEN "waiting" ELSE "off"]

\* The guard drops: a task that waits for its next frame is aborted, one that draws goes on.
Aborted(s) == [s EXCEPT !.guard = FALSE, !.redraw = IF @ = "waiting" THEN "off" ELSE @]

\* StatusLine::clear, once the lock is free.
Cleared(s) == [s EXCEPT !.cleared = TRUE]

=============================================================================
