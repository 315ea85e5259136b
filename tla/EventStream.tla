----------------------------- MODULE EventStream -----------------------------
(***************************************************************************)
(* The server-sent events of a checkout stream (src/api.rs): chunks that    *)
(* end anywhere are cut into lines, and lines assembled into events.        *)
(*                                                                         *)
(* A line is a field and its value; its text is sent in pieces, between     *)
(* which a chunk may end: the name of the field, the value as many as its   *)
(* size, and the newline.                                                   *)
(***************************************************************************)
EXTENDS Naturals, Sequences, SequencesExt

CONSTANTS
    MaxPieces,      \* MAX_EVENT_BYTES, for `pending`
    MaxData         \* MAX_EVENT_BYTES, for the data of an event

ASSUME BoundsAreNatural == MaxPieces \in Nat /\ MaxData \in Nat

Newline == 0
Blank == [field |-> "blank", value |-> "", size |-> 0]

\* The pieces a line is sent as: a blank line is its newline.
Pieces(line) ==
    LET text == IF line = Blank THEN 0 ELSE line.size + 1 IN
    [p \in 1..(text + 1) |-> [line |-> line, part |-> IF p > text THEN Newline ELSE p]]

Sent(lines) == FlattenSeq([i \in DOMAIN lines |-> Pieces(lines[i])])

-----------------------------------------------------------------------------
(* EventAssembler *)

NoEvent == [event |-> "", data |-> <<>>, id |-> ""]
Start == [asm |-> NoEvent, events |-> <<>>, error |-> "none"]

Size(data) == FoldLeft(LAMBDA n, d : n + d.size, 0, data)

\* Envelope::event.
Envelope(asm) ==
    [event |-> IF asm.event = "" THEN "message" ELSE asm.event, data |-> asm.data, id |-> asm.id]

\* A blank line ends an event, the ID stays.
Dispatched(asm) == [asm EXCEPT !.event = "", !.data = <<>>]

\* EventAssembler::line, after `state` of the lines before.
Line(state, line) ==
    LET asm == state.asm IN
    CASE line.field = "blank" ->
           [state EXCEPT !.asm = Dispatched(asm),
                         !.events = IF asm.data = <<>> THEN @ ELSE Append(@, Envelope(asm))]
      [] line.field = "event" -> [state EXCEPT !.asm.event = line.value]
      [] line.field = "id" -> [state EXCEPT !.asm.id = line.value]
      [] line.field = "data" ->
           LET data == Append(asm.data, line) IN
           [state EXCEPT !.asm.data = data, !.error = IF Size(data) > MaxData THEN "event too large" ELSE @]
      [] line.field = "invalid" -> [state EXCEPT !.error = "invalid UTF-8"]
      [] OTHER -> state

-----------------------------------------------------------------------------
(* The loop of `stream` *)

\* `pending` is cut at each newline: into the lines that end in it, in order, and what is left.
Cut(cut, piece) ==
    IF piece.part = Newline THEN [lines |-> Append(cut.lines, piece.line), left |-> <<>>]
    ELSE [cut EXCEPT !.left = Append(@, piece)]

CutLines(pending) == FoldLeft(Cut, [lines |-> <<>>, left |-> <<>>], pending)

\* The events of the lines up to the first that fails, which gives the error.
Taken(state, line) == IF state.error = "none" THEN Line(state, line) ELSE state

Assembled(asm, lines) == FoldLeft(Taken, [Start EXCEPT !.asm = asm], lines)

\* One chunk after `pending`: what the stream has next.
Received(stream, chunk) ==
    LET pending == stream.pending \o chunk
        cut == CutLines(pending)
        read == Assembled(stream.asm, cut.lines)
    IN  IF Len(pending) > MaxPieces
        THEN [stream EXCEPT !.error = "line too large", !.events = <<>>]
        ELSE [stream EXCEPT !.pending = cut.left, !.asm = read.asm, !.events = read.events,
                            !.error = read.error]

=============================================================================
