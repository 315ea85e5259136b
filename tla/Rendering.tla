------------------------------ MODULE Rendering ------------------------------
(***************************************************************************)
(* How a result reads on a terminal (src/output/human.rs, the live frame of *)
(* src/output.rs): which columns of a list fit, the card of a single        *)
(* result, amounts, dates and ages.                                         *)
(*                                                                         *)
(* A cell is its width in columns; a number is the sequence of its digits.  *)
(* comfy-table, which lays out the cells, is external: a column gets at     *)
(* least its narrowest width.                                               *)
(***************************************************************************)
EXTENDS Integers, Sequences, SequencesExt, FiniteSetsExt

CONSTANTS
    COLUMNS,        \* the preferred columns, in order
    Others,         \* the other fields an item may have, in order
    Truncatable,    \* the columns that may be cut
    LabelWidth,     \* of each column
    MaxColumns, MinCell,
    NoticeWidth,    \* of the notice of hidden columns, without their names
    NoLimit         \* a width that limits nothing

ASSUME ColumnsAreLaidOut ==
    /\ COLUMNS \in Seq(STRING) /\ Others \in Seq(STRING)
    /\ \A c \in ToSet(COLUMNS) \cup ToSet(Others) : LabelWidth[c] \in Nat
    /\ MaxColumns \in Nat /\ MinCell \in Nat /\ NoLimit \notin Int

Gap == 2
FrameLines == 7

-----------------------------------------------------------------------------
(* Tables.  An item is [id, cells], cells a function of the fields it has.  *)

HasCells(item) ==
    item.cells \in [DOMAIN item.cells -> Nat] /\ DOMAIN item.cells \subseteq ToSet(COLUMNS) \cup ToSet(Others)

FieldsOf(items) == UNION {DOMAIN items[i].cells : i \in DOMAIN items}

\* Those of some columns that are among the fields, in order.
Take(taken, column) == IF column.carried THEN Append(taken, column.name) ELSE taken
Carried(columns, fields) ==
    FoldLeft(Take, <<>>, [i \in DOMAIN columns |-> [name |-> columns[i], carried |-> columns[i] \in fields]])

\* columns: the preferred ones an item carries, or else the first item's fields.
ColumnsOf(items) ==
    LET preferred == Carried(COLUMNS, FieldsOf(items)) IN
    IF preferred # <<>> \/ items = <<>> THEN preferred ELSE Carried(Others, DOMAIN items[1].cells)

Capped(columns) == SubSeq(columns, 1, Min({MaxColumns, Len(columns)}))

\* A field an item lacks is a dash.
CellWidth(item, column) == IF column \in DOMAIN item.cells THEN item.cells[column] ELSE 1

Widest(items, column) ==
    Max({LabelWidth[column]} \cup {CellWidth(items[i], column) : i \in DOMAIN items})

Narrowest(items, column) ==
    IF column \in Truncatable THEN Min({MinCell, Widest(items, column)}) ELSE Widest(items, column)

\* The width of the first n columns at their narrowest, with the gaps between them.
Spaced(sum, width) == sum + width + Gap
Span(widths, n) == FoldLeft(Spaced, 0, SubSeq(widths, 1, n)) - Gap

\* fitting: how many leading columns fit, the first one always.
Fitting(widths, limit) == Max({1} \cup {n \in 1..Len(widths) : Span(widths, n) <= limit})

\* table: the columns shown, at their narrowest, and those named as hidden.
Table(items, limit) ==
    LET columns == ColumnsOf(items)
        widths == [k \in DOMAIN Capped(columns) |-> Narrowest(items, columns[k])]
        shown == IF widths = <<>> THEN 0
                 ELSE IF limit = NoLimit THEN Len(widths) ELSE Fitting(widths, limit)
    IN  [shown |-> SubSeq(columns, 1, shown), widths |-> SubSeq(widths, 1, shown),
         hidden |-> SubSeq(columns, shown + 1, Len(columns)),
         wider |-> shown < Len(widths)]

-----------------------------------------------------------------------------
(* Output::live_frame, of a page on a screen of some rows *)

\* MUTANT of Kept: the lines around the table are not counted.
KeptOfAll(items, height) == SubSeq(items, 1, Min({height, Len(items)}))

\* watch::first, of the rows a frame has room for.
Kept(items, height) ==
    SubSeq(items, 1, Min({IF height > FrameLines THEN height - FrameLines ELSE 0, Len(items)}))

\* The lines of the table: its header, if items have columns, its rows, what is hidden, and how many
\* there are.
TableLines(items, table) ==
    (IF ColumnsOf(items) = <<>> THEN <<>> ELSE <<"header">>) \o [i \in DOMAIN items |-> "row"]
        \o (IF table.hidden = <<>> THEN <<>> ELSE <<"hidden">>) \o <<"count">>

\* The line has a marker: the payment of the row is one of `marked`.
Marked(items, marked, line) == line - 1 \in DOMAIN items /\ items[line - 1].id \in marked

Frame(items, limit, height, marked) ==
    LET kept == Kept(items, height)
        lines == TableLines(kept, Table(kept, limit))
    IN  [lines |-> <<"title", "blank">> \o lines \o (IF Len(kept) < Len(items) THEN <<"more">> ELSE <<>>)
                     \o <<"cursor">>,
         marked |-> {i \in DOMAIN lines : Marked(kept, marked, i)}, kept |-> kept]

\* The notice of hidden columns takes more than a line.
NoticeWraps(table, limit) ==
    /\ table.hidden # <<>> /\ limit # NoLimit
    /\ FoldLeft(LAMBDA sum, c : sum + LabelWidth[c] + Gap, NoticeWidth, table.hidden) > limit

-----------------------------------------------------------------------------
(* card: the widths of its lines, or none when it would not fit *)

Inner(lines, title) == Max({lines[i] : i \in DOMAIN lines} \cup {0, title + 2})

CardFits(lines, title, limit) == limit = NoLimit \/ Inner(lines, title) + 4 <= limit

Card(lines, title, limit) ==
    LET inner == Inner(lines, title) IN
    IF ~CardFits(lines, title, limit) THEN <<>>
    ELSE <<3 + title + 1 + (inner - title - 1) + 1>>
           \o [i \in DOMAIN lines |-> 2 + lines[i] + (inner - lines[i]) + 2]
           \o <<1 + (inner + 2) + 1>>

-----------------------------------------------------------------------------
(* amount, friendly *)

Zeros(n) == [i \in 1..n |-> 0]

Padded(digits, n) == IF Len(digits) < n THEN Zeros(n - Len(digits)) \o digits ELSE digits

\* The unit an amount without one is in.
UnitOf(amount) ==
    CASE amount.unit # "none" -> amount.unit
      [] amount.unit = "none" /\ amount.currency = "btc" -> "msats"
      [] amount.unit = "none" /\ amount.currency = "usd" -> "cents"
      [] OTHER -> amount.currency

\* How many digits of an amount are decimals, and the unit it is shown in.
Decimals(unit) == CASE unit = "msats" -> 3 [] unit = "cents" -> 2 [] OTHER -> 0

ShownUnit(unit) == CASE unit = "msats" -> "sats" [] unit = "cents" -> "usd" [] OTHER -> unit

Readable(amount) ==
    LET n == Decimals(UnitOf(amount))
        digits == Padded(amount.digits, n + 1)
    IN  [unit |-> ShownUnit(UnitOf(amount)), negative |-> amount.negative,
         whole |-> SubSeq(digits, 1, Len(digits) - n), fraction |-> SubSeq(digits, Len(digits) - n + 1, Len(digits))]

-----------------------------------------------------------------------------
(* Dates and ages *)

\* Of a year that starts in March.
MarchYear(year, month) == IF month <= 2 THEN year - 1 ELSE year
YearOfEra(year, month) == MarchYear(year, month) % 400

\* days_from_civil.
DaysFromCivil(year, month, day) ==
    LET yoe == YearOfEra(year, month)
        dayOfYear == (153 * ((month + 9) % 12) + 2) \div 5 + day - 1
        dayOfEra == yoe * 365 + yoe \div 4 - yoe \div 100 + dayOfYear
    IN  (MarchYear(year, month) \div 400) * 146097 + dayOfEra - 719468

Minute == 60
Hour == 3600
Day == 86400
Month == 2592000
Year == 31536000

\* The largest unit of an age of a minute or more.
AgeUnit(seconds) ==
    CASE seconds < Hour -> Minute [] seconds \in Hour..(Day - 1) -> Hour [] seconds \in Day..(Month - 1) -> Day
      [] seconds \in Month..(Year - 1) -> Month [] OTHER -> Year

\* relative: a count of a unit, or just now.
Relative(seconds) ==
    IF seconds < Minute THEN [count |-> 0, unit |-> Minute]
    ELSE [count |-> seconds \div AgeUnit(seconds), unit |-> AgeUnit(seconds)]

=============================================================================
