------------------------------ MODULE Pagination ------------------------------
(***************************************************************************)
(* `--all` (src/api.rs, write_pages and next_page; src/input.rs): a list   *)
(* is read page by page, by cursor or by offset, while items are added to  *)
(* and removed from it.                                                    *)
(*                                                                         *)
(* Simplifications.  An item is its place in the order of creation, and a  *)
(* list is newest first.  A cursor is the last item of the page before it. *)
(* The service is external: one that pages by cursor, one that pages by    *)
(* offset and says whether there is more or how many items there are, and  *)
(* one that answers anything and keeps no list.                            *)
(***************************************************************************)
EXTENDS Integers, FiniteSets

CONSTANTS
    Endpoints,      \* what is listed
    PageSize,       \* --limit, or the API's default
    MaxItem,        \* bound: items created
    MaxOffset,      \* the largest offset (u64::MAX)
    SaysMore,       \* what a cursor page without a next one may say of has_more
    Anything,       \* pages of a service that answers anything
    None            \* a field that is absent

AllEndpoints == {"cursor", "offset", "deprecated", "any"}

ASSUME EndpointsAreKnown == Endpoints \subseteq AllEndpoints
ASSUME PageHoldsItems == PageSize \in Nat \ {0}
ASSUME BoundsAreNatural == MaxItem \in Nat /\ MaxOffset \in Nat
ASSUME NoneIsNoValue == None \notin Nat \cup {"yes", "no"}

Items == 1..MaxItem
Cursors == Items \cup {0}     \* 0 stands for an empty one
Offsets == 0..MaxOffset

\* PageView
Views == [more: {"yes", "no", None}, cursor: Cursors \cup {None}, count: 0..MaxItem,
          offset: Offsets \cup {None}, total: Nat \cup {None}, limit: Nat \cup {None}]

ASSUME AnythingIsPages == Anything \subseteq Views

VARIABLES
    endpoint,       \* what is listed
    collects,       \* JSON output collects the pages, NDJSON streams them
    stage,          \* asking for a page, or how the command ended
    cursor, offset, \* the query's parameters
    turns,          \* the parameters asked for so far (cursors)
    begun,          \* a page was read
    owed,           \* a page that was read is not written
    items, newest,  \* the service's list
    listed,         \* how often each item was read
    throughout,     \* items that were in the list all the time
    added, removed  \* whether the list changed since the first page

client == <<stage, cursor, offset, turns, begun, owed>>
service == <<items, newest>>
history == <<listed, throughout, added, removed>>
pagingVars == <<endpoint, collects, client, service, history>>

PagingTypeOK ==
    /\ endpoint \in Endpoints /\ collects \in BOOLEAN
    /\ stage \in {"ask", "done", "failed", "stuck", "output"}
    /\ cursor \in Items \cup {None} /\ offset \in Offsets \cup {None}
    /\ turns \subseteq [name: {"cursor"}, value: Items] \cup [name: {"offset"}, value: Offsets]
    /\ begun \in BOOLEAN /\ owed \in BOOLEAN
    /\ items \subseteq Items /\ newest \in 0..MaxItem
    /\ listed \in [Items -> Nat]
    /\ throughout \subseteq items
    /\ added \in BOOLEAN /\ removed \in BOOLEAN

PagingInit ==
    /\ endpoint \in Endpoints /\ collects \in BOOLEAN
    /\ stage = "ask"
    /\ cursor = None /\ offset = None
    /\ turns = {}
    /\ begun = FALSE /\ owed = FALSE
    /\ newest \in IF endpoint = "any" THEN {0} ELSE 0..MaxItem
    /\ items = 1..newest
    /\ listed = [i \in Items |-> 0]
    /\ throughout = items
    /\ added = FALSE /\ removed = FALSE

-----------------------------------------------------------------------------
(* The service *)

\* The first n of a set of items, newest first.
FirstOf(n, S) == {i \in S : Cardinality({j \in S : j > i}) < n}

Oldest(S) == CHOOSE i \in S: \A j \in S: i <= j

\* Items after the cursor.
After == IF cursor = None THEN items ELSE {i \in items : i < cursor}

CursorPage ==
    LET rows == FirstOf(PageSize, After)
        last == rows = After
    IN
    {[rows |-> rows,
      view |-> [more |-> IF last THEN more ELSE "yes",
                cursor |-> IF last THEN None ELSE Oldest(rows),
                count |-> Cardinality(rows), offset |-> 0, total |-> None,
                limit |-> PageSize]] : more \in SaysMore}

\* A page by offset has its place in the list, and the total or whether there is more.
OffsetPage ==
    LET start == IF offset = None THEN 0 ELSE offset
        rows == FirstOf(start + PageSize, items) \ FirstOf(start, items)
        end == start + Cardinality(rows) >= Cardinality(items)
    IN
    {[rows |-> rows,
      view |-> [more |-> IF endpoint = "offset" THEN None ELSE IF end THEN "no" ELSE "yes",
                cursor |-> None, count |-> Cardinality(rows), offset |-> start,
                total |-> Cardinality(items), limit |-> PageSize]]}

Answers ==
    CASE endpoint = "cursor" -> CursorPage
      [] endpoint \in {"offset", "deprecated"} -> OffsetPage
      [] endpoint = "any" -> [rows: {{}}, view: Anything]

\* An item is created.
Add ==
    /\ stage = "ask" /\ endpoint # "any" /\ newest < MaxItem
    /\ newest' = newest + 1
    /\ items' = items \cup {newest'}
    /\ added' = (added \/ begun)
    /\ throughout' = IF begun THEN throughout ELSE items'
    /\ UNCHANGED <<endpoint, collects, client, listed, removed>>

Delete(i) ==
    /\ stage = "ask" /\ endpoint # "any" /\ i \in items
    /\ items' = items \ {i}
    /\ throughout' = throughout \ {i}
    /\ removed' = (removed \/ begun)
    /\ UNCHANGED <<endpoint, collects, client, newest, listed, added>>

-----------------------------------------------------------------------------
(* The command *)

\* pagination_mode: an offset in the query, or --pagination offset.
PagedByOffset == offset # None \/ endpoint = "deprecated"

ByCursor(view) == ~PagedByOffset /\ (view.more # None \/ view.cursor # None)

Turn(name, value) == [name |-> name, value |-> value]
NoTurn == Turn("end", 0)
BadTurn == Turn("error", 0)

\* MUTANT of StartOf: the offset of the page is forgotten.
StartAtZero(view) == 0

StartOf(view) ==
    CASE view.offset # None -> view.offset
      [] view.offset = None /\ offset # None -> offset
      [] OTHER -> 0

\* A page that is the last by its total, or shorter than its limit.
Short(view) ==
    \/ view.total # None /\ StartOf(view) + view.count >= view.total
    \/ view.limit # None /\ view.count < view.limit

\* MUTANT of NextPage: the next offset is one too far.
NextPageSkips(view) ==
    CASE view.more = "no" -> NoTurn
      [] view.more # "no" /\ ByCursor(view) ->
            IF view.cursor \in Items THEN Turn("cursor", view.cursor)
            ELSE IF view.more = "yes" THEN BadTurn ELSE NoTurn
      [] view.more # "no" /\ ~ByCursor(view) ->
            CASE view.count = 0 -> NoTurn
              [] view.count > 0 /\ StartOf(view) + view.count >= MaxOffset -> BadTurn
              [] view.count > 0 /\ StartOf(view) + view.count < MaxOffset ->
                    IF Short(view) THEN NoTurn
                    ELSE Turn("offset", StartOf(view) + view.count + 1)

\* next_page
NextPage(view) ==
    CASE view.more = "no" -> NoTurn
      [] view.more # "no" /\ ByCursor(view) ->
            IF view.cursor \in Items THEN Turn("cursor", view.cursor)
            ELSE IF view.more = "yes" THEN BadTurn ELSE NoTurn
      [] view.more # "no" /\ ~ByCursor(view) ->
            CASE view.count = 0 -> NoTurn
              [] view.count > 0 /\ StartOf(view) + view.count > MaxOffset -> BadTurn
              [] view.count > 0 /\ StartOf(view) + view.count <= MaxOffset ->
                    IF Short(view) THEN NoTurn ELSE Turn("offset", StartOf(view) + view.count)

Stop(how) == stage' = how /\ UNCHANGED <<cursor, offset, turns>>

\* MUTANT of Advance: the parameter is added to the query beside the old one, which comes first.
AdvanceAdds(turn) ==
    /\ turns' = turns \cup {turn}
    /\ cursor' = IF turn.name = "cursor" /\ cursor = None THEN turn.value ELSE cursor
    /\ offset' = IF turn.name = "offset" /\ offset = None THEN turn.value ELSE offset
    /\ UNCHANGED stage

\* Request::advance
Advance(turn) ==
    /\ turns' = turns \cup {turn}
    /\ cursor' = IF turn.name = "cursor" THEN turn.value ELSE cursor
    /\ offset' = IF turn.name = "offset" THEN turn.value ELSE offset
    /\ UNCHANGED stage

\* MUTANT of Follow: a turn may be taken again.
FollowAgain(turn) ==
    /\ turn \notin {NoTurn, BadTurn}
    /\ owed' = (owed \/ collects)
    /\ Advance(turn)

\* The page is written or kept; then the next one is asked for, unless its parameters were
\* used before.
Follow(turn) ==
    /\ turn \notin {NoTurn, BadTurn}
    /\ owed' = (owed \/ collects)
    /\ \/ turn \in turns /\ Stop("stuck")
       \/ turn \notin turns /\ Advance(turn)

\* One turn of write_pages: the answer, the page and the next request.
Turned(answer) ==
    LET turn == NextPage(answer.view) IN
    /\ stage = "ask"
    /\ begun' = TRUE
    /\ listed' = [i \in Items |-> listed[i] + IF i \in answer.rows THEN 1 ELSE 0]
    /\ \/ turn = BadTurn /\ Stop("stuck") /\ owed' = TRUE
       \/ turn = NoTurn /\ Stop("done") /\ owed' = FALSE
       \/ Follow(turn)
       \/ turn # BadTurn /\ (turn = NoTurn \/ ~collects) /\ Stop("output") /\ owed' = TRUE
    /\ UNCHANGED <<endpoint, collects, service, throughout, added, removed>>

\* A request fails, or the deadline passes.
Fail ==
    /\ stage = "ask"
    /\ Stop("failed")
    /\ UNCHANGED <<endpoint, collects, begun, owed, service, history>>

Client == Fail \/ \E answer \in Answers: Turned(answer)

PagingNext == Client \/ Add \/ \E i \in Items: Delete(i)

PagingSpec == PagingInit /\ [][PagingNext]_pagingVars

\* Every request has a limit.
PagingFairSpec == PagingSpec /\ WF_pagingVars(Client)

-----------------------------------------------------------------------------
(* Properties *)

\* A listing that succeeds wrote every page it read and, whatever was added to and removed
\* from the list meanwhile, read every item that was there all the time; by offset, unless
\* items were removed (guides/requests.md: by cursor, "which the API recommends").
Complete ==
    stage = "done" =>
        /\ ~owed
        /\ endpoint # "any" =>
              \A i \in throughout: listed[i] > 0 \/ (endpoint # "cursor" /\ removed)

\* No item is listed twice; by offset, unless items were added.
NoRepeats ==
    endpoint # "any" => \A i \in Items: listed[i] <= 1 \/ (endpoint # "cursor" /\ added)

\* A listing gives up for want of progress only if the service does not page as it says.
StuckOnlyByOthers == stage = "stuck" => endpoint = "any"

\* Against a service that gives finitely many cursors and offsets, each as often as it likes
\* (here those of Anything), the listing ends without --timeout: it never goes on to
\* parameters it was sent to before ("Pagination did not advance").  A service that makes up a
\* fresh cursor for each page is ended by --timeout alone.
PagingEnds == <>(stage # "ask")

=============================================================================
