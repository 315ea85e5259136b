---------------------------- MODULE MCPagination ----------------------------
(* Instances of Pagination for TLC. *)
EXTENDS Pagination

View(more, next, count, start, total, limit) ==
    [more |-> more, cursor |-> next, count |-> count, offset |-> start, total |-> total,
     limit |-> limit]

\* Pages of services that repeat a cursor, forget to give one, stand still or never end.
MCAnything ==
    {View(more, next, count, start, None, None) :
        more \in {"yes", "no", None}, next \in {None, 0, 1, 2}, count \in {0, 1, 2},
        start \in {None, 0, 2, 5}}
    \cup {View(None, None, 1, start, total, limit) :
        start \in {None, 1}, total \in {None, 0, 3}, limit \in {None, 1, 2}}

=============================================================================
