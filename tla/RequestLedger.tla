--------------------------- MODULE RequestLedger ---------------------------
(***************************************************************************)
(* What the request journal of the voltage CLI promises, told without      *)
(* processes, files or a network: every resource ID is bound to one        *)
(* request before that request may leave, and the service can only hold a  *)
(* request that left.  Submission is shown to implement this module.       *)
(***************************************************************************)

CONSTANTS
    Ids,        \* resource IDs (payments, treasury movements, wallets)
    Requests,   \* what an ID can be used for: operation, scope and body hash
    NoRequest   \* an ID that is bound to nothing

VARIABLES
    bound,      \* the request each ID is bound to
    sent,       \* the pairs <<id, request>> that may have left a process
    held        \* the request the service accepted under each ID

vars == <<bound, sent, held>>

Init ==
    /\ bound = [id \in Ids |-> NoRequest]
    /\ sent = {}
    /\ held = [id \in Ids |-> NoRequest]

\* A recovery record is written for an ID that has none.
Bind(id, q) ==
    /\ bound[id] = NoRequest
    /\ bound' = [bound EXCEPT ![id] = q]
    /\ UNCHANGED <<sent, held>>

\* Only the request an ID is bound to leaves under that ID.
Send(id, q) ==
    /\ bound[id] = q
    /\ sent' = sent \cup {<<id, q>>}
    /\ UNCHANGED <<bound, held>>

\* The service accepts at most one request per ID, and only one that was sent.
Accept(id, q) ==
    /\ <<id, q>> \in sent
    /\ held[id] = NoRequest
    /\ held' = [held EXCEPT ![id] = q]
    /\ UNCHANGED <<bound, sent>>

Next == \E id \in Ids, q \in Requests: Bind(id, q) \/ Send(id, q) \/ Accept(id, q)

Spec == Init /\ [][Next]_vars

=============================================================================
