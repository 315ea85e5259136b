---------------------------- MODULE MCSubmission ----------------------------
(* Instances of Submission for TLC. *)
EXTENDS Submission, TLC

CONSTANTS id1, q1, q2

Payment(id, q, wait) ==
    [kind |-> "payment", id |-> id, request |-> q, wait |-> wait, execute |-> TRUE]

Other(kind, wait) ==
    [kind |-> kind, id |-> id1, request |-> q1, wait |-> wait, execute |-> TRUE]

\* Two requests that compete for one ID, with and without a wait, and every other kind.
MCPlans ==
    {Payment(id1, q1, "none"), Payment(id1, q2, "none"), Payment(id1, q1, "completed"),
     Payment(id1, q2, "ready"), Other("create", "none"), Other("wallet", "none"),
     Other("get", "none"), Other("get", "ready"), Other("show", "ready"),
     [Payment(id1, q1, "none") EXCEPT !.execute = FALSE]}

\* Payments that are waited for, another request for their ID, and a command that waits for
\* one without sending it.
MCWaitPlans == {Payment(id1, q1, "completed"), Payment(id1, q2, "none"), Other("get", "completed")}

\* Runs differ only in the plan they are given.
AnyRun == Permutations(Runs)

=============================================================================
