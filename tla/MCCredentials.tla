---------------------------- MODULE MCCredentials ----------------------------
(* Instances of Credentials for TLC. *)
EXTENDS Credentials, TLC

CONSTANTS o1, o2

Plan(kind, origin, store) == [kind |-> kind, origin |-> origin, store |-> store]

\* Every command against one origin, a login with and without a store of its own.
MCPlans ==
    {Plan(kind, o1, "default") : kind \in Kinds} \cup {Plan("login", o1, "file")}

\* A watch, and the commands that move its login to another origin (troubleshooting.md).
MCMovePlans == {Plan("watch", o1, "default"), Plan("logout", o1, "default"),
                Plan("login", o2, "default")}

\* Commands that wait for the lock and make requests while they hold it.
MCLockPlans == {Plan("use", o1, "default"), Plan("logout", o1, "default")}

\* Processes differ only in the command they are given.
AnyProc == Permutations(Procs)

=============================================================================
