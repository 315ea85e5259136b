------------------------------ MODULE MCPolling ------------------------------
(* An instance of Polling for TLC. *)
EXTENDS Polling

MCWaits == {"ready", "completed", "projection", "login"}
MCFirstPause == [ready |-> 1, completed |-> 2, projection |-> 1]
MCHints == {NoHint, 0, 1, 5, 20}
MCIntervals == {NoHint, 1, 4, 30}

=============================================================================
