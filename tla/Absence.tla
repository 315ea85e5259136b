------------------------------- MODULE Absence -------------------------------
(* A flag, a variable or a field that is not there, or not what it should be. *)
CONSTANTS None,
    NotObject   \* what a payload has in place of what its name asks for: an object, or a selection of events

=============================================================================
