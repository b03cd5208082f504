-------------------------- MODULE MCGamepadStream ---------------------------
(* Small instances of GamepadStream for TLC: a pattern whose frames match its duration and *)
(* one whose duration was changed without Apply.                                           *)
EXTENDS GamepadStream

SavedPatterns == {[frames |-> 3, duration |-> 4], [frames |-> 4, duration |-> 2]}
=============================================================================
