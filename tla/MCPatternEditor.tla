-------------------------- MODULE MCPatternEditor ---------------------------
(* A small instance of PatternEditor for TLC: two axes, one neutral at 0 and one not, and *)
(* durations that make three to seven frames, one of them a half frame.                   *)
EXTENDS PatternEditor

Neutral == [a \in Axes |-> IF a = 1 THEN 0 ELSE 4]
Drawn == {-16, 7}
=============================================================================
