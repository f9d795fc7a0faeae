------------------------------ MODULE MCTimers ------------------------------
(* Three timers that make one parent with two children, a fourth slot to *)
(* construct a timer in or to move one to, and two workers.              *)
EXTENDS Timers
CONSTANTS s1, s2, s3, s4
EarlyTimers == <<s1, s2, s3>>
MCExpiries == {s1 :> 1 @@ s2 :> 2 @@ s3 :> 2 @@ s4 :> 2}
\* Waits are interchangeable, and so are workers.
MCSymmetry == Permutations(Waits) \cup Permutations(Workers)
=============================================================================
