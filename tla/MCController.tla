---------------------------- MODULE MCController ----------------------------
(* Bounded instances of Controller for TLC. *)
EXTENDS Controller, TLC

CONSTANTS rest, a, w1, w2, d1, d2

\* The HTTP workers are interchangeable, and so are the console's pads.
Symmetry == Permutations(Workers) \cup Permutations(Devices)

\* Nothing is claimed of what follows two initialisations at once: TLC stops
\* where raced becomes TRUE.
NoClaimBeyond == ~raced
=============================================================================
