----------------------------- MODULE MCRecorder -----------------------------
(* Bounded instances of Recorder for TLC. *)
EXTENDS Recorder, TLC

\* Polling threads are interchangeable, and so are workers.
ThreadSymmetry == Permutations(Threads)
Symmetry == Permutations(Threads) \cup Permutations(Workers)

\* What a client may send as max_events where events of 4 bytes are counted
\* modulo 32: a negative number, a size the heap has, one that wraps to 4 bytes.
WrappingSizes == {-1, 2, 9}
=============================================================================
