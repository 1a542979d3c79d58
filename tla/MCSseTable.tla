---------------------------- MODULE MCSseTable ----------------------------
(* Bounded instances of SseTable for TLC: who connects, and for which session. *)
EXTENDS SseTable, TLC

CONSTANTS c1, c2, c3, s1, s2

\* Two sessions for two slots, one of which connects twice.
Clients == (c1 :> s1) @@ (c2 :> s2) @@ (c3 :> s1)
=============================================================================
