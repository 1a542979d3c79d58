-------------------------- MODULE MCRequestReader --------------------------
(* Bounded instances of RequestReader for TLC: a first buffer of 4 bytes, a   *)
(* largest one of 8, and an int that ends at 15.                              *)
EXTENDS RequestReader

SmallHeads   == {2, 3, 4, 5}
SmallBodies  == 0 .. 6
SmallLengths == {-1, 0, 1, 2, 3, 4, 5, 6, 11, 12, 13, 15}
=============================================================================
