--------------------------- MODULE MCHttpDispatch ---------------------------
(* Bounded instances of HttpDispatch for TLC. *)
EXTENDS HttpDispatch

=============================================================================
