------------------------- MODULE MCWebSocketWorkers -------------------------
(***************************************************************************)
(* Finite instances of WebSocketWorkers.  Descriptors and requests are     *)
(* interchangeable, so the safety runs identify states that differ in      *)
(* their names only.                                                       *)
(***************************************************************************)
EXTENDS WebSocketWorkers, TLC

Symmetry == Permutations(Fds) \cup Permutations(Revokes)
=============================================================================
