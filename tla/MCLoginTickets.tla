--------------------------- MODULE MCLoginTickets ---------------------------
(* Calls, tickets and users are interchangeable; the devices are not, since  *)
(* one of them exists from the start.                                        *)
EXTENDS LoginTickets, TLC

Symmetry == Permutations(Calls) \union Permutations(Tickets) \union Permutations(Users)
=============================================================================
