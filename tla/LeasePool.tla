------------------------------ MODULE LeasePool ------------------------------
(***************************************************************************)
(* What a pool of exclusive leases promises its users, independent of how  *)
(* DatabasePool queues, creates and destroys connections: at most          *)
(* MaxLeases leases are out at any time, none is granted once shutdown has *)
(* begun, and shutdown completes only when every lease has come back.      *)
(***************************************************************************)
EXTENDS Naturals, FiniteSets

CONSTANTS
    Users,      \* the threads that may hold a lease
    MaxLeases   \* how many of them may hold one at the same time

VARIABLES
    holders,    \* the users that hold a lease
    phase       \* "open", "closing" (no new lease) or "closed"

leasePoolVars == <<holders, phase>>

LInit ==
    /\ holders = {}
    /\ phase = "open"

Grant(u) ==
    /\ phase = "open"
    /\ u \notin holders
    /\ Cardinality(holders) < MaxLeases
    /\ holders' = holders \cup {u}
    /\ UNCHANGED phase

GiveBack(u) ==
    /\ u \in holders
    /\ holders' = holders \ {u}
    /\ UNCHANGED phase

BeginClose ==
    /\ phase = "open"
    /\ phase' = "closing"
    /\ UNCHANGED holders

EndClose ==
    /\ phase = "closing"
    /\ holders = {}
    /\ phase' = "closed"
    /\ UNCHANGED holders

LNext ==
    \/ \E u \in Users : Grant(u) \/ GiveBack(u)
    \/ BeginClose
    \/ EndClose

LSpec == LInit /\ [][LNext]_leasePoolVars
=============================================================================
