----------------------------- MODULE MCPrekeys -----------------------------
\* Two users with pending requests to each other; the devices are the second's.
EXTENDS Prekeys

CONSTANTS alice, bob, r1, r2

MCOwner == [d \in Devices |-> bob]
Pending(a, b) == [requester |-> a, recipient |-> b, status |-> "pending"]
MCInitialRequests ==
  {[r \in Requests |-> CASE r = r1 -> Pending(alice, bob) [] r = r2 -> Pending(bob, alice)
                          [] OTHER -> NoRow]}
=============================================================================
