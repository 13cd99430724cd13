--------------------------- MODULE MCEnvelopeStore ---------------------------
(***************************************************************************)
(* Finite instances of EnvelopeStore.  Alice owns the devices 1 and 3, Bob *)
(* owns device 2.  Message m1 exists with two packets.                     *)
(***************************************************************************)
EXTENDS EnvelopeStore, TLC

CONSTANTS alice, bob, m1, m2, packetA, packetB

Request(user, from, to, id, packet) ==
    [user |-> user, from |-> from, to |-> to, id |-> id, packet |-> packet]

TwoOwners == [d \in Devices |-> IF d = 2 THEN bob ELSE alice]

\* Both directions of one pair, a retry with other content, a device that is
\* not the user's, and a device writing to itself.
PairRequests ==
    {Request(alice, 1, 2, m1, packetA), Request(alice, 1, 2, m1, packetB),
     Request(bob, 2, 1, m2, packetA), Request(bob, 1, 2, m2, packetA),
     Request(alice, 1, 1, m1, packetA)}

\* Two senders for device 2, and one of device 2's own messages between.
InboxRequests ==
    {Request(alice, 1, 2, m1, packetA), Request(alice, 1, 2, m2, packetA),
     Request(alice, 3, 2, m1, packetA), Request(bob, 2, 1, m1, packetA)}

Symmetry == Permutations(Threads)
=============================================================================
