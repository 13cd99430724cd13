------------------------------- MODULE PairLog -------------------------------
(***************************************************************************)
(* What the envelope store promises, independent of transactions, locks    *)
(* and retries: every unordered pair of devices has one append-only log; a *)
(* message enters it at most once, whole, and only while both its devices  *)
(* are active; a device's revocation is final.                             *)
(***************************************************************************)
EXTENDS Naturals, Sequences

CONSTANTS
    Devices,    \* the devices of all users
    Messages    \* records with the fields from, to, id and packet

VARIABLES
    log,        \* the log of each pair of devices
    active      \* the devices that are not revoked

pairLogVars == <<log, active>>

Pairs == {{d, e} : d, e \in Devices}

PInit ==
    /\ log = [p \in Pairs |-> <<>>]
    /\ active = Devices

\* The retry scope: sender, recipient and the id the client chose.
SameKey(m, n) == m.from = n.from /\ m.to = n.to /\ m.id = n.id

AppendMessage(m) ==
    LET p == {m.from, m.to}
    IN /\ p \subseteq active
       /\ \A i \in DOMAIN log[p] : ~SameKey(log[p][i], m)
       /\ log' = [log EXCEPT ![p] = Append(@, m)]
       /\ UNCHANGED active

Revoke(d) ==
    /\ active' = active \ {d}
    /\ UNCHANGED log

PNext ==
    \/ \E m \in Messages : AppendMessage(m)
    \/ \E d \in active : Revoke(d)

PSpec == PInit /\ [][PNext]_pairLogVars
=============================================================================
