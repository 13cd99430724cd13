------------------------ MODULE LoginTicketsProofs ------------------------
(***************************************************************************)
(* Theorems about login tickets and refresh tokens for every number of     *)
(* users, devices, tickets and concurrent transactions.                    *)
(***************************************************************************)
EXTENDS LoginTickets, TLAPS

\* What the steps of complete() imply about its arguments.
Locked == {"account", "device", "consume", "create", "insert", "commit"}
Running == Locked \union {"ticket"}

CallShape ==
  \A c \in Calls :
    /\ call[c].at \in {"idle", "device"} => ~call[c].new
    /\ call[c].at = "create" => call[c].new

\* A locked ticket is locked once and unused.
TicketLocks ==
  /\ \A c, e \in Calls : call[c].at \in Locked /\ call[e].at \in Locked
                         /\ call[c].ticket = call[e].ticket => c = e
  /\ \A c \in Calls : call[c].at \in Locked => ticket[call[c].ticket] = "unused"

\* A device being registered has an identifier of its own, unknown to all others; a
\* device that was checked stays active while it is locked.
DeviceLocks ==
  /\ \A c, e \in Calls : call[c].new /\ call[e].new /\ call[c].device = call[e].device => c = e
  /\ \A c \in Calls : call[c].new /\ call[c].at \in Running => device[call[c].device] = "absent"
  /\ \A c \in Calls : ~call[c].new /\ call[c].at \in {"consume", "insert", "commit"}
                      => device[call[c].device] = "active"

\* A revocation excludes the transactions that share its device, so that no token of
\* the device is committed between its sweep and its commit.
RevokeLocks ==
  \A r \in Revokers : revoker[r].at # "idle" =>
    /\ revoker[r].device \in Devices
    /\ device[revoker[r].device] = "active"
    /\ \A c \in Calls : ~SharesDevice(c, revoker[r].device)
    /\ \A q \in Revokers : revoker[q].at # "idle" /\ revoker[q].device = revoker[r].device => q = r
    /\ revoker[r].at = "swept" =>
         \A k \in tokens : k.device = revoker[r].device => k.call \in revoker[r].tokens

\* The inductive invariant.
LoginInv ==
  /\ TypeOK /\ CallShape /\ TicketLocks /\ DeviceLocks /\ RevokeLocks
  /\ TicketBuysOneCredential /\ RevokedDeviceHasNoCredential

\* Before the first login there is no token and no lock.
LEMMA LoginInit == Init => LoginInv
  <1> SUFFICES ASSUME Init PROVE LoginInv
    OBVIOUS
  <1>1. TypeOK
    <2>1. /\ deviceUser \in [Devices -> Users \union {Unknown}]
          /\ \A d \in Devices : device[d] # "absent" <=> deviceUser[d] # Unknown
      BY DEF Init
    <2>2. call \in [Calls -> [at : CallSteps, ticket : Tickets \union {Unknown},
                             device : Devices \union {Unknown}, new : BOOLEAN]]
      BY DEF Init, Idle, CallSteps
    <2>3. \A c \in Calls : call[c].at = "idle"
      BY DEF Init, Idle
    <2>4. /\ revoker \in [Revokers -> [at : {"idle", "locked", "swept"},
                                      device : Devices \union {Unknown}, tokens : SUBSET Calls]]
          /\ validator \in [Validators -> [at : {"idle", "expired"}, token : Calls \union {Unknown}]]
      BY DEF Init
    <2> QED
      BY <2>1, <2>2, <2>3, <2>4 DEF Init, TypeOK, Answers
  <1>2. CallShape /\ TicketLocks /\ DeviceLocks /\ RevokeLocks
    BY DEF Init, CallShape, TicketLocks, DeviceLocks, RevokeLocks, Idle, Locked, Running
  <1>3. TicketBuysOneCredential /\ RevokedDeviceHasNoCredential
    BY DEF Init, TicketBuysOneCredential, RevokedDeviceHasNoCredential
  <1> QED
    BY <1>1, <1>2, <1>3 DEF LoginInv

\* The statements of complete() that write nothing others can see: a call moves on
\* or ends.
LEMMA MovesPreserve ==
  ASSUME LoginInv, NEW c \in Calls, call[c].at \in Running,
         NEW s \in CallSteps \ {"idle", "ticket"}, Goto(c, s), answer' \in [Calls -> Answers],
         UNCHANGED <<tables, revoker, validator>>,
         s \in Locked => (\/ call[c].at \in Locked
                          \/ TicketFree(c) /\ ticket[call[c].ticket] = "unused"),
         s = "device" => ~call[c].new,
         s = "create" => call[c].new,
         s \in {"consume", "insert", "commit"} /\ ~call[c].new =>
           \/ call[c].at \in {"consume", "insert", "commit"}
           \/ DeviceLockedBy(call[c].device) = {} /\ device[call[c].device] = "active"
  PROVE  LoginInv'
  <1>0. /\ call' = [call EXCEPT ![c].at = s]
        /\ \A e \in Calls : /\ call'[e].ticket = call[e].ticket
                            /\ call'[e].device = call[e].device
                            /\ call'[e].new = call[e].new
                            /\ call'[e].at = IF e = c THEN s ELSE call[e].at
    BY DEF Goto, LoginInv, TypeOK
  <1>1. TypeOK'
    BY <1>0 DEF LoginInv, TypeOK, tables, Running, Locked
  <1>2. CallShape'
    BY <1>0 DEF LoginInv, CallShape
  <1>3. TicketLocks'
    BY <1>0 DEF LoginInv, TypeOK, TicketLocks, TicketFree, LocksTicket, tables, Locked
  <1>4. DeviceLocks'
    BY <1>0 DEF LoginInv, DeviceLocks, tables, Running, Locked, CallSteps
  <1>5. RevokeLocks'
    BY <1>0 DEF LoginInv, TypeOK, RevokeLocks, DeviceLocks, CallShape, SharesDevice, DeviceLockedBy,
           tables, Running, Locked
  <1>6. TicketBuysOneCredential' /\ RevokedDeviceHasNoCredential'
    BY DEF LoginInv, TicketBuysOneCredential, RevokedDeviceHasNoCredential, tables
  <1> QED
    BY <1>1, <1>2, <1>3, <1>4, <1>5, <1>6 DEF LoginInv

\* Every statement of complete() before its COMMIT, failing or not.
LEMMA StatementsPreserve ==
  ASSUME LoginInv, NEW c \in Calls,
         \/ LockTicket(c) \/ LockAccount(c) \/ LockDevice(c) \/ Consume(c)
         \/ RegisterNewDevice(c) \/ InsertRefreshToken(c) \/ CompleteFails(c)
  PROVE  LoginInv'
  <1>1. /\ answer \in [Calls -> Answers]
        /\ \A a \in Answers : [answer EXCEPT ![c] = a] \in [Calls -> Answers]
        /\ call[c].at = "device" => ~call[c].new
        /\ call[c].at = "create" => call[c].new
        /\ call[c].at \in CallSteps
    BY DEF LoginInv, TypeOK, CallShape
  <1> USE DEF Ends, Running, Locked, CallSteps, Answers
  <1>2. CASE LockTicket(c)
    BY <1>1, <1>2, MovesPreserve DEF LockTicket, Usable
  <1>3. CASE LockAccount(c)
    BY <1>1, <1>3, MovesPreserve DEF LockAccount
  <1>4. CASE LockDevice(c)
    BY <1>1, <1>4, MovesPreserve DEF LockDevice
  <1>5. CASE Consume(c)
    BY <1>1, <1>5, MovesPreserve DEF Consume
  <1>6. CASE RegisterNewDevice(c)
    BY <1>1, <1>6, MovesPreserve DEF RegisterNewDevice
  <1>7. CASE InsertRefreshToken(c)
    BY <1>1, <1>7, MovesPreserve DEF InsertRefreshToken
  <1>8. CASE CompleteFails(c)
    BY <1>1, <1>8, MovesPreserve DEF CompleteFails
  <1> QED
    BY <1>2, <1>3, <1>4, <1>5, <1>6, <1>7, <1>8

\* A call begins.
LEMMA CompletePreserves ==
  ASSUME LoginInv, NEW c \in Calls, NEW t \in Tickets, NEW d \in Devices, NEW new \in BOOLEAN,
         Complete(c, t, d, new)
  PROVE  LoginInv'
  <1>0. \A e \in Calls : call'[e] = IF e = c THEN [at |-> "ticket", ticket |-> t, device |-> d, new |-> new] ELSE call[e]
    BY DEF Complete, LoginInv, TypeOK
  <1>1. TypeOK'
    BY DEF Complete, LoginInv, TypeOK, tables, CallSteps
  <1>2. CallShape'
    BY <1>0 DEF LoginInv, CallShape
  <1>3. TicketLocks'
    BY <1>0 DEF Complete, LoginInv, TicketLocks, tables, Locked
  <1>4. DeviceLocks'
    BY <1>0 DEF Complete, LoginInv, DeviceLocks, CallShape, tables, Running, Locked
  <1>5. RevokeLocks'
    BY <1>0 DEF Complete, LoginInv, RevokeLocks, SharesDevice, tables
  <1>6. TicketBuysOneCredential' /\ RevokedDeviceHasNoCredential'
    BY DEF Complete, LoginInv, TicketBuysOneCredential, RevokedDeviceHasNoCredential, tables
  <1> QED
    BY <1>1, <1>2, <1>3, <1>4, <1>5, <1>6 DEF LoginInv

\* The COMMIT, whatever the caller hears of it.
LEMMA CommitPreserves ==
  ASSUME LoginInv, NEW c \in Calls, Commit(c) \/ CommitLost(c)
  PROVE  LoginInv'
  <1> DEFINE t == call[c].ticket
             d == call[c].device
             k0 == [call |-> c, ticket |-> t, device |-> d]
  <1>0. /\ call[c].at = "commit" /\ t \in Tickets /\ d \in Devices
        /\ call' = [call EXCEPT ![c].at = "ended"]
        /\ \A e \in Calls : /\ call'[e].ticket = call[e].ticket
                            /\ call'[e].device = call[e].device
                            /\ call'[e].new = call[e].new
                            /\ call'[e].at = IF e = c THEN "ended" ELSE call[e].at
    BY DEF Commit, CommitLost, Ends, Goto, LoginInv, TypeOK
  <1>a. /\ ticket' = [ticket EXCEPT ![t] = "consumed"]
        /\ device' = IF call[c].new THEN [device EXCEPT ![d] = "active"] ELSE device
        /\ deviceUser' = IF call[c].new THEN [deviceUser EXCEPT ![d] = ticketUser[t]] ELSE deviceUser
        /\ tokens' = tokens \union {k0}
        /\ UNCHANGED <<active, ticketUser, expired, revokedAt, oldTokens, revoker, validator>>
    BY DEF Commit, CommitLost, CommitWrites
  <1>b. /\ call[c].new => device[d] = "absent"
        /\ device[d] = "active" \/ call[c].new
        /\ ticket[t] = "unused" /\ ticketUser[t] \in Users
        /\ device'[d] = "active"
        /\ \A e \in Devices : e # d => device'[e] = device[e]
    BY <1>0, <1>a, UnknownAssumption DEF LoginInv, TypeOK, DeviceLocks, TicketLocks, Running, Locked
  <1>1. TypeOK'
    <2>1. call' \in [Calls -> [at : CallSteps, ticket : Tickets \union {Unknown},
                              device : Devices \union {Unknown}, new : BOOLEAN]]
      BY <1>0 DEF LoginInv, TypeOK, CallSteps
    <2>2. answer' \in [Calls -> Answers]
      BY DEF Commit, CommitLost, Ends, LoginInv, TypeOK, Answers
    <2>3. tokens' \subseteq Token
      BY <1>0, <1>a DEF LoginInv, TypeOK, Token
    <2>4. /\ ticket' \in [Tickets -> {"none", "unused", "consumed"}]
          /\ \A u \in Tickets : ticket'[u] # "none" <=> ticketUser'[u] # Unknown
      BY <1>0, <1>a, <1>b DEF LoginInv, TypeOK
    <2>5. /\ device' \in [Devices -> {"absent", "active", "revoked"}]
          /\ deviceUser' \in [Devices -> Users \union {Unknown}]
          /\ \A e \in Devices : device'[e] # "absent" <=> deviceUser'[e] # Unknown
      BY <1>0, <1>a, <1>b, UnknownAssumption DEF LoginInv, TypeOK
    <2> QED
      BY <1>0, <1>a, <2>1, <2>2, <2>3, <2>4, <2>5 DEF LoginInv, TypeOK
  <1>2. CallShape'
    BY <1>0 DEF LoginInv, CallShape
  <1>3. TicketLocks'
    <2>1. \A e \in Calls : call'[e].at \in Locked =>
             e # c /\ call[e].at \in Locked /\ call[e].ticket \in Tickets /\ call[e].ticket # t
      BY <1>0 DEF LoginInv, TypeOK, TicketLocks, Locked
    <2>2. \A u \in Tickets : u # t => ticket'[u] = ticket[u]
      BY <1>a, <1>0 DEF LoginInv, TypeOK
    <2> QED
      BY <1>0, <2>1, <2>2 DEF LoginInv, TicketLocks
  <1>4. DeviceLocks'
    <2>1. \A e, f \in Calls : call'[e].new /\ call'[f].new /\ call'[e].device = call'[f].device
                             => e = f
      BY <1>0 DEF LoginInv, DeviceLocks
    <2>2. ASSUME NEW e \in Calls, call'[e].new, call'[e].at \in Running
          PROVE  device'[call'[e].device] = "absent"
      <3>1. e # c /\ call[e].new /\ call[e].at \in Running /\ call[e].device \in Devices
        BY <1>0, <2>2 DEF LoginInv, TypeOK, Running, Locked
      <3>2. device[call[e].device] = "absent"
        BY <3>1 DEF LoginInv, DeviceLocks
      <3>3. call[e].device # d
        BY <1>b, <3>1, <3>2 DEF LoginInv, DeviceLocks
      <3> QED
        BY <1>0, <1>b, <3>1, <3>2, <3>3
    <2>3. ASSUME NEW e \in Calls, ~call'[e].new, call'[e].at \in {"consume", "insert", "commit"}
          PROVE  device'[call'[e].device] = "active"
      BY <1>0, <1>b, <2>3 DEF LoginInv, TypeOK, DeviceLocks
    <2> QED
      BY <2>1, <2>2, <2>3 DEF DeviceLocks
  <1>5. RevokeLocks'
    <2>1. \A r \in Revokers : revoker[r].at # "idle" => revoker[r].device # d
      BY <1>0, <1>b DEF LoginInv, RevokeLocks, SharesDevice
    <2> QED
      BY <1>0, <1>a, <1>b, <2>1 DEF LoginInv, TypeOK, RevokeLocks, SharesDevice
  <1>6. TicketBuysOneCredential'
    <2>1. \A k \in tokens : k.ticket \in Tickets /\ k.ticket # t /\ ticket[k.ticket] = "consumed"
      BY <1>0, <1>b DEF LoginInv, TypeOK, Token, TicketBuysOneCredential
    <2>2. k0.ticket = t
      OBVIOUS
    <2>3. \A k \in tokens', l \in tokens' : k.ticket = l.ticket => k = l
      BY <1>a, <2>1, <2>2 DEF LoginInv, TicketBuysOneCredential
    <2>4. ASSUME NEW u \in Tickets
          PROVE  ticket'[u] = "consumed" <=> \E k \in tokens' : k.ticket = u
      <3>1. CASE u = t
        BY <1>0, <1>a, <2>2, <3>1 DEF LoginInv, TypeOK
      <3>2. CASE u # t
        <4>1. ticket'[u] = ticket[u]
          BY <1>0, <1>a, <3>2 DEF LoginInv, TypeOK
        <4>2. (\E k \in tokens' : k.ticket = u) <=> (\E k \in tokens : k.ticket = u)
          BY <1>a, <2>2, <3>2
        <4> QED
          BY <4>1, <4>2 DEF LoginInv, TicketBuysOneCredential
      <3> QED
        BY <3>1, <3>2
    <2> QED
      BY <2>3, <2>4 DEF TicketBuysOneCredential
  <1>7. RevokedDeviceHasNoCredential'
    BY <1>0, <1>a, <1>b DEF LoginInv, TypeOK, Token, RevokedDeviceHasNoCredential
  <1> QED
    BY <1>1, <1>2, <1>3, <1>4, <1>5, <1>6, <1>7 DEF LoginInv

\* A ticket is issued, the clock moves, an account is disabled: the calls, the
\* devices and the tokens stay as they are.
LEMMA TimePreserves ==
  ASSUME LoginInv,
         \/ \E t \in Tickets, u \in Users : Issue(t, u)
         \/ \E t \in Tickets : TicketExpires(t)
         \/ \E c \in Calls : TokenExpires(c)
         \/ \E u \in Users : DisableAccount(u)
  PROVE  LoginInv'
  <1>1. /\ UNCHANGED <<device, deviceUser, tokens, revokedAt, txns>>
        /\ \A t \in Tickets : ticket'[t] = ticket[t] \/ (ticket[t] = "none" /\ ticket'[t] = "unused")
    BY DEF Issue, TicketExpires, TokenExpires, DisableAccount, LoginInv, TypeOK
  <1>2. TypeOK'
    <2>1. CASE \E t \in Tickets, u \in Users : Issue(t, u)
      BY <2>1, UnknownAssumption DEF Issue, LoginInv, TypeOK, txns
    <2>2. CASE \E t \in Tickets : TicketExpires(t)
      BY <2>2 DEF TicketExpires, LoginInv, TypeOK, txns
    <2>3. CASE \E c \in Calls : TokenExpires(c)
      BY <2>3 DEF TokenExpires, LoginInv, TypeOK, txns
    <2>4. CASE \E u \in Users : DisableAccount(u)
      BY <2>4 DEF DisableAccount, LoginInv, TypeOK, txns
    <2> QED
      BY <2>1, <2>2, <2>3, <2>4
  <1>3. CallShape' /\ DeviceLocks' /\ RevokeLocks'
    BY <1>1 DEF LoginInv, CallShape, DeviceLocks, RevokeLocks, SharesDevice, txns
  <1>4. TicketLocks'
    BY <1>1 DEF LoginInv, TypeOK, TicketLocks, Locked, txns
  <1>5. TicketBuysOneCredential' /\ RevokedDeviceHasNoCredential'
    BY <1>1 DEF LoginInv, TicketBuysOneCredential, RevokedDeviceHasNoCredential
  <1> QED
    BY <1>2, <1>3, <1>4, <1>5 DEF LoginInv

\* A revocation before its commit, and one that is rolled back.
LEMMA RevokePreserves ==
  ASSUME LoginInv, NEW r \in Revokers,
         (\E d \in Devices : RevokeLock(r, d)) \/ RevokeTokens(r) \/ RevokeFails(r)
  PROVE  LoginInv'
  <1>1. /\ UNCHANGED <<tables, call, answer, validator>>
        /\ \A q \in Revokers : q # r => revoker'[q] = revoker[q]
    BY DEF RevokeLock, RevokeTokens, RevokeFails, LoginInv, TypeOK
  <1>2. revoker' \in [Revokers -> [at : {"idle", "locked", "swept"},
                                  device : Devices \union {Unknown}, tokens : SUBSET Calls]]
    <2>1. CASE \E d \in Devices : RevokeLock(r, d)
      BY <2>1 DEF RevokeLock, LoginInv, TypeOK
    <2>2. CASE RevokeTokens(r)
      <3>1. SweepTokens(revoker[r].device) \in SUBSET Calls
        BY DEF SweepTokens, LoginInv, TypeOK, Token
      <3> QED
        BY <2>2, <3>1 DEF RevokeTokens, LoginInv, TypeOK
    <2>3. CASE RevokeFails(r)
      BY <2>3 DEF RevokeFails, LoginInv, TypeOK
    <2> QED
      BY <2>1, <2>2, <2>3
  <1>3. TypeOK' /\ CallShape' /\ TicketLocks' /\ DeviceLocks'
    BY <1>1, <1>2 DEF LoginInv, TypeOK, CallShape, TicketLocks, DeviceLocks, tables
  <1>4. RevokeLocks'
    <2>1. CASE \E d \in Devices : RevokeLock(r, d)
      <3>1. PICK d \in Devices : RevokeLock(r, d)
        BY <2>1
      <3>2. revoker'[r] = [at |-> "locked", device |-> d, tokens |-> {}]
        BY <3>1 DEF RevokeLock, LoginInv, TypeOK
      <3>3. /\ device[d] = "active" /\ \A c \in Calls : ~SharesDevice(c, d)
            /\ \A q \in Revokers : ~(revoker[q].at # "idle" /\ revoker[q].device = d)
        BY <3>1 DEF RevokeLock, DeviceLockedBy
      <3> QED
        BY <1>1, <3>2, <3>3 DEF LoginInv, RevokeLocks, SharesDevice, tables
    <2>2. CASE RevokeTokens(r)
      <3>1. /\ revoker[r].at = "locked" /\ revoker'[r].at = "swept"
            /\ revoker'[r].device = revoker[r].device
            /\ revoker'[r].tokens = SweepTokens(revoker[r].device)
        BY <2>2 DEF RevokeTokens, LoginInv, TypeOK
      <3>2. \A k \in tokens : k.device = revoker[r].device => k.call \in SweepTokens(revoker[r].device)
        BY DEF SweepTokens
      <3> QED
        BY <1>1, <3>1, <3>2 DEF LoginInv, RevokeLocks, SharesDevice, tables
    <2>3. CASE RevokeFails(r)
      <3>1. revoker'[r].at = "idle"
        BY <2>3 DEF RevokeFails, LoginInv, TypeOK
      <3> QED
        BY <1>1, <3>1 DEF LoginInv, RevokeLocks, SharesDevice, tables
    <2> QED
      BY <2>1, <2>2, <2>3
  <1>5. TicketBuysOneCredential' /\ RevokedDeviceHasNoCredential'
    BY <1>1 DEF LoginInv, TicketBuysOneCredential, RevokedDeviceHasNoCredential, tables
  <1> QED
    BY <1>3, <1>4, <1>5 DEF LoginInv

\* The commit of a revocation: the device and its tokens at once.
LEMMA RevokeCommitPreserves ==
  ASSUME LoginInv, NEW r \in Revokers, RevokeCommit(r)
  PROVE  LoginInv'
  <1> DEFINE d == revoker[r].device
  <1>1. /\ revoker[r].at = "swept" /\ d \in Devices /\ device[d] = "active"
        /\ \A c \in Calls : ~SharesDevice(c, d)
        /\ \A q \in Revokers : revoker[q].at # "idle" /\ revoker[q].device = d => q = r
        /\ \A k \in tokens : k.device = d => k.call \in revoker[r].tokens
    BY DEF RevokeCommit, LoginInv, RevokeLocks
  <1>2. /\ device' = [device EXCEPT ![d] = "revoked"]
        /\ \A c \in Calls : revokedAt'[c] = IF c \in revoker[r].tokens THEN Coalesced(c) ELSE revokedAt[c]
        /\ revokedAt' \in [Calls -> {"null", "expiry", "device"}]
        /\ \A c \in Calls : Coalesced(c) # "null"
        /\ \A q \in Revokers : q # r => revoker'[q] = revoker[q]
        /\ revoker'[r].at = "idle"
        /\ UNCHANGED <<active, ticket, ticketUser, expired, deviceUser, tokens, oldTokens, call,
                       answer, validator>>
    BY DEF RevokeCommit, Coalesced, LoginInv, TypeOK
  <1>3. TypeOK'
    <2>1. revoker' \in [Revokers -> [at : {"idle", "locked", "swept"},
                                   device : Devices \union {Unknown}, tokens : SUBSET Calls]]
      BY DEF RevokeCommit, LoginInv, TypeOK
    <2>2. /\ device' \in [Devices -> {"absent", "active", "revoked"}]
          /\ \A e \in Devices : device'[e] # "absent" <=> deviceUser'[e] # Unknown
      BY <1>1, <1>2 DEF LoginInv, TypeOK
    <2> QED
      BY <1>2, <2>1, <2>2 DEF LoginInv, TypeOK
  <1>4. CallShape' /\ TicketLocks' /\ TicketBuysOneCredential'
    BY <1>2 DEF LoginInv, CallShape, TicketLocks, TicketBuysOneCredential
  <1>5. DeviceLocks'
    BY <1>1, <1>2 DEF LoginInv, TypeOK, DeviceLocks, SharesDevice, Running, Locked
  <1>6. RevokeLocks'
    BY <1>1, <1>2 DEF LoginInv, TypeOK, RevokeLocks, SharesDevice
  <1>7. RevokedDeviceHasNoCredential'
    BY <1>1, <1>2 DEF LoginInv, TypeOK, Token, RevokedDeviceHasNoCredential
  <1> QED
    BY <1>3, <1>4, <1>5, <1>6, <1>7 DEF LoginInv

\* A validation marks a token at most as expired.
LEMMA ValidatePreserves ==
  ASSUME LoginInv, NEW v \in Validators,
         (\E k \in tokens : ValidateReads(v, k)) \/ ValidateMarks(v)
  PROVE  LoginInv'
  <1>1. /\ UNCHANGED <<active, ticket, ticketUser, expired, device, deviceUser, tokens,
                       oldTokens, call, answer, revoker>>
        /\ revokedAt' \in [Calls -> {"null", "expiry", "device"}]
        /\ \A c \in Calls : revokedAt[c] # "null" => revokedAt'[c] # "null"
    BY DEF ValidateReads, ValidateMarks, LoginInv, TypeOK, tables
  <1>2. validator' \in [Validators -> [at : {"idle", "expired"}, token : Calls \union {Unknown}]]
    <2>1. ASSUME NEW k \in tokens, ValidateReads(v, k) PROVE k.call \in Calls
      BY DEF LoginInv, TypeOK, Token
    <2> QED
      BY <2>1 DEF ValidateReads, ValidateMarks, LoginInv, TypeOK
  <1>3. TypeOK' /\ CallShape' /\ TicketLocks' /\ DeviceLocks' /\ RevokeLocks'
    BY <1>1, <1>2 DEF LoginInv, TypeOK, CallShape, TicketLocks, DeviceLocks, RevokeLocks, SharesDevice
  <1>4. TicketBuysOneCredential' /\ RevokedDeviceHasNoCredential'
    BY <1>1 DEF LoginInv, TypeOK, Token, TicketBuysOneCredential, RevokedDeviceHasNoCredential
  <1> QED
    BY <1>3, <1>4 DEF LoginInv

\* Every step of every transaction preserves the inductive invariant.
LEMMA LoginStep == LoginInv /\ [Next]_vars => LoginInv'
  <1> SUFFICES ASSUME LoginInv, [Next]_vars PROVE LoginInv'
    OBVIOUS
  <1>1. ASSUME NEW c \in Calls, CompleteStep(c) PROVE LoginInv'
    BY <1>1, StatementsPreserve, CommitPreserves DEF CompleteStep
  <1>2. CASE UNCHANGED vars
    BY <1>2 DEF vars, LoginInv, TypeOK, CallShape, TicketLocks, DeviceLocks, RevokeLocks,
                SharesDevice, TicketBuysOneCredential, RevokedDeviceHasNoCredential
  <1> QED
    BY <1>1, <1>2, CompletePreserves, TimePreserves, RevokePreserves, RevokeCommitPreserves,
       ValidatePreserves DEF Next

LEMMA LoginAlways == Spec => []LoginInv
  BY LoginInit, LoginStep, PTL DEF Spec

\* A ticket buys at most one credential and is consumed only together with it, for
\* any number of concurrent calls of complete().
THEOREM CredentialInvariant == Spec => []TicketBuysOneCredential
  <1>1. LoginInv => TicketBuysOneCredential
    BY DEF LoginInv
  <1> QED
    BY <1>1, LoginAlways, PTL

\* No refresh token of a revoked device is good, for any number of logins that
\* complete() had checked and revocations by revokeUserDevice under way.
THEOREM NoCredentialTheorem == Spec => []RevokedDeviceHasNoCredential
  <1>1. LoginInv => RevokedDeviceHasNoCredential
    BY DEF LoginInv
  <1> QED
    BY <1>1, LoginAlways, PTL

\* Neither a revocation nor a validation overwrites the time at which a token was
\* revoked first.
THEOREM StampKept == Spec => RevocationStampKept
  <1>1. LoginInv /\ [Next]_vars =>
          [\A c \in Calls : revokedAt[c] # "null" => revokedAt'[c] = revokedAt[c]]_vars
    <2> SUFFICES ASSUME LoginInv, Next, NEW c \in Calls, revokedAt[c] # "null"
                 PROVE  revokedAt'[c] = revokedAt[c]
      BY DEF vars
    <2>1. CASE UNCHANGED revokedAt
      BY <2>1
    <2>2. ASSUME NEW r \in Revokers, RevokeCommit(r) PROVE revokedAt'[c] = revokedAt[c]
      BY <2>2 DEF RevokeCommit, Coalesced
    <2>3. ASSUME NEW v \in Validators, ValidateMarks(v) PROVE revokedAt'[c] = revokedAt[c]
      BY <2>3 DEF ValidateMarks, LoginInv, TypeOK
    <2>4. UNCHANGED revokedAt \/ (\E r \in Revokers : RevokeCommit(r))
                              \/ (\E v \in Validators : ValidateMarks(v))
      BY DEF Next, Issue, Complete, CompleteStep, LockTicket, LockAccount, LockDevice, Consume,
             RegisterNewDevice, InsertRefreshToken, Commit, CommitLost, CompleteFails,
             TokenExpires, RevokeLock, RevokeTokens, RevokeFails, ValidateReads, TicketExpires,
             DisableAccount, tables
    <2> QED
      BY <2>1, <2>2, <2>3, <2>4
  <1> QED
    BY LoginInit, LoginStep, <1>1, PTL DEF Spec, RevocationStampKept
=============================================================================
