--------------------------- MODULE LoginTickets ---------------------------
(***************************************************************************)
(* Login tickets and refresh tokens: LoginTicketRepository (issue and      *)
(* complete), RefreshTokenService::validate and the part of                *)
(* UserRepository::revokeUserDevice that touches refresh tokens.           *)
(*                                                                         *)
(* A password login issues a ticket; one call of complete() exchanges it,  *)
(* in one transaction, for a refresh token bound to a device that exists   *)
(* or is registered by the same transaction.  Each statement of the        *)
(* transaction is an action: PostgreSQL runs at READ COMMITTED, so what    *)
(* other transactions committed between two statements is seen by the      *)
(* second.  FOR UPDATE and FOR SHARE row locks are held to the end of the  *)
(* transaction; which locks a transaction holds, and what it has written   *)
(* that nobody else sees before the commit, follows from how far it is.    *)
(* A call of complete() is one element of Calls: its refresh token is new, *)
(* so the call also names the token.                                       *)
(*                                                                         *)
(* Random bytes, hashes and the JSON around them are left out: a ticket or *)
(* a token that nobody issued is one that is not in its table.             *)
(***************************************************************************)
EXTENDS Naturals, FiniteSets

CONSTANTS Users, Devices, Tickets, Calls, Revokers, Validators,
          InitialDevices,   \* the devices registered before
          Unknown           \* a user or device that is none

ASSUME InitialAssumption == InitialDevices \subseteq Devices
ASSUME UnknownAssumption == Unknown \notin Users \union Devices

VARIABLES
  active,       \* users with is_active = TRUE
  ticket,       \* app.login_tickets: "none", "unused" or "consumed"
  ticketUser,   \* its user_id
  expired,      \* the tickets past expires_at
  device,       \* app.user_devices: status
  deviceUser,   \* its user_id
  tokens,       \* app.refresh_tokens: records of call, ticket, device
  revokedAt,    \* what set revoked_at of a token: "null", "expiry" or "device"
  oldTokens,    \* tokens past expires_at
  call,         \* how far a call of complete() is, and its arguments
  answer,       \* what its caller heard
  revoker,      \* transactions of revokeUserDevice
  validator     \* calls of RefreshTokenService::validate

vars == <<active, ticket, ticketUser, expired, device, deviceUser, tokens, revokedAt,
          oldTokens, call, answer, revoker, validator>>
tables == <<active, ticket, ticketUser, expired, device, deviceUser, tokens, revokedAt,
            oldTokens>>
txns == <<call, answer, revoker, validator>>

CallSteps == {"idle", "ticket", "account", "device", "consume", "create", "insert",
              "commit", "ended"}
Answers == {"none", "InvalidTicket", "AccountDisabled", "DeviceNotFound",
            "DeviceNotOwned", "DeviceNotActive", "Error", "Success"}
Idle == [at |-> "idle", ticket |-> Unknown, device |-> Unknown, new |-> FALSE]
Token == [call : Calls, ticket : Tickets, device : Devices]

TypeOK ==
  /\ active \subseteq Users
  /\ ticket \in [Tickets -> {"none", "unused", "consumed"}]
  /\ ticketUser \in [Tickets -> Users \union {Unknown}]
  /\ \A t \in Tickets : ticket[t] # "none" <=> ticketUser[t] # Unknown
  /\ expired \subseteq Tickets
  /\ device \in [Devices -> {"absent", "active", "revoked"}]
  /\ deviceUser \in [Devices -> Users \union {Unknown}]
  /\ \A d \in Devices : device[d] # "absent" <=> deviceUser[d] # Unknown
  /\ tokens \subseteq Token
  /\ revokedAt \in [Calls -> {"null", "expiry", "device"}]
  /\ oldTokens \subseteq Calls
  /\ call \in [Calls -> [at : CallSteps, ticket : Tickets \union {Unknown},
                         device : Devices \union {Unknown}, new : BOOLEAN]]
  /\ \A c \in Calls : call[c].at # "idle" => call[c].ticket \in Tickets /\ call[c].device \in Devices
  /\ answer \in [Calls -> Answers]
  /\ revoker \in [Revokers -> [at : {"idle", "locked", "swept"}, device : Devices \union {Unknown},
                               tokens : SUBSET Calls]]
  /\ validator \in [Validators -> [at : {"idle", "expired"}, token : Calls \union {Unknown}]]

Init ==
  /\ active = Users
  /\ ticket = [t \in Tickets |-> "none"] /\ ticketUser = [t \in Tickets |-> Unknown]
  /\ expired = {}
  /\ device = [d \in Devices |-> IF d \in InitialDevices THEN "active" ELSE "absent"]
  /\ deviceUser \in {o \in [Devices -> Users \union {Unknown}] :
                       \A d \in Devices : o[d] # Unknown <=> d \in InitialDevices}
  /\ tokens = {} /\ revokedAt = [c \in Calls |-> "null"] /\ oldTokens = {}
  /\ call = [c \in Calls |-> Idle] /\ answer = [c \in Calls |-> "none"]
  /\ revoker = [r \in Revokers |-> [at |-> "idle", device |-> Unknown, tokens |-> {}]]
  /\ validator = [v \in Validators |-> [at |-> "idle", token |-> Unknown]]

-----------------------------------------------------------------------------
(* Row locks, by how far the transactions are.                              *)

\* The ticket row is locked FOR UPDATE by the first statement.
LocksTicket(c, t) ==
  call[c].ticket = t /\ call[c].at \in {"account", "device", "consume", "create", "insert", "commit"}
TicketFree(c) == \A e \in Calls \ {c} : ~LocksTicket(e, call[c].ticket)

\* The account row is locked FOR SHARE by the second statement.
SharesAccount(c, u) ==
  /\ call[c].at \in {"device", "consume", "create", "insert", "commit"}
  /\ ticketUser[call[c].ticket] = u

\* The device row is locked FOR SHARE when it is checked and, by the trigger of
\* app.refresh_tokens, when the token is inserted; a row of the transaction's own is
\* not visible to others before the commit.
SharesDevice(c, d) ==
  /\ call[c].device = d
  /\ call[c].at = "commit" \/ (call[c].at \in {"consume", "insert"} /\ ~call[c].new)
DeviceLockedBy(d) == {r \in Revokers : revoker[r].at # "idle" /\ revoker[r].device = d}

-----------------------------------------------------------------------------
(* LoginTicketRepository::issue: the account is checked under a share lock  *)
(* and the ticket inserted in one transaction.                              *)
Issue(t, u) ==
  /\ ticket[t] = "none" /\ u \in active
  /\ ticket' = [ticket EXCEPT ![t] = "unused"]
  /\ ticketUser' = [ticketUser EXCEPT ![t] = u]
  /\ UNCHANGED <<active, expired, device, deviceUser, tokens, revokedAt, oldTokens, txns>>

(* LoginTicketRepository::complete.                                         *)

\* A call presents a ticket for a device of its choice, or asks to register a new
\* one: `d' then stands for the identifier the database will generate.
Complete(c, t, d, new) ==
  /\ call[c].at = "idle"
  /\ new => device[d] = "absent" /\ \A e \in Calls : call[e].new => call[e].device # d
  /\ call' = [call EXCEPT ![c] = [at |-> "ticket", ticket |-> t, device |-> d, new |-> new]]
  /\ UNCHANGED <<tables, answer, revoker, validator>>

Goto(c, s) == call' = [call EXCEPT ![c].at = s]
Ends(c, a) == Goto(c, "ended") /\ answer' = [answer EXCEPT ![c] = a]

Usable(t) == ticket[t] = "unused" /\ t \notin expired

\* SELECT ... FOR UPDATE: waits for the row only if it qualified, and looks again.
LockTicket(c) ==
  /\ call[c].at = "ticket"
  /\ \/ Usable(call[c].ticket) /\ TicketFree(c) /\ Goto(c, "account") /\ UNCHANGED answer
     \/ ~Usable(call[c].ticket) /\ Ends(c, "InvalidTicket")
  /\ UNCHANGED <<tables, revoker, validator>>

LockAccount(c) ==
  /\ call[c].at = "account"
  /\ IF ticketUser[call[c].ticket] \in active
     THEN Goto(c, IF call[c].new THEN "consume" ELSE "device") /\ UNCHANGED answer
     ELSE Ends(c, "AccountDisabled")
  /\ UNCHANGED <<tables, revoker, validator>>

\* Only for an existing device: its row, its owner, its status, under FOR SHARE.
LockDevice(c) ==
  LET d == call[c].device
  IN  /\ call[c].at = "device"
      /\ IF device[d] = "absent" THEN Ends(c, "DeviceNotFound")
         ELSE /\ DeviceLockedBy(d) = {}
              /\ IF deviceUser[d] # ticketUser[call[c].ticket] THEN Ends(c, "DeviceNotOwned")
                 ELSE IF device[d] # "active" THEN Ends(c, "DeviceNotActive")
                 ELSE Goto(c, "consume") /\ UNCHANGED answer
      /\ UNCHANGED <<tables, revoker, validator>>

\* The clock is read again after the locks: the ticket may have expired.
Consume(c) ==
  /\ call[c].at = "consume"
  /\ IF Usable(call[c].ticket)
     THEN Goto(c, IF call[c].new THEN "create" ELSE "insert") /\ UNCHANGED answer
     ELSE Ends(c, "InvalidTicket")
  /\ UNCHANGED <<tables, revoker, validator>>

\* KeyRepository::RegisterNewDevice on the same connection.
RegisterNewDevice(c) ==
  /\ call[c].at = "create" /\ Goto(c, "insert")
  /\ UNCHANGED <<tables, answer, revoker, validator>>

\* insertRefreshToken: the trigger locks the device FOR SHARE and requires it to be
\* an active device of the user, or the statement fails.
InsertRefreshToken(c) ==
  LET d == call[c].device
  IN  /\ call[c].at = "insert"
      /\ \/ call[c].new
         \/ /\ DeviceLockedBy(d) = {} /\ device[d] = "active"
            /\ deviceUser[d] = ticketUser[call[c].ticket]
      /\ Goto(c, "commit")
      /\ UNCHANGED <<tables, answer, revoker, validator>>

\* COMMIT makes the consumption, the device and the token visible at once.
CommitWrites_TicketKept(c) ==
  LET d == call[c].device
  IN  /\ ticket' = ticket
      /\ device' = IF call[c].new THEN [device EXCEPT ![d] = "active"] ELSE device
      /\ deviceUser' = IF call[c].new
                       THEN [deviceUser EXCEPT ![d] = ticketUser[call[c].ticket]] ELSE deviceUser
      /\ tokens' = tokens \union {[call |-> c, ticket |-> call[c].ticket, device |-> d]}

CommitWrites(c) ==
  LET d == call[c].device
  IN  /\ ticket' = [ticket EXCEPT ![call[c].ticket] = "consumed"]
      /\ device' = IF call[c].new THEN [device EXCEPT ![d] = "active"] ELSE device
      /\ deviceUser' = IF call[c].new
                       THEN [deviceUser EXCEPT ![d] = ticketUser[call[c].ticket]] ELSE deviceUser
      /\ tokens' = tokens \union {[call |-> c, ticket |-> call[c].ticket, device |-> d]}

Commit(c) ==
  /\ call[c].at = "commit" /\ CommitWrites(c) /\ Ends(c, "Success")
  /\ UNCHANGED <<active, ticketUser, expired, revokedAt, oldTokens, revoker, validator>>

\* The connection breaks during COMMIT: the server committed, the caller hears an
\* error (or the access token cannot be signed afterwards).
CommitLost(c) ==
  /\ call[c].at = "commit" /\ CommitWrites(c) /\ Ends(c, "Error")
  /\ UNCHANGED <<active, ticketUser, expired, revokedAt, oldTokens, revoker, validator>>

\* Any statement may fail: withTransaction rolls back and the locks are released.
CompleteFails(c) ==
  /\ call[c].at \notin {"idle", "ended"} /\ Ends(c, "Error")
  /\ UNCHANGED <<tables, revoker, validator>>

-----------------------------------------------------------------------------
(* UserRepository::revokeUserDevice.                                        *)

RevokeLock(r, d) ==
  /\ revoker[r].at = "idle"
  /\ device[d] = "active"   \* the other statuses return without a change
  /\ DeviceLockedBy(d) = {} /\ \A c \in Calls : ~SharesDevice(c, d)
  /\ revoker' = [revoker EXCEPT ![r] = [at |-> "locked", device |-> d, tokens |-> {}]]
  /\ UNCHANGED <<tables, call, answer, validator>>

\* The UPDATE of app.refresh_tokens sees the tokens committed when it starts.
SweepTokens_Forgotten(d) == {}
SweepTokens(d) == {k.call : k \in {k \in tokens : k.device = d}}

RevokeTokens(r) ==
  /\ revoker[r].at = "locked"
  /\ revoker' = [revoker EXCEPT ![r] = [at |-> "swept", device |-> revoker[r].device,
                                        tokens |-> SweepTokens(revoker[r].device)]]
  /\ UNCHANGED <<tables, call, answer, validator>>

\* COALESCE(revoked_at, CURRENT_TIMESTAMP) keeps an earlier time.
Coalesced_Now(c) == "device"
Coalesced(c) == IF revokedAt[c] = "null" THEN "device" ELSE revokedAt[c]

RevokeCommit(r) ==
  /\ revoker[r].at = "swept"
  /\ device' = [device EXCEPT ![revoker[r].device] = "revoked"]
  /\ revokedAt' = [c \in Calls |-> IF c \in revoker[r].tokens THEN Coalesced(c) ELSE revokedAt[c]]
  /\ revoker' = [revoker EXCEPT ![r] = [at |-> "idle", device |-> Unknown, tokens |-> {}]]
  /\ UNCHANGED <<active, ticket, ticketUser, expired, deviceUser, tokens, oldTokens, call,
                 answer, validator>>

RevokeFails(r) ==
  /\ revoker[r].at # "idle"
  /\ revoker' = [revoker EXCEPT ![r] = [at |-> "idle", device |-> Unknown, tokens |-> {}]]
  /\ UNCHANGED <<tables, call, answer, validator>>

-----------------------------------------------------------------------------
(* RefreshTokenService::validate: a read, and for a token past its expiry a *)
(* second statement that marks it.                                          *)

\* The record, if its device and its account are active.
Found(k) == k \in tokens /\ device[k.device] = "active" /\ ticketUser[k.ticket] \in active

\* The token exists, is not revoked and is past its expiry.  In every other case
\* validate changes nothing.
ValidateReads(v, k) ==
  /\ validator[v].at = "idle" /\ Found(k)
  /\ revokedAt[k.call] = "null" /\ k.call \in oldTokens
  /\ validator' = [validator EXCEPT ![v] = [at |-> "expired", token |-> k.call]]
  /\ UNCHANGED <<tables, call, answer, revoker>>

\* revokeRefreshToken: WHERE revoked_at IS NULL; the row is locked by a sweep.
RowSwept(c) == \E r \in Revokers : revoker[r].at = "swept" /\ c \in revoker[r].tokens
ValidateMarks(v) ==
  LET c == validator[v].token
  IN  /\ validator[v].at = "expired" /\ ~RowSwept(c)
      /\ revokedAt' = IF revokedAt[c] = "null" THEN [revokedAt EXCEPT ![c] = "expiry"]
                      ELSE revokedAt
      /\ validator' = [validator EXCEPT ![v] = [at |-> "idle", token |-> Unknown]]
      /\ UNCHANGED <<active, ticket, ticketUser, expired, device, deviceUser, tokens,
                     oldTokens, call, answer, revoker>>

-----------------------------------------------------------------------------
(* Time, and the administrator who disables an account in the database.     *)

TicketExpires(t) ==
  /\ ticket[t] # "none" /\ t \notin expired /\ expired' = expired \union {t}
  /\ UNCHANGED <<active, ticket, ticketUser, device, deviceUser, tokens, revokedAt,
                 oldTokens, txns>>

TokenExpires(c) ==
  /\ c \notin oldTokens /\ \E k \in tokens : k.call = c
  /\ oldTokens' = oldTokens \union {c}
  /\ UNCHANGED <<active, ticket, ticketUser, expired, device, deviceUser, tokens,
                 revokedAt, txns>>

DisableAccount(u) ==
  /\ u \in active /\ \A c \in Calls : ~SharesAccount(c, u)
  /\ active' = active \ {u}
  /\ UNCHANGED <<ticket, ticketUser, expired, device, deviceUser, tokens, revokedAt,
                 oldTokens, txns>>

CompleteStep(c) ==
  \/ LockTicket(c) \/ LockAccount(c) \/ LockDevice(c) \/ Consume(c) \/ RegisterNewDevice(c)
  \/ InsertRefreshToken(c) \/ Commit(c) \/ CommitLost(c) \/ CompleteFails(c)

Next ==
  \/ \E t \in Tickets, u \in Users : Issue(t, u)
  \/ \E c \in Calls, t \in Tickets, d \in Devices, new \in BOOLEAN : Complete(c, t, d, new)
  \/ \E c \in Calls : CompleteStep(c) \/ TokenExpires(c)
  \/ \E r \in Revokers, d \in Devices : RevokeLock(r, d)
  \/ \E r \in Revokers : RevokeTokens(r) \/ RevokeCommit(r) \/ RevokeFails(r)
  \/ \E v \in Validators, k \in tokens : ValidateReads(v, k)
  \/ \E v \in Validators : ValidateMarks(v)
  \/ \E t \in Tickets : TicketExpires(t)
  \/ \E u \in Users : DisableAccount(u)

Spec == Init /\ [][Next]_vars

-----------------------------------------------------------------------------
(* Properties.                                                              *)

\* A ticket is exchanged at most once, and only whole: it is consumed exactly when a
\* token that it bought is stored, whatever number of calls present it at once and
\* wherever one of them fails (the single transaction of complete()).
TicketBuysOneCredential ==
  /\ \A k \in tokens, l \in tokens : k.ticket = l.ticket => k = l
  /\ \A t \in Tickets : ticket[t] = "consumed" <=> \E k \in tokens : k.ticket = t

\* No refresh token of a revoked device is still good: a login that checked the
\* device before the revocation commits its token before the sweep of
\* revokeUserDevice, or finds the device revoked.
RevokedDeviceHasNoCredential ==
  \A k \in tokens : device[k.device] = "revoked" => revokedAt[k.call] # "null"

\* Once set, revoked_at of a token keeps its value, although a revocation and a
\* validation that finds the token expired may both want to set it.
RevocationStampKept ==
  [][\A c \in Calls : revokedAt[c] # "null" => revokedAt'[c] = revokedAt[c]]_vars
=============================================================================
