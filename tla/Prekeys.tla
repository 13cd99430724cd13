------------------------------ MODULE Prekeys ------------------------------
(***************************************************************************)
(* One-time prekeys: uploadOneTimePrekeys and getOneTimePrekey of          *)
(* ChatHandler, KeyService and KeyRepository, the queries of devices and   *)
(* key bundles, and the revocation of a device that they race with.  It    *)
(* runs beside the friend requests, which decide who may claim a key.      *)
(*                                                                         *)
(* Every operation checks the device (and a claim the friendship) without  *)
(* a lock, and again in its transaction under FOR SHARE; a revocation      *)
(* takes the device row FOR UPDATE.  The keys of a batch are inserted in   *)
(* the order of an unordered_map, so two uploads that share ids can wait   *)
(* for each other.  A claim takes the lowest available key that no other   *)
(* claim has locked.  Key material is the number of the upload it came     *)
(* with.  Bodies that fail validation start no call here.                  *)
(***************************************************************************)
EXTENDS Friendships

CONSTANTS Devices, Owner, KeyIds,
          NoKey        \* a prekey id of a device that no row has

ASSUME OwnerAssumption == Owner \in [Devices -> Users]
ASSUME KeyIdsAssumption == KeyIds \subseteq Nat
ASSUME NoKeyAssumption == NoKey \notin [by : Nat, state : {"available", "claimed"}]

VARIABLES
  device,    \* app.user_devices: status
  prekey,    \* app.device_one_time_prekeys, committed: the upload and the state
  upload,    \* what the caller of each upload was told, by number
  handed     \* keys handed to callers

keyVars == <<device, prekey, upload, handed>>
vars == <<friendVars, keyVars>>

KeyRow == [by : Nat, state : {"available", "claimed"}]
UploadCall == [at : {"upload.find", "upload.share", "upload.insert", "upload.commit"}, n : Nat,
               me : Users, device : Devices, batch : SUBSET KeyIds, left : SUBSET KeyIds]
ClaimCall == [at : {"claim.find", "claim.friend", "claim.share", "claim.take", "claim.commit"},
              me : Users, friend : Users, device : Devices, key : KeyIds \union {NoKey}]
RevokeCall == [at : {"revoke.lock", "revoke.commit"}, device : Devices]

TypeOK ==
  /\ FriendTypes(UploadCall \union ClaimCall \union RevokeCall)
  /\ device \in [Devices -> {"active", "revoked"}]
  /\ prekey \in [Devices -> [KeyIds -> KeyRow \union {NoKey}]]
  /\ upload \in [1..MaxCalls -> [device : Devices, batch : SUBSET KeyIds,
                                 answer : {"none", "Created", "Conflict", "Forbidden", "Error"}]
                                  \union {Idle}]
  /\ handed \subseteq [device : Devices, key : KeyIds, to : Users, by : Nat, n : Nat]

Init ==
  /\ FriendInit
  /\ device = [d \in Devices |-> "active"]
  /\ prekey = [d \in Devices |-> [k \in KeyIds |-> NoKey]]
  /\ upload = [n \in 1..MaxCalls |-> Idle]
  /\ handed = {}

-----------------------------------------------------------------------------
(* Row locks, by how far the transactions are.                              *)

\* MUTANT: the device is read again without a lock.
SharesDevice_Unlocked(t, d) == FALSE
SharesDevice(t, d) ==
  /\ thread[t].at \in {"upload.insert", "upload.commit", "claim.take", "claim.commit"}
  /\ thread[t].device = d
RevokesDevice(t, d) == thread[t].at = "revoke.commit" /\ thread[t].device = d

\* The keys a transaction has inserted, and the key a claim has updated.
InsertedKeys(t, d) ==
  IF thread[t].at \in {"upload.insert", "upload.commit"} /\ thread[t].device = d
  THEN thread[t].batch \ thread[t].left ELSE {}
\* MUTANT: a claim does not see that another has locked the key.
TakenKeys_NoLock(d) == {}
TakenKeys(d) ==
  {thread[t].key : t \in {u \in Threads : thread[u].at = "claim.commit" /\ thread[u].device = d}}

\* FindDeviceByDeviceId, and the same conditions in the transactions.
OwnsActive(u, d) == Owner[d] = u /\ device[d] = "active"

\* SELECT ... FOR SHARE of a device: no row if it does not qualify, otherwise it
\* waits for a revocation that holds the row.
ShareDevice(t, u, next) ==
  LET d == thread[t].device
  IN  \/ ~OwnsActive(u, d) /\ Returns(t)
      \/ /\ OwnsActive(u, d) /\ \A r \in Threads : ~RevokesDevice(r, d)
         /\ Goto(t, next)

-----------------------------------------------------------------------------
(* uploadOneTimePrekeys.                                                    *)

Answered(t, a) == upload' = [upload EXCEPT ![thread[t].n].answer = a]

UploadOneTimePrekeys(t, me, d, batch) ==
  LET n == calls + 1
  IN  /\ batch # {}
      /\ Begins(t, [at |-> "upload.find", n |-> n, me |-> me, device |-> d,
                    batch |-> batch, left |-> batch])
      /\ upload' = [upload EXCEPT ![n] = [device |-> d, batch |-> batch, answer |-> "none"]]
      /\ UNCHANGED <<request, relation, pushed, told, device, prekey, handed>>

\* The check of KeyService, before the transaction.
UploadFindDevice(t) ==
  LET found == OwnsActive(thread[t].me, thread[t].device)
  IN  /\ thread[t].at = "upload.find"
      /\ IF found THEN Goto(t, "upload.share") /\ UNCHANGED upload
                  ELSE Returns(t) /\ Answered(t, "Forbidden")
      /\ UNCHANGED <<request, relation, calls, pushed, told, device, prekey, handed>>

UploadShareDevice(t) ==
  /\ thread[t].at = "upload.share" /\ ShareDevice(t, thread[t].me, "upload.insert")
  /\ IF OwnsActive(thread[t].me, thread[t].device) THEN UNCHANGED upload
                                                   ELSE Answered(t, "Forbidden")
  /\ UNCHANGED <<request, relation, calls, pushed, told, device, prekey, handed>>

\* Another upload has inserted key k of this device and has not ended.
UploadWaits(t, k, u) == u # t /\ k \in InsertedKeys(u, thread[t].device)

\* MUTANT: an upsert overwrites the key that exists.
KeyExists_Upsert(d, k) == FALSE
KeyExists(d, k) == prekey[d][k] # NoKey

\* One INSERT of the loop.  A key that exists is the error 23505: the whole batch is
\* rolled back and the answer is 409.
InsertKey(t, k) ==
  /\ thread[t].at = "upload.insert" /\ k \in thread[t].left
  /\ \A u \in Threads : ~UploadWaits(t, k, u)
  /\ IF KeyExists(thread[t].device, k)
     THEN Returns(t) /\ Answered(t, "Conflict")
     ELSE /\ thread' = [thread EXCEPT
               ![t].left = @ \ {k},
               ![t].at = IF thread[t].left = {k} THEN "upload.commit" ELSE "upload.insert"]
          /\ UNCHANGED upload
  /\ UNCHANGED <<request, relation, calls, pushed, told, device, prekey, handed>>

UploadWrites(t) ==
  prekey' = [prekey EXCEPT ![thread[t].device] =
               [k \in KeyIds |-> IF k \in thread[t].batch
                                 THEN [by |-> thread[t].n, state |-> "available"] ELSE @[k]]]

CommitUpload(t) ==
  /\ thread[t].at = "upload.commit" /\ UploadWrites(t) /\ Returns(t) /\ Answered(t, "Created")
  /\ UNCHANGED <<request, relation, calls, pushed, told, device, handed>>

CommitUploadLost(t) ==
  /\ thread[t].at = "upload.commit" /\ UploadWrites(t) /\ Returns(t) /\ Answered(t, "Error")
  /\ UNCHANGED <<request, relation, calls, pushed, told, device, handed>>

\* Two batches in different orders: PostgreSQL aborts one upload (the answer is 500).
UploadDeadlocked(t) ==
  /\ thread[t].at = "upload.insert"
  /\ \E u \in Threads, j \in thread[t].left :
       /\ UploadWaits(t, j, u) /\ thread[u].at = "upload.insert"
       /\ \E k \in thread[u].left : UploadWaits(u, k, t)
  /\ Returns(t) /\ Answered(t, "Error")
  /\ UNCHANGED <<request, relation, calls, pushed, told, device, prekey, handed>>

UploadFails(t) ==
  /\ thread[t].at \in {"upload.find", "upload.share", "upload.insert", "upload.commit"}
  /\ Returns(t) /\ Answered(t, "Error")
  /\ UNCHANGED <<request, relation, calls, pushed, told, device, prekey, handed>>

-----------------------------------------------------------------------------
(* getOneTimePrekey.  The target of a claim is the caller or a user the     *)
(* body names.                                                              *)

GetOneTimePrekey(t, me, friend, d) ==
  /\ Begins(t, [at |-> "claim.find", me |-> me, friend |-> friend, device |-> d, key |-> NoKey])
  /\ UNCHANGED <<request, relation, pushed, told, keyVars>>

Related(t) == thread[t].me = thread[t].friend \/ VerifyFriendShip(thread[t].me, thread[t].friend)

\* The two queries of KeyService, before the transaction.
ClaimChecks(t) ==
  /\ thread[t].at = "claim.find"
  /\ IF Related(t) /\ OwnsActive(thread[t].friend, thread[t].device)
     THEN Goto(t, "claim.friend") ELSE Returns(t)
  /\ UNCHANGED <<request, relation, calls, pushed, told, keyVars>>

\* SELECT ... FROM friend_relation ... FOR SHARE: nothing updates or deletes its rows.
ClaimShareFriendship(t) ==
  /\ thread[t].at = "claim.friend"
  /\ IF Related(t) THEN Goto(t, "claim.share") ELSE Returns(t)
  /\ UNCHANGED <<request, relation, calls, pushed, told, keyVars>>

ClaimShareDevice(t) ==
  /\ thread[t].at = "claim.share" /\ ShareDevice(t, thread[t].friend, "claim.take")
  /\ UNCHANGED <<request, relation, calls, pushed, told, keyVars>>

\* The lowest available key, FOR UPDATE SKIP LOCKED; no key is the answer 404.
Claimable(d) ==
  {k \in KeyIds : prekey[d][k] # NoKey /\ prekey[d][k].state = "available"} \ TakenKeys(d)
TakeKey(t) ==
  LET keys == Claimable(thread[t].device)
  IN  /\ thread[t].at = "claim.take"
      /\ \/ keys = {} /\ Returns(t)
         \/ \E k \in keys :
              /\ \A j \in keys : k <= j
              /\ thread' = [thread EXCEPT ![t].at = "claim.commit", ![t].key = k]
      /\ UNCHANGED <<request, relation, calls, pushed, told, keyVars>>

ClaimWrites(t) ==
  prekey' = [prekey EXCEPT ![thread[t].device][thread[t].key].state = "claimed"]

CommitClaim(t) ==
  LET d == thread[t].device
      k == thread[t].key
  IN  /\ thread[t].at = "claim.commit" /\ ClaimWrites(t) /\ Returns(t)
      /\ handed' = handed \union {[device |-> d, key |-> k, to |-> thread[t].me,
                                   by |-> prekey[d][k].by, n |-> Cardinality(handed)]}
      /\ UNCHANGED <<request, relation, calls, pushed, told, device, upload>>

\* The claim is committed, the answer an error: the key is used up and nobody has it.
CommitClaimLost(t) ==
  /\ thread[t].at = "claim.commit" /\ ClaimWrites(t) /\ Returns(t)
  /\ UNCHANGED <<request, relation, calls, pushed, told, device, upload, handed>>

ClaimFails(t) ==
  /\ thread[t].at \in {"claim.find", "claim.friend", "claim.share", "claim.take", "claim.commit"}
  /\ Returns(t)
  /\ UNCHANGED <<request, relation, calls, pushed, told, keyVars>>

-----------------------------------------------------------------------------
(* UserRepository::revokeUserDevice, after the password was verified.       *)

RevokeDevice(t, d) ==
  /\ Begins(t, [at |-> "revoke.lock", device |-> d])
  /\ UNCHANGED <<request, relation, pushed, told, keyVars>>

LockDevice(t) ==
  LET d == thread[t].device
  IN  /\ thread[t].at = "revoke.lock"
      /\ \A u \in Threads : ~SharesDevice(u, d) /\ ~RevokesDevice(u, d)
      /\ IF device[d] = "active" THEN Goto(t, "revoke.commit") ELSE Returns(t)
      /\ UNCHANGED <<request, relation, calls, pushed, told, keyVars>>

CommitRevoke(t) ==
  /\ thread[t].at = "revoke.commit"
  /\ device' = [device EXCEPT ![thread[t].device] = "revoked"]
  /\ Returns(t)
  /\ UNCHANGED <<request, relation, calls, pushed, told, prekey, upload, handed>>

RevokeFails(t) ==
  /\ thread[t].at \in {"revoke.lock", "revoke.commit"} /\ Returns(t)
  /\ UNCHANGED <<request, relation, calls, pushed, told, keyVars>>

-----------------------------------------------------------------------------
KeyStep(t) ==
  \/ UploadFindDevice(t) \/ UploadShareDevice(t) \/ (\E k \in KeyIds : InsertKey(t, k))
  \/ CommitUpload(t) \/ UploadDeadlocked(t)
  \/ ClaimChecks(t) \/ ClaimShareFriendship(t) \/ ClaimShareDevice(t) \/ TakeKey(t)
  \/ CommitClaim(t) \/ LockDevice(t) \/ CommitRevoke(t)
KeyFault(t) ==
  CommitUploadLost(t) \/ UploadFails(t) \/ CommitClaimLost(t) \/ ClaimFails(t) \/ RevokeFails(t)

Step(t) == KeyStep(t) \/ (FriendStep(t) /\ UNCHANGED keyVars)

Next ==
  \/ FriendNext /\ UNCHANGED keyVars
  \/ \E t \in Threads :
       \/ \E me \in Users, d \in Devices, batch \in SUBSET KeyIds :
            UploadOneTimePrekeys(t, me, d, batch)
       \/ \E me \in Users, friend \in Users, d \in Devices : GetOneTimePrekey(t, me, friend, d)
       \/ \E d \in Devices : RevokeDevice(t, d)
       \/ KeyStep(t) \/ KeyFault(t)

Spec == Init /\ [][Next]_vars

(* A thread goes on with its call when the database lets it, and PostgreSQL *)
(* detects deadlocks; that a statement fails is not assumed.                *)
FairSpec == Spec /\ \A t \in Threads : WF_vars(Step(t))

-----------------------------------------------------------------------------
(* The queries.                                                             *)

\* GetUserDevicesByUserId: the active devices of oneself or of a friend.
UserDevices(me, friend) ==
  {d \in Devices : OwnsActive(friend, d) /\ (me = friend \/ <<me, friend>> \in relation)}
\* KeyService::fetchUserDevices: no result for a stranger (403), otherwise one list.
FetchUserDevices(me, friend) ==
  IF me # friend /\ ~VerifyFriendShip(me, friend) THEN {} ELSE {UserDevices(me, friend)}
\* getDeviceKeyBundle: the transaction that registers a device stores its bundle, so the
\* query finds one for the same devices.
HasKeyBundle(me, friend, d) == d \in UserDevices(me, friend)

-----------------------------------------------------------------------------
(* What the row locks give the transactions that hold them.                 *)

\* A device that is shared is active, and nobody is revoking it.
DeviceLocks ==
  \A t \in Threads, d \in Devices : SharesDevice(t, d) =>
    device[d] = "active" /\ \A u \in Threads : ~RevokesDevice(u, d)

\* A claim stays allowed, and the key it took is its own and available.
ClaimLocks ==
  \A t \in Threads :
    /\ thread[t].at \in {"claim.share", "claim.take", "claim.commit"} => Related(t)
    /\ thread[t].at \in {"claim.take", "claim.commit"} =>
         Owner[thread[t].device] = thread[t].friend
    /\ thread[t].at = "claim.commit" =>
         /\ thread[t].key \in KeyIds
         /\ prekey[thread[t].device][thread[t].key] # NoKey
         /\ prekey[thread[t].device][thread[t].key].state = "available"
         /\ \A u \in Threads :
              thread[u].at = "claim.commit" /\ thread[u].device = thread[t].device
                /\ thread[u].key = thread[t].key => u = t

\* An upload under way is the only one with its number, and has stored nothing.
Uploading(t) ==
  thread[t].at \in {"upload.find", "upload.share", "upload.insert", "upload.commit"}
UploadOwns ==
  \A t \in Threads : Uploading(t) =>
    /\ thread[t].n \in 1..calls
    /\ upload[thread[t].n] = [device |-> thread[t].device, batch |-> thread[t].batch,
                              answer |-> "none"]
    /\ thread[t].batch # {}
    /\ thread[t].at \in {"upload.find", "upload.share"} => thread[t].left = thread[t].batch
    /\ thread[t].at = "upload.commit" => thread[t].left = {}
    /\ \A d \in Devices, k \in KeyIds : prekey[d][k] # NoKey => prekey[d][k].by # thread[t].n
    /\ \A u \in Threads : Uploading(u) /\ thread[u].n = thread[t].n => u = t

\* The unique index: a key inserted by a transaction under way is nobody else's.
InsertLocks ==
  \A t \in Threads, d \in Devices : \A k \in InsertedKeys(t, d) :
    prekey[d][k] = NoKey /\ \A u \in Threads : k \in InsertedKeys(u, d) => u = t

\* Numbers of uploads are not used before they are given.
UploadNumbers ==
  /\ calls <= MaxCalls
  /\ \A n \in 1..MaxCalls : n > calls => upload[n] = Idle
  /\ \A d \in Devices, k \in KeyIds : prekey[d][k] # NoKey => prekey[d][k].by <= calls

-----------------------------------------------------------------------------
(* Properties.                                                              *)

\* A one-time prekey is handed to one caller at most, whatever claims, uploads and
\* lost COMMITs interleave; the caller owns the device or is a friend of its owner,
\* and finds it in the list of devices, with its bundle, unless it was revoked since.
PrekeyHandedOnce ==
  /\ \A h, i \in handed : h.device = i.device /\ h.key = i.key => h = i
  /\ \A h \in handed :
       /\ prekey[h.device][h.key] = [by |-> h.by, state |-> "claimed"]
       /\ \/ device[h.device] = "revoked"
          \/ /\ \E list \in FetchUserDevices(h.to, Owner[h.device]) : h.device \in list
             /\ HasKeyBundle(h.to, Owner[h.device], h.device)

\* A batch is stored whole or not at all, and the answer says which: 201 if all its
\* keys are this upload's, 409 or 403 if none is; a client whose upload was answered
\* with an error and that retries cannot find half a batch.
UploadIsWhole ==
  \A n \in 1..MaxCalls : upload[n] # Idle =>
    LET mine == {k \in KeyIds : LET row == prekey[upload[n].device][k]
                                IN  row # NoKey /\ row.by = n}
    IN  /\ mine \in {{}, upload[n].batch}
        /\ upload[n].answer = "Created" => mine # {}
        /\ upload[n].answer \in {"Conflict", "Forbidden"} => mine = {}

\* From the commit of its revocation on, a device gets no prekey and gives none away:
\* an upload or a claim that checked the device before holds it FOR SHARE, or checks
\* it again.
NothingForRevokedDevice ==
  [][\A d \in Devices : device[d] = "revoked" => prekey'[d] = prekey[d]]_vars

\* Every call of a friend or prekey operation is answered: transactions that wait for
\* each other's rows do not hang.  The calls of a behaviour are bounded, so this is that
\* all threads end up idle; with calls without end a revocation could be overtaken for
\* ever by calls that share its device.
CallsReturn == <>[](\A t \in Threads : thread[t].at = "idle")
=============================================================================
