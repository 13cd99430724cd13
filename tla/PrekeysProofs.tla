--------------------------- MODULE PrekeysProofs ---------------------------
(***************************************************************************)
(* Theorems about prekeys and friend requests together, for every number   *)
(* of users, devices, keys, threads and calls.  The friend requests are    *)
(* taken from FriendshipsProofs; here a lemma per conjunct says what the   *)
(* step of a thread may do to it, and a lemma per kind of step puts them   *)
(* together.                                                               *)
(***************************************************************************)
EXTENDS Prekeys, FriendshipsProofs, FiniteSetTheorems

KeyCalls == UploadCall \union ClaimCall \union RevokeCall
Calling == {Idle} \union CreateCall \union ProcessCall \union KeyCalls

\* The inductive invariant.
KeyInv ==
  /\ TypeOK /\ FriendInv /\ IsFiniteSet(handed)
  /\ DeviceLocks /\ ClaimLocks /\ UploadOwns /\ InsertLocks /\ UploadNumbers
  /\ PrekeyHandedOnce /\ UploadIsWhole

-----------------------------------------------------------------------------
(* Threads.                                                                 *)

ClaimSteps == {"claim.find", "claim.friend", "claim.share", "claim.take", "claim.commit"}
UploadSteps == {"upload.find", "upload.share", "upload.insert", "upload.commit"}
RevokeSteps == {"revoke.lock", "revoke.commit"}

\* The program counters of the key calls are not those of friend requests.
LEMMA KeyCallsApart == \A c \in KeyCalls : c.at \notin FriendSteps
<1> TAKE c \in KeyCalls
<1>1. c \in UploadCall => c.at \in UploadSteps
  BY DEF UploadCall, UploadSteps
<1>2. c \in ClaimCall => c.at \in ClaimSteps
  BY DEF ClaimCall, ClaimSteps
<1>3. c \in RevokeCall => c.at \in RevokeSteps
  BY DEF RevokeCall, RevokeSteps
<1> QED
  BY <1>1, <1>2, <1>3 DEF KeyCalls, FriendSteps, UploadSteps, ClaimSteps, RevokeSteps

\* What a thread's record holds follows from how far its call is.
LEMMA KeyFields ==
  ASSUME TypeOK, NEW t \in Threads
  PROVE  /\ thread[t].at \in UploadSteps => thread[t] \in UploadCall
         /\ thread[t].at \in ClaimSteps => thread[t] \in ClaimCall
         /\ thread[t].at \in RevokeSteps => thread[t] \in RevokeCall
<1>1. thread[t] \in Calling
  BY DEF TypeOK, FriendTypes, Calling, KeyCalls
<1>2. thread[t] = Idle => thread[t].at = "idle"
  BY DEF Idle
<1>3. thread[t] \in CreateCall => thread[t].at \in {"create", "notify"}
  BY DEF CreateCall
<1>4. thread[t] \in ProcessCall =>
        thread[t].at \in {"lock", "update", "first", "second", "commit"}
  BY DEF ProcessCall
<1>5. thread[t] \in UploadCall => thread[t].at \in UploadSteps
  BY DEF UploadCall, UploadSteps
<1>6. thread[t] \in ClaimCall => thread[t].at \in ClaimSteps
  BY DEF ClaimCall, ClaimSteps
<1>7. thread[t] \in RevokeCall => thread[t].at \in RevokeSteps
  BY DEF RevokeCall, RevokeSteps
<1> QED
  BY <1>1, <1>2, <1>3, <1>4, <1>5, <1>6, <1>7
     DEF Calling, KeyCalls, UploadSteps, ClaimSteps, RevokeSteps

\* The record of an upload, a claim or a revocation that takes its next step.
LEMMA UploadGoto ==
  ASSUME TypeOK, NEW t \in Threads, thread[t].at \in UploadSteps, NEW step \in UploadSteps,
         Goto(t, step)
  PROVE  thread' = [thread EXCEPT ![t] =
           [at |-> step, n |-> thread[t].n, me |-> thread[t].me, device |-> thread[t].device,
            batch |-> thread[t].batch, left |-> thread[t].left]]
<1>1. thread[t] = [at |-> thread[t].at, n |-> thread[t].n, me |-> thread[t].me,
                   device |-> thread[t].device, batch |-> thread[t].batch,
                   left |-> thread[t].left]
  BY KeyFields DEF UploadCall
<1>2. [thread[t] EXCEPT !.at = step] =
        [at |-> step, n |-> thread[t].n, me |-> thread[t].me, device |-> thread[t].device,
         batch |-> thread[t].batch, left |-> thread[t].left]
  BY <1>1
<1> QED
  BY <1>2 DEF Goto

LEMMA ClaimGoto ==
  ASSUME TypeOK, NEW t \in Threads, thread[t].at \in ClaimSteps, NEW step \in ClaimSteps,
         Goto(t, step)
  PROVE  thread' = [thread EXCEPT ![t] =
           [at |-> step, me |-> thread[t].me, friend |-> thread[t].friend,
            device |-> thread[t].device, key |-> thread[t].key]]
<1>1. thread[t] = [at |-> thread[t].at, me |-> thread[t].me, friend |-> thread[t].friend,
                   device |-> thread[t].device, key |-> thread[t].key]
  BY KeyFields DEF ClaimCall
<1>2. [thread[t] EXCEPT !.at = step] =
        [at |-> step, me |-> thread[t].me, friend |-> thread[t].friend,
         device |-> thread[t].device, key |-> thread[t].key]
  BY <1>1
<1> QED
  BY <1>2 DEF Goto

LEMMA RevokeGoto ==
  ASSUME TypeOK, NEW t \in Threads, thread[t].at \in RevokeSteps, NEW step \in RevokeSteps,
         Goto(t, step)
  PROVE  thread' = [thread EXCEPT ![t] = [at |-> step, device |-> thread[t].device]]
<1>1. thread[t] = [at |-> thread[t].at, device |-> thread[t].device]
  BY KeyFields DEF RevokeCall
<1>2. [thread[t] EXCEPT !.at = step] = [at |-> step, device |-> thread[t].device]
  BY <1>1
<1> QED
  BY <1>2 DEF Goto

\* The thread that moves is t, and it now runs c.
Moves(t, c) == thread' = [thread EXCEPT ![t] = c]

LEMMA MovesTo ==
  ASSUME TypeOK, NEW t \in Threads, NEW c, Moves(t, c)
  PROVE  thread'[t] = c /\ \A u \in Threads : u # t => thread'[u] = thread[u]
BY DEF Moves, TypeOK, FriendTypes

\* A key call writes no table of the friend requests.
LEMMA FriendsUndisturbed ==
  ASSUME TypeOK, FriendInv, NEW t \in Threads, NEW c \in {Idle} \union KeyCalls, Moves(t, c),
         UNCHANGED <<request, relation, told>>
  PROVE  FriendInv'
<1>1. c.at \notin {"update", "first", "second", "commit"}
  <2>1. c \in KeyCalls => c.at \notin FriendSteps
    BY KeyCallsApart
  <2>2. c = Idle => c.at = "idle"
    BY DEF Idle
  <2> QED
    BY <2>1, <2>2 DEF FriendSteps
<1>2. FriendTypes(KeyCalls)
  BY DEF TypeOK, KeyCalls
<1> QED
  BY <1>1, <1>2, QuietStep DEF Moves

\* ... and keeps the types of its own.
LEMMA TypesKept ==
  ASSUME TypeOK, NEW t \in Threads, NEW c \in {Idle} \union KeyCalls, Moves(t, c),
         UNCHANGED <<request, relation, told, pushed>>, calls' \in Nat
  PROVE  FriendTypes(KeyCalls)'
BY DEF TypeOK, FriendTypes, KeyCalls, Moves

-----------------------------------------------------------------------------
(* What the step of one thread may do to each conjunct.                     *)

LEMMA DeviceLocksKept ==
  ASSUME TypeOK, DeviceLocks, NEW t \in Threads, NEW c, Moves(t, c), UNCHANGED device,
         c.at \in {"upload.insert", "upload.commit", "claim.take", "claim.commit"} =>
           \/ SharesDevice(t, c.device)
           \/ device[c.device] = "active" /\ \A u \in Threads : ~RevokesDevice(u, c.device),
         c.at = "revoke.commit" => \A u \in Threads : ~SharesDevice(u, c.device)
  PROVE  DeviceLocks'
<1>1. thread'[t] = c /\ \A u \in Threads : u # t => thread'[u] = thread[u]
  BY MovesTo
<1> SUFFICES ASSUME NEW x \in Threads, NEW d \in Devices, SharesDevice(x, d)'
             PROVE  device[d] = "active" /\ \A u \in Threads : ~RevokesDevice(u, d)'
  BY DEF DeviceLocks
<1>2. CASE x = t
  <2>1. c.device = d /\ c.at \in {"upload.insert", "upload.commit", "claim.take", "claim.commit"}
    BY <1>1, <1>2 DEF SharesDevice
  <2>2. device[d] = "active" /\ \A u \in Threads : ~RevokesDevice(u, d)
    BY <2>1 DEF DeviceLocks
  <2> QED
    BY <1>1, <2>1, <2>2 DEF RevokesDevice
<1>3. CASE x # t
  <2>1. SharesDevice(x, d)
    BY <1>1, <1>3 DEF SharesDevice
  <2>2. device[d] = "active" /\ \A u \in Threads : ~RevokesDevice(u, d)
    BY <2>1 DEF DeviceLocks
  <2>3. ~RevokesDevice(t, d)'
    BY <1>1, <2>1 DEF RevokesDevice
  <2> QED
    BY <1>1, <2>2, <2>3 DEF RevokesDevice
<1> QED
  BY <1>2, <1>3

LEMMA ClaimLocksKept ==
  ASSUME TypeOK, ClaimLocks, NEW t \in Threads, NEW c, Moves(t, c), relation \subseteq relation',
         \A u \in Threads : u # t /\ thread[u].at = "claim.commit" =>
           prekey'[thread[u].device][thread[u].key] = prekey[thread[u].device][thread[u].key],
         c.at \in {"claim.share", "claim.take", "claim.commit"} =>
           c.me = c.friend \/ <<c.me, c.friend>> \in relation,
         c.at \in {"claim.take", "claim.commit"} => Owner[c.device] = c.friend,
         c.at = "claim.commit" =>
           /\ c.key \in KeyIds
           /\ prekey'[c.device][c.key] # NoKey
           /\ prekey'[c.device][c.key].state = "available"
           /\ c.key \notin TakenKeys(c.device)
  PROVE  ClaimLocks'
<1>1. thread'[t] = c /\ \A u \in Threads : u # t => thread'[u] = thread[u]
  BY MovesTo
<1>2. c.at = "claim.commit" =>
        \A u \in Threads : u # t => ~(/\ thread[u].at = "claim.commit"
                                      /\ thread[u].device = c.device /\ thread[u].key = c.key)
  BY DEF TakenKeys
<1> SUFFICES ASSUME NEW x \in Threads
             PROVE  /\ thread'[x].at \in {"claim.share", "claim.take", "claim.commit"} =>
                         Related(x)'
                    /\ thread'[x].at \in {"claim.take", "claim.commit"} =>
                         Owner[thread'[x].device] = thread'[x].friend
                    /\ thread'[x].at = "claim.commit" =>
                         /\ thread'[x].key \in KeyIds
                         /\ prekey'[thread'[x].device][thread'[x].key] # NoKey
                         /\ prekey'[thread'[x].device][thread'[x].key].state = "available"
                         /\ \A u \in Threads :
                              thread'[u].at = "claim.commit"
                                /\ thread'[u].device = thread'[x].device
                                /\ thread'[u].key = thread'[x].key => u = x
  BY DEF ClaimLocks
<1>3. CASE x = t
  BY <1>1, <1>2, <1>3 DEF Related, VerifyFriendShip
<1>4. CASE x # t
  <2>1. thread'[x] = thread[x]
    BY <1>1, <1>4
  <2>2. Related(x) => Related(x)'
    BY <2>1 DEF Related, VerifyFriendShip
  <2>3. ASSUME thread[x].at = "claim.commit", NEW u \in Threads, thread'[u].at = "claim.commit",
               thread'[u].device = thread[x].device, thread'[u].key = thread[x].key
        PROVE  u = x
    <3>1. CASE u = t
      BY <1>1, <1>2, <1>4, <2>3, <3>1
    <3>2. CASE u # t
      BY <1>1, <2>3, <3>2 DEF ClaimLocks
    <3> QED
      BY <3>1, <3>2
  <2> QED
    BY <1>4, <2>1, <2>2, <2>3 DEF ClaimLocks
<1> QED
  BY <1>3, <1>4

LEMMA UploadOwnsKept ==
  ASSUME TypeOK, UploadOwns, NEW t \in Threads, NEW c, Moves(t, c),
         calls' \in Nat, calls <= calls',
         \A u \in Threads : u # t /\ Uploading(u) =>
           /\ upload'[thread[u].n] = upload[thread[u].n]
           /\ \A d \in Devices, k \in KeyIds :
                prekey'[d][k] # NoKey => prekey'[d][k].by # thread[u].n,
         c.at \in UploadSteps =>
           /\ c.n \in 1..calls'
           /\ upload'[c.n] = [device |-> c.device, batch |-> c.batch, answer |-> "none"]
           /\ c.batch # {}
           /\ c.at \in {"upload.find", "upload.share"} => c.left = c.batch
           /\ c.at = "upload.commit" => c.left = {}
           /\ \A d \in Devices, k \in KeyIds : prekey'[d][k] # NoKey => prekey'[d][k].by # c.n
           /\ \A u \in Threads : u # t /\ Uploading(u) => thread[u].n # c.n
  PROVE  UploadOwns'
<1>1. thread'[t] = c /\ \A u \in Threads : u # t => thread'[u] = thread[u]
  BY MovesTo
<1>2. \A u \in Threads : Uploading(u)' <=> IF u = t THEN c.at \in UploadSteps ELSE Uploading(u)
  BY <1>1 DEF Uploading, UploadSteps
<1> SUFFICES ASSUME NEW x \in Threads, Uploading(x)'
             PROVE  /\ thread'[x].n \in 1..calls'
                    /\ upload'[thread'[x].n] = [device |-> thread'[x].device,
                                                batch |-> thread'[x].batch, answer |-> "none"]
                    /\ thread'[x].batch # {}
                    /\ thread'[x].at \in {"upload.find", "upload.share"} =>
                         thread'[x].left = thread'[x].batch
                    /\ thread'[x].at = "upload.commit" => thread'[x].left = {}
                    /\ \A d \in Devices, k \in KeyIds :
                         prekey'[d][k] # NoKey => prekey'[d][k].by # thread'[x].n
                    /\ \A u \in Threads : Uploading(u)' /\ thread'[u].n = thread'[x].n => u = x
  BY DEF UploadOwns
<1>3. CASE x = t
  BY <1>1, <1>2, <1>3
<1>4. CASE x # t
  <2>1. Uploading(x) /\ thread'[x] = thread[x]
    BY <1>1, <1>2, <1>4
  <2>2. /\ thread[x].n \in 1..calls
        /\ upload[thread[x].n] = [device |-> thread[x].device, batch |-> thread[x].batch,
                                  answer |-> "none"]
        /\ thread[x].batch # {}
        /\ thread[x].at \in {"upload.find", "upload.share"} => thread[x].left = thread[x].batch
        /\ thread[x].at = "upload.commit" => thread[x].left = {}
        /\ \A u \in Threads : Uploading(u) /\ thread[u].n = thread[x].n => u = x
    BY <2>1 DEF UploadOwns
  <2>3. thread[x].n \in 1..calls'
    BY <2>2 DEF TypeOK, FriendTypes
  <2>4. \A u \in Threads : Uploading(u)' /\ thread'[u].n = thread[x].n => u = x
    BY <1>1, <1>2, <1>4, <2>1, <2>2
  <2> QED
    BY <1>4, <2>1, <2>2, <2>3, <2>4
<1> QED
  BY <1>3, <1>4

LEMMA InsertLocksKept ==
  ASSUME TypeOK, InsertLocks, NEW t \in Threads, NEW c, Moves(t, c),
         \A u \in Threads, d \in Devices : u # t =>
           \A k \in InsertedKeys(u, d) : prekey'[d][k] = NoKey,
         c.at \in {"upload.insert", "upload.commit"} =>
           \A k \in c.batch \ c.left :
             prekey'[c.device][k] = NoKey
             /\ \A u \in Threads : u # t => k \notin InsertedKeys(u, c.device)
  PROVE  InsertLocks'
<1>1. thread'[t] = c /\ \A u \in Threads : u # t => thread'[u] = thread[u]
  BY MovesTo
<1>2. \A u \in Threads, d \in Devices : u # t => InsertedKeys(u, d)' = InsertedKeys(u, d)
  BY <1>1 DEF InsertedKeys
<1>3. \A d \in Devices : InsertedKeys(t, d)' =
        IF c.at \in {"upload.insert", "upload.commit"} /\ c.device = d THEN c.batch \ c.left ELSE {}
  BY <1>1 DEF InsertedKeys
<1> SUFFICES ASSUME NEW x \in Threads, NEW d \in Devices, NEW k \in InsertedKeys(x, d)'
             PROVE  prekey'[d][k] = NoKey /\ \A u \in Threads : k \in InsertedKeys(u, d)' => u = x
  BY DEF InsertLocks
<1>4. CASE x = t
  BY <1>2, <1>3, <1>4
<1>5. CASE x # t
  <2>1. k \in InsertedKeys(x, d)
    BY <1>2, <1>5
  <2>2. k \notin InsertedKeys(t, d)'
    BY <1>3, <1>5, <2>1
  <2> QED
    BY <1>2, <1>5, <2>1, <2>2 DEF InsertLocks
<1> QED
  BY <1>4, <1>5

\* What was handed out stays so: relations are only added, devices only revoked.
LEMMA HandedKept ==
  ASSUME PrekeyHandedOnce, UNCHANGED handed, relation \subseteq relation',
         \A d \in Devices : device'[d] = device[d] \/ device'[d] = "revoked",
         handed \subseteq [device : Devices, key : KeyIds, to : Users, by : Nat, n : Nat],
         \A h \in handed : prekey'[h.device][h.key] = prekey[h.device][h.key]
  PROVE  PrekeyHandedOnce'
<1>1. \A h, i \in handed : h.device = i.device /\ h.key = i.key => h = i
  BY DEF PrekeyHandedOnce
<1>2. ASSUME NEW h \in handed
      PROVE  /\ prekey'[h.device][h.key] = [by |-> h.by, state |-> "claimed"]
             /\ \/ device'[h.device] = "revoked"
                \/ /\ (\E list \in FetchUserDevices(h.to, Owner[h.device]) : h.device \in list)'
                   /\ HasKeyBundle(h.to, Owner[h.device], h.device)'
  <2>1. h.device \in Devices
    OBVIOUS
  <2>2. prekey[h.device][h.key] = [by |-> h.by, state |-> "claimed"]
    BY DEF PrekeyHandedOnce
  <2>3. \/ device[h.device] = "revoked"
        \/ HasKeyBundle(h.to, Owner[h.device], h.device)
    BY DEF PrekeyHandedOnce
  <2>4. CASE device[h.device] = "revoked" \/ device'[h.device] = "revoked"
    BY <2>1, <2>2, <2>4
  <2>5. CASE HasKeyBundle(h.to, Owner[h.device], h.device) /\ device'[h.device] = device[h.device]
    <3>1. /\ OwnsActive(Owner[h.device], h.device)
          /\ h.to = Owner[h.device] \/ <<h.to, Owner[h.device]>> \in relation
      BY <2>5 DEF HasKeyBundle, UserDevices
    <3>2. HasKeyBundle(h.to, Owner[h.device], h.device)'
      BY <2>1, <2>5, <3>1 DEF HasKeyBundle, UserDevices, OwnsActive
    <3>3. h.device \in UserDevices(h.to, Owner[h.device])'
      BY <3>2 DEF HasKeyBundle
    <3>4. (FetchUserDevices(h.to, Owner[h.device]))' = {UserDevices(h.to, Owner[h.device])'}
      BY <3>1 DEF FetchUserDevices, VerifyFriendShip
    <3> QED
      BY <2>2, <3>2, <3>3, <3>4
  <2> QED
    BY <2>1, <2>3, <2>4, <2>5
<1> QED
  BY <1>1, <1>2 DEF PrekeyHandedOnce

-----------------------------------------------------------------------------
(* The steps.                                                               *)

\* A step that writes nothing: the locks that the moving thread now holds must be
\* good ones.
LEMMA KeyQuiet ==
  ASSUME KeyInv, NEW t \in Threads, NEW c \in {Idle} \union KeyCalls, Moves(t, c),
         UNCHANGED <<request, relation, pushed, told, keyVars>>,
         calls' \in Nat, calls <= calls', calls' <= MaxCalls,
         c.at \in {"upload.insert", "upload.commit", "claim.take", "claim.commit"} =>
           \/ SharesDevice(t, c.device)
           \/ device[c.device] = "active" /\ \A u \in Threads : ~RevokesDevice(u, c.device),
         c.at = "revoke.commit" => \A u \in Threads : ~SharesDevice(u, c.device),
         c.at \in {"claim.share", "claim.take", "claim.commit"} =>
           c.me = c.friend \/ <<c.me, c.friend>> \in relation,
         c.at \in {"claim.take", "claim.commit"} => Owner[c.device] = c.friend,
         c.at = "claim.commit" =>
           /\ c.key \in KeyIds
           /\ prekey[c.device][c.key] # NoKey
           /\ prekey[c.device][c.key].state = "available"
           /\ c.key \notin TakenKeys(c.device),
         c.at \in UploadSteps =>
           /\ Uploading(t)
           /\ c.n = thread[t].n /\ c.device = thread[t].device /\ c.batch = thread[t].batch
           /\ c.at \in {"upload.find", "upload.share"} => c.left = c.batch
           /\ c.at = "upload.commit" => c.left = {},
         c.at \in {"upload.insert", "upload.commit"} =>
           \A k \in c.batch \ c.left :
             prekey[c.device][k] = NoKey
             /\ \A u \in Threads : u # t => k \notin InsertedKeys(u, c.device)
  PROVE  KeyInv'
<1>1. UNCHANGED <<request, relation, pushed, told, device, prekey, upload, handed>>
  BY DEF keyVars
<1>2. TypeOK'
  <2>1. FriendTypes(KeyCalls)'
    BY <1>1, TypesKept DEF KeyInv
  <2> QED
    BY <1>1, <2>1 DEF KeyInv, TypeOK, KeyCalls
<1>3. FriendInv' /\ IsFiniteSet(handed)'
  BY <1>1, FriendsUndisturbed DEF KeyInv
<1>4. DeviceLocks'
  BY <1>1, DeviceLocksKept DEF KeyInv
<1>5. ClaimLocks'
  BY <1>1, ClaimLocksKept DEF KeyInv
<1>6. UploadOwns'
  <2>1. \A u \in Threads : u # t /\ Uploading(u) =>
          /\ upload'[thread[u].n] = upload[thread[u].n]
          /\ \A d \in Devices, k \in KeyIds :
               prekey'[d][k] # NoKey => prekey'[d][k].by # thread[u].n
    BY <1>1 DEF KeyInv, UploadOwns
  <2>2. c.at \in UploadSteps =>
          /\ c.n \in 1..calls
          /\ upload'[c.n] = [device |-> c.device, batch |-> c.batch, answer |-> "none"]
          /\ c.batch # {}
          /\ \A d \in Devices, k \in KeyIds : prekey'[d][k] # NoKey => prekey'[d][k].by # c.n
          /\ \A u \in Threads : u # t /\ Uploading(u) => thread[u].n # c.n
    BY <1>1 DEF KeyInv, UploadOwns
  <2>3. c.at \in UploadSteps => c.n \in 1..calls'
    BY <2>2 DEF KeyInv, TypeOK, FriendTypes
  <2> QED
    BY <2>1, <2>2, <2>3, UploadOwnsKept DEF KeyInv
<1>7. InsertLocks'
  <2>1. \A u \in Threads, d \in Devices : u # t =>
          \A k \in InsertedKeys(u, d) : prekey'[d][k] = NoKey
    BY <1>1 DEF KeyInv, InsertLocks
  <2> QED
    BY <1>1, <2>1, InsertLocksKept DEF KeyInv
<1>8. UploadNumbers'
  <2>1. \A n \in 1..MaxCalls : n > calls' => n > calls
    BY MaxCallsAssumption DEF KeyInv, TypeOK, FriendTypes
  <2>2. ASSUME NEW d \in Devices, NEW k \in KeyIds, prekey[d][k] # NoKey
        PROVE  prekey[d][k].by <= calls'
    <3>1. prekey[d][k].by \in Nat /\ prekey[d][k].by <= calls
      BY <2>2 DEF KeyInv, TypeOK, KeyRow, UploadNumbers
    <3> QED
      BY <3>1 DEF KeyInv, TypeOK, FriendTypes
  <2> QED
    BY <1>1, <2>1, <2>2 DEF KeyInv, UploadNumbers
<1>9. PrekeyHandedOnce'
  BY <1>1, HandedKept DEF KeyInv, TypeOK
<1>10. UploadIsWhole'
  BY <1>1 DEF KeyInv, UploadIsWhole
<1> QED
  BY <1>2, <1>3, <1>4, <1>5, <1>6, <1>7, <1>8, <1>9, <1>10 DEF KeyInv

\* A claim or a revocation that ends without a write.
LEMMA ReturnKeeps ==
  ASSUME KeyInv, NEW t \in Threads, Returns(t),
         UNCHANGED <<request, relation, calls, pushed, told, keyVars>>
  PROVE  KeyInv'
<1>1. \E c \in {Idle} \union KeyCalls : Moves(t, c) /\ c.at = "idle"
  <2>1. Moves(t, Idle)
    BY DEF Moves, Returns
  <2>2. Idle.at = "idle"
    BY DEF Idle
  <2> QED
    BY <2>1, <2>2
<1>2. PICK c \in {Idle} \union KeyCalls : Moves(t, c) /\ c.at = "idle"
  BY <1>1
<1>3. calls' \in Nat /\ calls <= calls' /\ calls' <= MaxCalls
  BY DEF KeyInv, TypeOK, FriendTypes, UploadNumbers
<1>4. c.at \notin UploadSteps
  BY <1>2 DEF UploadSteps
<1> QED
  BY <1>2, <1>3, <1>4, KeyQuiet

\* An upload that ends without a write: Forbidden, Conflict, or an error.
LEMMA UploadEnds ==
  ASSUME KeyInv, NEW t \in Threads, Uploading(t), Returns(t),
         NEW a \in {"Forbidden", "Conflict", "Error"}, Answered(t, a),
         UNCHANGED <<request, relation, calls, pushed, told, device, prekey, handed>>
  PROVE  KeyInv'
<1> DEFINE n == thread[t].n
<1>1. Moves(t, Idle) /\ Idle.at = "idle" /\ Idle \in {Idle} \union KeyCalls
  BY DEF Moves, Returns, Idle
<1>2. calls \in Nat /\ calls <= MaxCalls /\ MaxCalls \in Nat
  BY MaxCallsAssumption DEF KeyInv, TypeOK, FriendTypes, UploadNumbers
<1>3. /\ n \in 1..MaxCalls /\ n \in 1..calls
      /\ upload[n] = [device |-> thread[t].device, batch |-> thread[t].batch, answer |-> "none"]
      /\ \A d \in Devices, k \in KeyIds : prekey[d][k] # NoKey => prekey[d][k].by # n
      /\ \A u \in Threads : Uploading(u) /\ thread[u].n = n => u = t
  BY <1>2 DEF KeyInv, UploadOwns
<1>4. thread[t] \in UploadCall
  BY KeyFields DEF KeyInv, Uploading, UploadSteps
<1>5. /\ upload' = [upload EXCEPT ![n] = [device |-> thread[t].device,
                                         batch |-> thread[t].batch, answer |-> a]]
      /\ upload \in [1..MaxCalls -> [device : Devices, batch : SUBSET KeyIds,
                       answer : {"none", "Created", "Conflict", "Forbidden", "Error"}]
                       \union {Idle}]
  <2>1. [upload[n] EXCEPT !.answer = a] =
          [device |-> thread[t].device, batch |-> thread[t].batch, answer |-> a]
    BY <1>3
  <2> QED
    BY <2>1 DEF Answered, KeyInv, TypeOK
<1>6. /\ upload'[n] = [device |-> thread[t].device, batch |-> thread[t].batch, answer |-> a]
      /\ \A m \in 1..MaxCalls : m # n => upload'[m] = upload[m]
  BY <1>3, <1>5
<1>7. TypeOK'
  <2>1. FriendTypes(KeyCalls)'
    BY <1>1, <1>2, TypesKept DEF KeyInv
  <2>2. [device |-> thread[t].device, batch |-> thread[t].batch, answer |-> a] \in
          [device : Devices, batch : SUBSET KeyIds,
           answer : {"none", "Created", "Conflict", "Forbidden", "Error"}]
    BY <1>4 DEF UploadCall
  <2> QED
    BY <1>3, <1>5, <2>1, <2>2 DEF KeyInv, TypeOK, KeyCalls
<1> HIDE DEF n
<1>8. FriendInv' /\ IsFiniteSet(handed)'
  BY <1>1, FriendsUndisturbed DEF KeyInv
<1>9. DeviceLocks' /\ ClaimLocks'
  BY <1>1, DeviceLocksKept, ClaimLocksKept DEF KeyInv
<1>10. UploadOwns'
  <2>1. ASSUME NEW u \in Threads, u # t, Uploading(u)
        PROVE  /\ upload'[thread[u].n] = upload[thread[u].n]
               /\ \A d \in Devices, k \in KeyIds :
                    prekey'[d][k] # NoKey => prekey'[d][k].by # thread[u].n
    <3>1. /\ thread[u].n \in 1..calls
          /\ \A d \in Devices, k \in KeyIds : prekey[d][k] # NoKey => prekey[d][k].by # thread[u].n
      BY <2>1 DEF KeyInv, UploadOwns
    <3>2. thread[u].n # n /\ thread[u].n \in 1..MaxCalls
      BY <1>2, <1>3, <2>1, <3>1
    <3> QED
      BY <1>6, <3>1, <3>2
  <2>2. Idle.at \notin UploadSteps
    BY <1>1 DEF UploadSteps
  <2>3. calls' \in Nat /\ calls <= calls'
    BY <1>2
  <2> QED
    BY <1>1, <2>1, <2>2, <2>3, UploadOwnsKept DEF KeyInv
<1>11. InsertLocks'
  <2>1. \A u \in Threads, d \in Devices : u # t =>
          \A k \in InsertedKeys(u, d) : prekey'[d][k] = NoKey
    BY DEF KeyInv, InsertLocks
  <2> QED
    BY <1>1, <2>1, InsertLocksKept DEF KeyInv
<1>12. UploadNumbers'
  BY <1>2, <1>3, <1>6 DEF KeyInv, UploadNumbers
<1>13. PrekeyHandedOnce'
  BY HandedKept DEF KeyInv, TypeOK
<1>14. UploadIsWhole'
  <2> SUFFICES ASSUME NEW m \in 1..MaxCalls, upload'[m] # Idle
               PROVE  LET mine == {k \in KeyIds : LET row == prekey'[upload'[m].device][k]
                                                  IN  row # NoKey /\ row.by = m}
                      IN  /\ mine \in {{}, upload'[m].batch}
                          /\ upload'[m].answer = "Created" => mine # {}
                          /\ upload'[m].answer \in {"Conflict", "Forbidden"} => mine = {}
    BY DEF UploadIsWhole
  <2>1. CASE m = n
    <3>1. upload'[m].device \in Devices
      BY <1>4, <1>6, <2>1 DEF UploadCall
    <3>2. {k \in KeyIds : LET row == prekey'[upload'[m].device][k]
                          IN  row # NoKey /\ row.by = m} = {}
      BY <1>3, <2>1, <3>1
    <3>3. upload'[m].answer # "Created"
      BY <1>6, <2>1
    <3> QED
      BY <3>2, <3>3
  <2>2. CASE m # n
    BY <1>6, <2>2 DEF KeyInv, UploadIsWhole
  <2> QED
    BY <2>1, <2>2
<1> QED
  BY <1>7, <1>8, <1>9, <1>10, <1>11, <1>12, <1>13, <1>14 DEF KeyInv

\* The checks of an upload, and its inserts.
LEMMA UploadStepKeeps ==
  ASSUME KeyInv, NEW t \in Threads,
         \/ UploadFindDevice(t) \/ UploadShareDevice(t) \/ UploadDeadlocked(t) \/ UploadFails(t)
         \/ \E k \in KeyIds : InsertKey(t, k)
  PROVE  KeyInv'
<1> DEFINE call(step, left) ==
      [at |-> step, n |-> thread[t].n, me |-> thread[t].me, device |-> thread[t].device,
       batch |-> thread[t].batch, left |-> left]
<1>1. Uploading(t) /\ thread[t].at \in UploadSteps
  BY DEF UploadFindDevice, UploadShareDevice, UploadDeadlocked, UploadFails, InsertKey,
         Uploading, UploadSteps
<1>2. thread[t] \in UploadCall
  BY <1>1, KeyFields DEF KeyInv
<1>3. UNCHANGED <<request, relation, calls, pushed, told, device, prekey, handed>>
  BY DEF UploadFindDevice, UploadShareDevice, UploadDeadlocked, UploadFails, InsertKey
<1>4. calls' \in Nat /\ calls <= calls' /\ calls' <= MaxCalls
  BY <1>3 DEF KeyInv, TypeOK, FriendTypes, UploadNumbers
<1>5. CASE \E a \in {"Forbidden", "Conflict", "Error"} : Returns(t) /\ Answered(t, a)
  BY <1>1, <1>3, <1>5, UploadEnds
<1>6. CASE UploadFindDevice(t) /\ Goto(t, "upload.share") /\ UNCHANGED upload
  <2> DEFINE c == call("upload.share", thread[t].left)
  <2>1. Moves(t, c)
    BY <1>1, <1>6, UploadGoto DEF KeyInv, Moves, UploadSteps
  <2>2. c \in KeyCalls
    BY <1>2 DEF KeyCalls, UploadCall
  <2>3. /\ c.at = "upload.share" /\ c.n = thread[t].n /\ c.device = thread[t].device
        /\ c.batch = thread[t].batch /\ c.left = c.batch
    BY <1>1, <1>6 DEF KeyInv, UploadOwns, UploadFindDevice
  <2>4. UNCHANGED <<request, relation, pushed, told, keyVars>>
    BY <1>3, <1>6 DEF keyVars
  <2> HIDE DEF c
  <2> QED
    BY <1>1, <1>4, <2>1, <2>2, <2>3, <2>4, KeyQuiet
<1>7. CASE UploadShareDevice(t) /\ OwnsActive(thread[t].me, thread[t].device)
  <2> DEFINE c == call("upload.insert", thread[t].left)
  <2>1. /\ Goto(t, "upload.insert") /\ UNCHANGED upload
        /\ \A r \in Threads : ~RevokesDevice(r, thread[t].device)
    BY <1>7 DEF UploadShareDevice, ShareDevice
  <2>2. Moves(t, c)
    BY <1>1, <2>1, UploadGoto DEF KeyInv, Moves, UploadSteps
  <2>3. c \in KeyCalls
    BY <1>2 DEF KeyCalls, UploadCall
  <2>4. /\ c.at = "upload.insert" /\ c.n = thread[t].n /\ c.device = thread[t].device
        /\ c.batch = thread[t].batch /\ c.left = c.batch
    BY <1>1, <1>7 DEF KeyInv, UploadOwns, UploadShareDevice
  <2>5. device[c.device] = "active"
    BY <1>7, <2>4 DEF OwnsActive
  <2>6. UNCHANGED <<request, relation, pushed, told, keyVars>>
    BY <1>3, <2>1 DEF keyVars
  <2> HIDE DEF c
  <2> QED
    BY <1>1, <1>4, <2>1, <2>2, <2>3, <2>4, <2>5, <2>6, KeyQuiet
<1>8. ASSUME NEW k \in KeyIds, InsertKey(t, k), ~KeyExists(thread[t].device, k)
      PROVE  KeyInv'
  <2> DEFINE step == IF thread[t].left = {k} THEN "upload.commit" ELSE "upload.insert"
             c == call(step, thread[t].left \ {k})
  <2>1. /\ thread[t].at = "upload.insert" /\ k \in thread[t].left
        /\ \A u \in Threads : ~UploadWaits(t, k, u)
        /\ thread' = [thread EXCEPT ![t].left = @ \ {k}, ![t].at = step]
        /\ UNCHANGED upload
    BY <1>8 DEF InsertKey
  <2>2. Moves(t, c)
    <3>1. thread[t] = call(thread[t].at, thread[t].left)
      BY <1>2 DEF UploadCall
    <3>2. [[thread[t] EXCEPT !.left = thread[t].left \ {k}] EXCEPT !.at = step] = c
      <4>1. [thread[t] EXCEPT !.left = thread[t].left \ {k}] =
              call(thread[t].at, thread[t].left \ {k})
        BY <3>1
      <4> HIDE DEF step
      <4>2. [call(thread[t].at, thread[t].left \ {k}) EXCEPT !.at = step] = c
        OBVIOUS
      <4> QED
        BY <4>1, <4>2
    <3>3. thread' = [thread EXCEPT ![t] =
                       [[thread[t] EXCEPT !.left = thread[t].left \ {k}] EXCEPT !.at = step]]
      BY <2>1 DEF KeyInv, TypeOK, FriendTypes
    <3> QED
      BY <3>2, <3>3 DEF Moves
  <2>3. c \in KeyCalls
    BY <1>2 DEF KeyCalls, UploadCall
  <2>4. /\ c.at \in {"upload.insert", "upload.commit"} /\ c.n = thread[t].n
        /\ c.device = thread[t].device /\ c.batch = thread[t].batch
        /\ c.left = thread[t].left \ {k}
        /\ c.at = "upload.commit" => c.left = {}
    BY <2>1
  <2>5. SharesDevice(t, c.device)
    BY <2>1, <2>4 DEF SharesDevice
  <2>6. ASSUME NEW j \in c.batch \ c.left
        PROVE  prekey[c.device][j] = NoKey
               /\ \A u \in Threads : u # t => j \notin InsertedKeys(u, c.device)
    <3>1. CASE j = k
      BY <1>8, <2>1, <2>4, <3>1 DEF KeyExists, UploadWaits
    <3>2. CASE j # k
      <4>1. j \in InsertedKeys(t, thread[t].device) /\ thread[t].device \in Devices
        BY <1>2, <2>1, <2>4, <2>6, <3>2 DEF InsertedKeys, UploadCall
      <4> QED
        BY <2>4, <4>1 DEF KeyInv, InsertLocks
    <3> QED
      BY <3>1, <3>2
  <2>7. c.at \in UploadSteps /\ c.at \notin {"upload.find", "upload.share"}
    BY <2>4 DEF UploadSteps
  <2>8. UNCHANGED <<request, relation, pushed, told, keyVars>>
    BY <1>3, <2>1 DEF keyVars
  <2> HIDE DEF c
  <2> QED
    BY <1>1, <1>4, <2>2, <2>3, <2>4, <2>5, <2>6, <2>7, <2>8, KeyQuiet
<1> QED
  <2>1. CASE UploadFindDevice(t)
    BY <1>5, <1>6, <2>1 DEF UploadFindDevice
  <2>2. CASE UploadShareDevice(t)
    BY <1>5, <1>7, <2>2 DEF UploadShareDevice, ShareDevice
  <2>3. CASE UploadDeadlocked(t) \/ UploadFails(t)
    BY <1>5, <2>3 DEF UploadDeadlocked, UploadFails
  <2>4. ASSUME NEW k \in KeyIds, InsertKey(t, k) PROVE KeyInv'
    BY <1>5, <1>8, <2>4 DEF InsertKey
  <2> QED
    BY <2>1, <2>2, <2>3, <2>4

\* The checks of a claim, and the choice of its key.
LEMMA ClaimStepKeeps ==
  ASSUME KeyInv, NEW t \in Threads,
         ClaimChecks(t) \/ ClaimShareFriendship(t) \/ ClaimShareDevice(t) \/ TakeKey(t)
           \/ ClaimFails(t)
  PROVE  KeyInv'
<1> DEFINE call(step, key) ==
      [at |-> step, me |-> thread[t].me, friend |-> thread[t].friend,
       device |-> thread[t].device, key |-> key]
<1>1. UNCHANGED <<request, relation, calls, pushed, told, keyVars>>
  BY DEF ClaimChecks, ClaimShareFriendship, ClaimShareDevice, TakeKey, ClaimFails
<1>2. thread[t] \in ClaimCall /\ thread[t].at \in ClaimSteps
  <2>1. thread[t].at \in ClaimSteps
    BY DEF ClaimChecks, ClaimShareFriendship, ClaimShareDevice, TakeKey, ClaimFails, ClaimSteps
  <2> QED
    BY <2>1, KeyFields DEF KeyInv
<1>3. calls' \in Nat /\ calls <= calls' /\ calls' <= MaxCalls
  BY <1>1 DEF KeyInv, TypeOK, FriendTypes, UploadNumbers
<1>4. \A step \in ClaimSteps, key \in KeyIds \union {NoKey} :
        call(step, key) \in KeyCalls /\ call(step, key).at \notin UploadSteps
  BY <1>2 DEF KeyCalls, ClaimCall, ClaimSteps, UploadSteps
<1>5. thread[t].key \in KeyIds \union {NoKey}
  BY <1>2 DEF ClaimCall
<1>6. CASE Returns(t)
  BY <1>1, <1>6, ReturnKeeps
<1>7. CASE ClaimChecks(t) /\ Goto(t, "claim.friend")
  <2> DEFINE c == call("claim.friend", thread[t].key)
  <2>1. Moves(t, c)
    BY <1>2, <1>7, ClaimGoto DEF KeyInv, Moves, ClaimSteps
  <2>2. c \in KeyCalls /\ c.at \notin UploadSteps
    BY <1>4, <1>5 DEF ClaimSteps
  <2>3. c.at = "claim.friend"
    OBVIOUS
  <2> HIDE DEF c
  <2> QED
    BY <1>1, <1>3, <2>1, <2>2, <2>3, KeyQuiet
<1>8. CASE ClaimShareFriendship(t) /\ Related(t) /\ Goto(t, "claim.share")
  <2> DEFINE c == call("claim.share", thread[t].key)
  <2>1. Moves(t, c)
    BY <1>2, <1>8, ClaimGoto DEF KeyInv, Moves, ClaimSteps
  <2>2. c \in KeyCalls /\ c.at \notin UploadSteps
    BY <1>4, <1>5 DEF ClaimSteps
  <2>3. c.at = "claim.share" /\ (c.me = c.friend \/ <<c.me, c.friend>> \in relation)
    BY <1>8 DEF Related, VerifyFriendShip
  <2> HIDE DEF c
  <2> QED
    BY <1>1, <1>3, <2>1, <2>2, <2>3, KeyQuiet
<1>9. CASE ClaimShareDevice(t) /\ OwnsActive(thread[t].friend, thread[t].device)
  <2> DEFINE c == call("claim.take", thread[t].key)
  <2>1. /\ Goto(t, "claim.take") /\ thread[t].at = "claim.share"
        /\ \A r \in Threads : ~RevokesDevice(r, thread[t].device)
    BY <1>9 DEF ClaimShareDevice, ShareDevice
  <2>2. Moves(t, c)
    BY <1>2, <2>1, ClaimGoto DEF KeyInv, Moves, ClaimSteps
  <2>3. c \in KeyCalls /\ c.at \notin UploadSteps
    BY <1>4, <1>5 DEF ClaimSteps
  <2>4. c.at = "claim.take" /\ (c.me = c.friend \/ <<c.me, c.friend>> \in relation)
    BY <2>1 DEF KeyInv, ClaimLocks, Related, VerifyFriendShip
  <2>5. /\ device[c.device] = "active" /\ Owner[c.device] = c.friend
        /\ \A u \in Threads : ~RevokesDevice(u, c.device)
    BY <1>9, <2>1 DEF OwnsActive
  <2> HIDE DEF c
  <2> QED
    BY <1>1, <1>3, <2>2, <2>3, <2>4, <2>5, KeyQuiet
<1>10. ASSUME TakeKey(t), NEW k \in Claimable(thread[t].device),
              thread' = [thread EXCEPT ![t].at = "claim.commit", ![t].key = k]
       PROVE  KeyInv'
  <2> DEFINE c == call("claim.commit", k)
  <2>1. Moves(t, c)
    <3>1. thread[t] = call(thread[t].at, thread[t].key)
      BY <1>2 DEF ClaimCall
    <3>2. [thread[t] EXCEPT !.at = "claim.commit"] = call("claim.commit", thread[t].key)
      BY <3>1
    <3>3. [call("claim.commit", thread[t].key) EXCEPT !.key = k] = c
      OBVIOUS
    <3>4. thread' = [thread EXCEPT ![t] =
                       [[thread[t] EXCEPT !.at = "claim.commit"] EXCEPT !.key = k]]
      BY <1>10 DEF KeyInv, TypeOK, FriendTypes
    <3> QED
      BY <3>2, <3>3, <3>4 DEF Moves
  <2>2. /\ k \in KeyIds /\ prekey[thread[t].device][k] # NoKey
        /\ prekey[thread[t].device][k].state = "available"
        /\ k \notin TakenKeys(thread[t].device)
    BY DEF Claimable
  <2>3. c \in KeyCalls /\ c.at \notin UploadSteps
    BY <1>4, <2>2 DEF ClaimSteps
  <2>4. thread[t].at = "claim.take"
    BY <1>10 DEF TakeKey
  <2>5. /\ c.at = "claim.commit" /\ c.device = thread[t].device /\ c.key = k
        /\ c.me = c.friend \/ <<c.me, c.friend>> \in relation
        /\ Owner[c.device] = c.friend
    BY <2>4 DEF KeyInv, ClaimLocks, Related, VerifyFriendShip
  <2>6. SharesDevice(t, c.device)
    BY <2>4, <2>5 DEF SharesDevice
  <2> HIDE DEF c
  <2> QED
    BY <1>1, <1>3, <2>1, <2>2, <2>3, <2>5, <2>6, KeyQuiet
<1> QED
  BY <1>6, <1>7, <1>8, <1>9, <1>10
     DEF ClaimChecks, ClaimShareFriendship, ClaimShareDevice, ShareDevice, TakeKey, ClaimFails

\* The lock of a revocation, and a revocation that fails.
LEMMA RevokeStepKeeps ==
  ASSUME KeyInv, NEW t \in Threads, LockDevice(t) \/ RevokeFails(t)
  PROVE  KeyInv'
<1>1. UNCHANGED <<request, relation, calls, pushed, told, keyVars>>
  BY DEF LockDevice, RevokeFails
<1>2. thread[t] \in RevokeCall /\ thread[t].at \in RevokeSteps
  <2>1. thread[t].at \in RevokeSteps
    BY DEF LockDevice, RevokeFails, RevokeSteps
  <2> QED
    BY <2>1, KeyFields DEF KeyInv
<1>3. calls' \in Nat /\ calls <= calls' /\ calls' <= MaxCalls
  BY <1>1 DEF KeyInv, TypeOK, FriendTypes, UploadNumbers
<1>4. CASE Returns(t)
  BY <1>1, <1>4, ReturnKeeps
<1>5. CASE LockDevice(t) /\ Goto(t, "revoke.commit")
  <2> DEFINE c == [at |-> "revoke.commit", device |-> thread[t].device]
  <2>1. Moves(t, c)
    BY <1>2, <1>5, RevokeGoto DEF KeyInv, Moves, RevokeSteps
  <2>2. c \in KeyCalls
    BY <1>2 DEF KeyCalls, RevokeCall
  <2>3. /\ c.at = "revoke.commit" /\ c.at \notin UploadSteps
        /\ \A u \in Threads : ~SharesDevice(u, c.device)
    BY <1>5 DEF LockDevice, UploadSteps
  <2> HIDE DEF c
  <2> QED
    BY <1>1, <1>3, <2>1, <2>2, <2>3, KeyQuiet
<1> QED
  BY <1>4, <1>5 DEF LockDevice, RevokeFails

\* A claim or a revocation begins.
LEMMA BeginsKeeps ==
  ASSUME KeyInv, NEW t \in Threads,
         \/ \E me \in Users, friend \in Users, d \in Devices : GetOneTimePrekey(t, me, friend, d)
         \/ \E d \in Devices : RevokeDevice(t, d)
  PROVE  KeyInv'
<1>1. /\ UNCHANGED <<request, relation, pushed, told, keyVars>>
      /\ calls' = calls + 1 /\ calls < MaxCalls
  BY DEF GetOneTimePrekey, RevokeDevice, Begins
<1>2. calls' \in Nat /\ calls <= calls' /\ calls' <= MaxCalls
  BY <1>1, MaxCallsAssumption DEF KeyInv, TypeOK, FriendTypes
<1>3. \E c \in KeyCalls : Moves(t, c) /\ c.at \in {"claim.find", "revoke.lock"}
  <2>1. ASSUME NEW me \in Users, NEW friend \in Users, NEW d \in Devices,
               GetOneTimePrekey(t, me, friend, d)
        PROVE  \E c \in KeyCalls : Moves(t, c) /\ c.at = "claim.find"
    <3> DEFINE c == [at |-> "claim.find", me |-> me, friend |-> friend, device |-> d,
                     key |-> NoKey]
    <3>1. c \in KeyCalls /\ Moves(t, c) /\ c.at = "claim.find"
      BY <2>1 DEF KeyCalls, ClaimCall, GetOneTimePrekey, Begins, Moves
    <3> QED
      BY <3>1
  <2>2. ASSUME NEW d \in Devices, RevokeDevice(t, d)
        PROVE  \E c \in KeyCalls : Moves(t, c) /\ c.at = "revoke.lock"
    <3> DEFINE c == [at |-> "revoke.lock", device |-> d]
    <3>1. c \in KeyCalls /\ Moves(t, c) /\ c.at = "revoke.lock"
      BY <2>2 DEF KeyCalls, RevokeCall, RevokeDevice, Begins, Moves
    <3> QED
      BY <3>1
  <2> QED
    BY <2>1, <2>2
<1>4. PICK c \in KeyCalls : Moves(t, c) /\ c.at \in {"claim.find", "revoke.lock"}
  BY <1>3
<1>5. c.at \notin UploadSteps
  BY <1>4 DEF UploadSteps
<1> QED
  BY <1>1, <1>2, <1>4, <1>5, KeyQuiet

\* An upload begins: its number is new.
LEMMA UploadBeginKeeps ==
  ASSUME KeyInv, NEW t \in Threads, NEW me \in Users, NEW d \in Devices,
         NEW batch \in SUBSET KeyIds, UploadOneTimePrekeys(t, me, d, batch)
  PROVE  KeyInv'
<1> DEFINE n == calls + 1
           c == [at |-> "upload.find", n |-> n, me |-> me, device |-> d, batch |-> batch,
                 left |-> batch]
           record == [device |-> d, batch |-> batch, answer |-> "none"]
<1>1. /\ batch # {} /\ calls < MaxCalls /\ calls' = n /\ Moves(t, c)
      /\ upload' = [upload EXCEPT ![n] = record]
      /\ UNCHANGED <<request, relation, pushed, told, device, prekey, handed>>
  BY DEF UploadOneTimePrekeys, Begins, Moves
<1>2. calls \in Nat /\ MaxCalls \in Nat /\ n \in Nat /\ n \in 1..MaxCalls
  BY <1>1, MaxCallsAssumption DEF KeyInv, TypeOK, FriendTypes
<1>3. c \in KeyCalls
  BY <1>2 DEF KeyCalls, UploadCall
<1>4. /\ c.at = "upload.find" /\ c.n = n /\ c.device = d /\ c.batch = batch /\ c.left = batch
      /\ record.device = d /\ record.batch = batch /\ record.answer = "none"
      /\ record \in [device : Devices, batch : SUBSET KeyIds,
                     answer : {"none", "Created", "Conflict", "Forbidden", "Error"}]
  OBVIOUS
<1>5. upload'[n] = record /\ \A m \in 1..MaxCalls : m # n => upload'[m] = upload[m]
  BY <1>1, <1>2 DEF KeyInv, TypeOK
<1>6. \A e \in Devices, k \in KeyIds :
        prekey[e][k] # NoKey => /\ prekey[e][k].by \in Nat /\ prekey[e][k].by <= calls
                                /\ prekey[e][k].by # n
  <2>1. ASSUME NEW e \in Devices, NEW k \in KeyIds, prekey[e][k] # NoKey
        PROVE  prekey[e][k].by \in Nat /\ prekey[e][k].by <= calls
    BY <2>1 DEF KeyInv, TypeOK, KeyRow, UploadNumbers
  <2> QED
    BY <1>2, <2>1
<1> HIDE DEF c, record
<1>7. TypeOK'
  <2>1. FriendTypes(KeyCalls)'
    BY <1>1, <1>2, <1>3, TypesKept DEF KeyInv
  <2> QED
    BY <1>1, <1>4, <2>1 DEF KeyInv, TypeOK, KeyCalls
<1>8. FriendInv' /\ IsFiniteSet(handed)'
  BY <1>1, <1>3, FriendsUndisturbed DEF KeyInv
<1>9. DeviceLocks' /\ ClaimLocks'
  BY <1>1, <1>4, DeviceLocksKept, ClaimLocksKept DEF KeyInv
<1>10. UploadOwns'
  <2>1. ASSUME NEW u \in Threads, u # t, Uploading(u)
        PROVE  /\ upload'[thread[u].n] = upload[thread[u].n] /\ thread[u].n # n
               /\ \A e \in Devices, k \in KeyIds :
                    prekey'[e][k] # NoKey => prekey'[e][k].by # thread[u].n
    <3>1. /\ thread[u].n \in 1..calls
          /\ \A e \in Devices, k \in KeyIds : prekey[e][k] # NoKey => prekey[e][k].by # thread[u].n
      BY <2>1 DEF KeyInv, UploadOwns
    <3>2. thread[u].n # n /\ thread[u].n \in 1..MaxCalls
      BY <1>1, <1>2, <3>1
    <3> QED
      BY <1>1, <1>5, <3>1, <3>2
  <2>2. calls' \in Nat /\ calls <= calls' /\ n \in 1..calls'
    BY <1>1, <1>2
  <2>3. c.n \in 1..calls' /\ upload'[c.n] = [device |-> c.device, batch |-> c.batch,
                                             answer |-> "none"]
    BY <1>4, <1>5, <2>2 DEF record
  <2> QED
    BY <1>1, <1>4, <1>6, <2>1, <2>2, <2>3, UploadOwnsKept DEF KeyInv
<1>11. InsertLocks'
  <2>1. \A u \in Threads, e \in Devices : u # t =>
          \A k \in InsertedKeys(u, e) : prekey'[e][k] = NoKey
    BY <1>1 DEF KeyInv, InsertLocks
  <2> QED
    BY <1>1, <1>4, <2>1, InsertLocksKept DEF KeyInv
<1>12. UploadNumbers'
  BY <1>1, <1>2, <1>5, <1>6 DEF KeyInv, UploadNumbers
<1>13. PrekeyHandedOnce'
  BY <1>1, HandedKept DEF KeyInv, TypeOK
<1>14. UploadIsWhole'
  <2> SUFFICES ASSUME NEW m \in 1..MaxCalls, upload'[m] # Idle
               PROVE  LET mine == {k \in KeyIds : LET row == prekey'[upload'[m].device][k]
                                                  IN  row # NoKey /\ row.by = m}
                      IN  /\ mine \in {{}, upload'[m].batch}
                          /\ upload'[m].answer = "Created" => mine # {}
                          /\ upload'[m].answer \in {"Conflict", "Forbidden"} => mine = {}
    BY DEF UploadIsWhole
  <2>1. CASE m = n
    BY <1>1, <1>4, <1>5, <1>6, <2>1
  <2>2. CASE m # n
    BY <1>1, <1>5, <2>2 DEF KeyInv, UploadIsWhole
  <2> QED
    BY <2>1, <2>2
<1> QED
  BY <1>7, <1>8, <1>9, <1>10, <1>11, <1>12, <1>13, <1>14 DEF KeyInv

\* COMMIT of a revocation: no transaction shares the device.
LEMMA RevokeCommitKeeps ==
  ASSUME KeyInv, NEW t \in Threads, CommitRevoke(t)
  PROVE  KeyInv'
<1> DEFINE d == thread[t].device
<1>1. /\ thread[t].at = "revoke.commit" /\ Returns(t)
      /\ device' = [device EXCEPT ![d] = "revoked"]
      /\ UNCHANGED <<request, relation, calls, pushed, told, prekey, upload, handed>>
  BY DEF CommitRevoke
<1>2. d \in Devices
  BY <1>1, KeyFields DEF KeyInv, RevokeSteps, RevokeCall
<1>3. PICK c \in {Idle} \union KeyCalls : Moves(t, c) /\ c.at = "idle"
  <2>1. Moves(t, Idle)
    BY <1>1 DEF Moves, Returns
  <2>2. Idle.at = "idle"
    BY DEF Idle
  <2> QED
    BY <2>1, <2>2
<1>4. thread'[t] = c /\ \A u \in Threads : u # t => thread'[u] = thread[u]
  BY <1>3, MovesTo DEF KeyInv
<1>5. /\ device' \in [Devices -> {"active", "revoked"}]
      /\ \A e \in Devices : e # d => device'[e] = device[e]
      /\ \A e \in Devices : device'[e] = device[e] \/ device'[e] = "revoked"
  BY <1>1 DEF KeyInv, TypeOK
<1>6. calls \in Nat
  BY DEF KeyInv, TypeOK, FriendTypes
<1>7. TypeOK'
  <2>1. FriendTypes(KeyCalls)'
    BY <1>1, <1>3, <1>6, TypesKept DEF KeyInv
  <2> QED
    BY <1>1, <1>5, <2>1 DEF KeyInv, TypeOK, KeyCalls
<1>8. FriendInv' /\ IsFiniteSet(handed)'
  BY <1>1, <1>3, FriendsUndisturbed DEF KeyInv
<1>9. DeviceLocks'
  <2> SUFFICES ASSUME NEW x \in Threads, NEW e \in Devices, SharesDevice(x, e)'
               PROVE  device'[e] = "active" /\ \A u \in Threads : ~RevokesDevice(u, e)'
    BY DEF DeviceLocks
  <2>1. x # t
    BY <1>3, <1>4 DEF SharesDevice
  <2>2. SharesDevice(x, e)
    BY <1>4, <2>1 DEF SharesDevice
  <2>3. e # d
    BY <1>1, <2>2 DEF KeyInv, DeviceLocks, RevokesDevice
  <2>4. device[e] = "active" /\ \A u \in Threads : ~RevokesDevice(u, e)
    BY <2>2 DEF KeyInv, DeviceLocks
  <2>5. \A u \in Threads : ~RevokesDevice(u, e)'
    BY <1>3, <1>4, <2>4 DEF RevokesDevice
  <2> QED
    BY <1>5, <2>3, <2>4, <2>5
<1>10. ClaimLocks'
  BY <1>1, <1>3, ClaimLocksKept DEF KeyInv
<1>11. UploadOwns'
  <2>1. \A u \in Threads : u # t /\ Uploading(u) =>
          /\ upload'[thread[u].n] = upload[thread[u].n]
          /\ \A e \in Devices, k \in KeyIds :
               prekey'[e][k] # NoKey => prekey'[e][k].by # thread[u].n
    BY <1>1 DEF KeyInv, UploadOwns
  <2>2. calls' \in Nat /\ calls <= calls' /\ c.at \notin UploadSteps
    BY <1>1, <1>3, <1>6 DEF UploadSteps
  <2> QED
    BY <1>3, <2>1, <2>2, UploadOwnsKept DEF KeyInv
<1>12. InsertLocks'
  <2>1. \A u \in Threads, e \in Devices : u # t =>
          \A k \in InsertedKeys(u, e) : prekey'[e][k] = NoKey
    BY <1>1 DEF KeyInv, InsertLocks
  <2> QED
    BY <1>3, <2>1, InsertLocksKept DEF KeyInv
<1>13. UploadNumbers' /\ UploadIsWhole'
  BY <1>1 DEF KeyInv, UploadNumbers, UploadIsWhole
<1>14. PrekeyHandedOnce'
  BY <1>1, <1>5, HandedKept DEF KeyInv, TypeOK
<1> QED
  BY <1>7, <1>8, <1>9, <1>10, <1>11, <1>12, <1>13, <1>14 DEF KeyInv

\* COMMIT of an upload: its keys are the ones it inserted, so no row is overwritten.
LEMMA UploadCommitKeeps ==
  ASSUME KeyInv, NEW t \in Threads, CommitUpload(t) \/ CommitUploadLost(t)
  PROVE  KeyInv'
<1> DEFINE n == thread[t].n
           d == thread[t].device
           batch == thread[t].batch
           row == [by |-> n, state |-> "available"]
<1>1. /\ thread[t].at = "upload.commit" /\ UploadWrites(t) /\ Returns(t)
      /\ \E a \in {"Created", "Error"} : Answered(t, a)
      /\ UNCHANGED <<request, relation, calls, pushed, told, device, handed>>
  BY DEF CommitUpload, CommitUploadLost
<1>2. PICK a \in {"Created", "Error"} : Answered(t, a)
  BY <1>1
<1>3. Uploading(t)
  BY <1>1 DEF Uploading
<1>4. thread[t] \in UploadCall
  BY <1>1, KeyFields DEF KeyInv, UploadSteps
<1>5. d \in Devices /\ batch \subseteq KeyIds /\ n \in Nat
  BY <1>4 DEF UploadCall
<1>6. PICK c \in {Idle} \union KeyCalls : Moves(t, c) /\ c.at = "idle"
  <2>1. Moves(t, Idle)
    BY <1>1 DEF Moves, Returns
  <2>2. Idle.at = "idle"
    BY DEF Idle
  <2> QED
    BY <2>1, <2>2
<1>7. calls \in Nat /\ calls <= MaxCalls /\ MaxCalls \in Nat
  BY MaxCallsAssumption DEF KeyInv, TypeOK, FriendTypes, UploadNumbers
<1>8. /\ n \in 1..MaxCalls /\ n \in 1..calls /\ batch # {} /\ thread[t].left = {}
      /\ upload[n] = [device |-> d, batch |-> batch, answer |-> "none"]
      /\ \A e \in Devices, k \in KeyIds : prekey[e][k] # NoKey => prekey[e][k].by # n
      /\ \A u \in Threads : Uploading(u) /\ thread[u].n = n => u = t
  BY <1>1, <1>3, <1>7 DEF KeyInv, UploadOwns
<1>9. InsertedKeys(t, d) = batch
  BY <1>1, <1>8 DEF InsertedKeys
<1>10. \A k \in batch : prekey[d][k] = NoKey
                        /\ \A u \in Threads : k \in InsertedKeys(u, d) => u = t
  BY <1>5, <1>9 DEF KeyInv, InsertLocks
<1>11. row \in KeyRow /\ row # NoKey /\ row.by = n
  BY <1>5, NoKeyAssumption DEF KeyRow
<1>12. /\ prekey' \in [Devices -> [KeyIds -> KeyRow \union {NoKey}]]
       /\ \A e \in Devices, k \in KeyIds :
            prekey'[e][k] = IF e = d /\ k \in batch THEN row ELSE prekey[e][k]
  <2>1. prekey' = [prekey EXCEPT ![d] = [k \in KeyIds |-> IF k \in batch THEN row
                                                                         ELSE prekey[d][k]]]
    BY <1>1, <1>5 DEF UploadWrites, KeyInv, TypeOK
  <2> HIDE DEF row
  <2> QED
    BY <1>5, <1>11, <2>1 DEF KeyInv, TypeOK
<1>13. /\ upload' = [upload EXCEPT ![n] = [device |-> d, batch |-> batch, answer |-> a]]
       /\ upload \in [1..MaxCalls -> [device : Devices, batch : SUBSET KeyIds,
                        answer : {"none", "Created", "Conflict", "Forbidden", "Error"}]
                        \union {Idle}]
  <2>1. [upload[n] EXCEPT !.answer = a] = [device |-> d, batch |-> batch, answer |-> a]
    BY <1>8
  <2> QED
    BY <1>2, <2>1 DEF Answered, KeyInv, TypeOK
<1>14. /\ upload'[n] = [device |-> d, batch |-> batch, answer |-> a]
       /\ \A m \in 1..MaxCalls : m # n => upload'[m] = upload[m]
  BY <1>8, <1>13
<1>15. TypeOK'
  <2>1. FriendTypes(KeyCalls)'
    BY <1>1, <1>6, <1>7, TypesKept DEF KeyInv
  <2>2. [device |-> d, batch |-> batch, answer |-> a] \in
          [device : Devices, batch : SUBSET KeyIds,
           answer : {"none", "Created", "Conflict", "Forbidden", "Error"}]
    BY <1>5
  <2>3. upload' \in [1..MaxCalls -> [device : Devices, batch : SUBSET KeyIds,
                       answer : {"none", "Created", "Conflict", "Forbidden", "Error"}]
                       \union {Idle}]
    BY <1>8, <1>13, <2>2
  <2> QED
    BY <1>1, <1>12, <2>1, <2>3 DEF KeyInv, TypeOK, KeyCalls
<1> HIDE DEF n, d, batch, row
<1>16. FriendInv' /\ IsFiniteSet(handed)'
  BY <1>1, <1>6, FriendsUndisturbed DEF KeyInv
<1>17. DeviceLocks'
  BY <1>1, <1>6, DeviceLocksKept DEF KeyInv
<1>18. ClaimLocks'
  <2>1. ASSUME NEW u \in Threads, u # t, thread[u].at = "claim.commit"
        PROVE  prekey'[thread[u].device][thread[u].key] = prekey[thread[u].device][thread[u].key]
    <3>1. /\ thread[u].key \in KeyIds
          /\ prekey[thread[u].device][thread[u].key] # NoKey
      BY <2>1 DEF KeyInv, ClaimLocks
    <3>2. thread[u].device \in Devices
      BY <2>1, KeyFields DEF KeyInv, ClaimSteps, ClaimCall
    <3> QED
      BY <1>10, <1>12, <3>1, <3>2
  <2>2. relation \subseteq relation'
    BY <1>1
  <2> QED
    BY <1>6, <2>1, <2>2, ClaimLocksKept DEF KeyInv
<1>19. UploadOwns'
  <2>1. ASSUME NEW u \in Threads, u # t, Uploading(u)
        PROVE  /\ upload'[thread[u].n] = upload[thread[u].n]
               /\ \A e \in Devices, k \in KeyIds :
                    prekey'[e][k] # NoKey => prekey'[e][k].by # thread[u].n
    <3>1. /\ thread[u].n \in 1..calls
          /\ \A e \in Devices, k \in KeyIds : prekey[e][k] # NoKey => prekey[e][k].by # thread[u].n
      BY <2>1 DEF KeyInv, UploadOwns
    <3>2. thread[u].n # n /\ thread[u].n \in 1..MaxCalls
      BY <1>7, <1>8, <2>1, <3>1
    <3> QED
      BY <1>11, <1>12, <1>14, <3>1, <3>2
  <2>2. calls' \in Nat /\ calls <= calls' /\ c.at \notin UploadSteps
    BY <1>1, <1>6, <1>7 DEF UploadSteps
  <2> QED
    BY <1>6, <2>1, <2>2, UploadOwnsKept DEF KeyInv
<1>20. InsertLocks'
  <2>1. ASSUME NEW u \in Threads, NEW e \in Devices, u # t, NEW k \in InsertedKeys(u, e)
        PROVE  prekey'[e][k] = NoKey
    <3>1. prekey[e][k] = NoKey
      BY DEF KeyInv, InsertLocks
    <3>2. k \in KeyIds
      <4>1. thread[u].at \in {"upload.insert", "upload.commit"} /\ k \in thread[u].batch
        BY DEF InsertedKeys
      <4> QED
        BY <4>1, KeyFields DEF KeyInv, UploadSteps, UploadCall
    <3>3. ~(e = d /\ k \in batch)
      BY <1>10, <2>1
    <3> QED
      BY <1>12, <3>1, <3>2, <3>3
  <2> QED
    BY <1>6, <2>1, InsertLocksKept DEF KeyInv
<1>21. UploadNumbers'
  <2>1. \A m \in 1..MaxCalls : m > calls' => upload'[m] = Idle
    BY <1>1, <1>7, <1>8, <1>14 DEF KeyInv, UploadNumbers
  <2>2. \A e \in Devices, k \in KeyIds : prekey'[e][k] # NoKey => prekey'[e][k].by <= calls'
    BY <1>1, <1>7, <1>8, <1>11, <1>12 DEF KeyInv, UploadNumbers
  <2> QED
    BY <1>1, <1>7, <2>1, <2>2 DEF UploadNumbers
<1>22. PrekeyHandedOnce'
  <2>1. ASSUME NEW h \in handed
        PROVE  prekey'[h.device][h.key] = prekey[h.device][h.key]
    <3>1. prekey[h.device][h.key] = [by |-> h.by, state |-> "claimed"]
      BY DEF KeyInv, PrekeyHandedOnce
    <3>2. h.device \in Devices /\ h.key \in KeyIds /\ h.by \in Nat
      BY DEF KeyInv, TypeOK
    <3>3. prekey[h.device][h.key] # NoKey
      BY <3>1, <3>2, NoKeyAssumption
    <3> QED
      BY <1>10, <1>12, <3>2, <3>3
  <2> QED
    BY <1>1, <2>1, HandedKept DEF KeyInv, TypeOK
<1>23. UploadIsWhole'
  <2> SUFFICES ASSUME NEW m \in 1..MaxCalls, upload'[m] # Idle
               PROVE  LET mine == {k \in KeyIds : LET r == prekey'[upload'[m].device][k]
                                                  IN  r # NoKey /\ r.by = m}
                      IN  /\ mine \in {{}, upload'[m].batch}
                          /\ upload'[m].answer = "Created" => mine # {}
                          /\ upload'[m].answer \in {"Conflict", "Forbidden"} => mine = {}
    BY DEF UploadIsWhole
  <2>1. CASE m = n
    <3>1. upload'[m].device = d /\ upload'[m].batch = batch /\ upload'[m].answer = a
      BY <1>14, <2>1
    <3>2. {k \in KeyIds : prekey'[d][k] # NoKey /\ prekey'[d][k].by = m} = batch
      BY <1>5, <1>8, <1>11, <1>12, <2>1
    <3> QED
      BY <1>8, <3>1, <3>2
  <2>2. CASE m # n
    <3>1. upload'[m] = upload[m] /\ upload[m].device \in Devices
      BY <1>14, <2>2 DEF KeyInv, TypeOK
    <3>2. {k \in KeyIds : prekey'[upload[m].device][k] # NoKey
                          /\ prekey'[upload[m].device][k].by = m}
            = {k \in KeyIds : prekey[upload[m].device][k] # NoKey
                              /\ prekey[upload[m].device][k].by = m}
      BY <1>10, <1>11, <1>12, <2>2, <3>1
    <3> QED
      BY <3>1, <3>2 DEF KeyInv, UploadIsWhole
  <2> QED
    BY <2>1, <2>2
<1> QED
  BY <1>15, <1>16, <1>17, <1>18, <1>19, <1>20, <1>21, <1>22, <1>23 DEF KeyInv

\* COMMIT of a claim: the key it took is handed to nobody else, before or after.
LEMMA ClaimCommitKeeps ==
  ASSUME KeyInv, NEW t \in Threads, CommitClaim(t) \/ CommitClaimLost(t)
  PROVE  KeyInv'
<1> DEFINE d == thread[t].device
           j == thread[t].key
           old == prekey[d][j]
           row == [by |-> old.by, state |-> "claimed"]
           new == [device |-> d, key |-> j, to |-> thread[t].me, by |-> old.by,
                   n |-> Cardinality(handed)]
<1>1. /\ thread[t].at = "claim.commit" /\ ClaimWrites(t) /\ Returns(t)
      /\ handed' = handed \/ handed' = handed \union {new}
      /\ UNCHANGED <<request, relation, calls, pushed, told, device, upload>>
  BY DEF CommitClaim, CommitClaimLost
<1>2. thread[t] \in ClaimCall
  BY <1>1, KeyFields DEF KeyInv, ClaimSteps
<1>3. d \in Devices /\ thread[t].me \in Users /\ thread[t].friend \in Users
  BY <1>2 DEF ClaimCall
<1>4. /\ j \in KeyIds /\ old # NoKey /\ old.state = "available"
      /\ Related(t) /\ Owner[d] = thread[t].friend
      /\ \A u \in Threads : thread[u].at = "claim.commit" /\ thread[u].device = d
                              /\ thread[u].key = j => u = t
  BY <1>1 DEF KeyInv, ClaimLocks
<1>5. old \in KeyRow /\ old.by \in Nat
  BY <1>3, <1>4 DEF KeyInv, TypeOK, KeyRow
<1>6. PICK c \in {Idle} \union KeyCalls : Moves(t, c) /\ c.at = "idle"
  <2>1. Moves(t, Idle)
    BY <1>1 DEF Moves, Returns
  <2>2. Idle.at = "idle"
    BY DEF Idle
  <2> QED
    BY <2>1, <2>2
<1>7. calls \in Nat /\ calls <= MaxCalls /\ MaxCalls \in Nat
  BY MaxCallsAssumption DEF KeyInv, TypeOK, FriendTypes, UploadNumbers
<1>8. row \in KeyRow /\ row # NoKey /\ row.by = old.by
  BY <1>5, NoKeyAssumption DEF KeyRow
<1>9. /\ prekey' \in [Devices -> [KeyIds -> KeyRow \union {NoKey}]]
      /\ \A e \in Devices, k \in KeyIds :
           prekey'[e][k] = IF e = d /\ k = j THEN row ELSE prekey[e][k]
  <2>1. [old EXCEPT !.state = "claimed"] = row
    BY <1>5 DEF KeyRow
  <2>2. prekey' = [prekey EXCEPT ![d] = [prekey[d] EXCEPT ![j] = [old EXCEPT !.state = "claimed"]]]
    BY <1>1, <1>3, <1>4 DEF ClaimWrites, KeyInv, TypeOK
  <2>3. prekey' = [prekey EXCEPT ![d] = [prekey[d] EXCEPT ![j] = row]]
    BY <2>1, <2>2
  <2> HIDE DEF row
  <2> QED
    BY <1>3, <1>4, <1>8, <2>3 DEF KeyInv, TypeOK
<1>10. /\ new \in [device : Devices, key : KeyIds, to : Users, by : Nat, n : Nat]
       /\ new.device = d /\ new.key = j /\ new.to = thread[t].me /\ new.by = old.by
  <2>1. Cardinality(handed) \in Nat
    BY FS_CardinalityType DEF KeyInv
  <2> QED
    BY <1>3, <1>4, <1>5, <2>1
<1>11. row = [by |-> new.by, state |-> "claimed"]
  BY <1>10
<1> HIDE DEF d, j, old, row, new
<1>12. TypeOK'
  <2>1. FriendTypes(KeyCalls)'
    BY <1>1, <1>6, <1>7, TypesKept DEF KeyInv
  <2>2. handed' \subseteq [device : Devices, key : KeyIds, to : Users, by : Nat, n : Nat]
    BY <1>1, <1>10 DEF KeyInv, TypeOK
  <2> QED
    BY <1>1, <1>9, <2>1, <2>2 DEF KeyInv, TypeOK, KeyCalls
<1>13. FriendInv' /\ IsFiniteSet(handed)'
  BY <1>1, <1>6, FriendsUndisturbed, FS_AddElement DEF KeyInv
<1>14. DeviceLocks'
  BY <1>1, <1>6, DeviceLocksKept DEF KeyInv
<1>15. ClaimLocks'
  <2>1. ASSUME NEW u \in Threads, u # t, thread[u].at = "claim.commit"
        PROVE  prekey'[thread[u].device][thread[u].key] = prekey[thread[u].device][thread[u].key]
    <3>1. thread[u].key \in KeyIds
      BY <2>1 DEF KeyInv, ClaimLocks
    <3>2. thread[u].device \in Devices
      BY <2>1, KeyFields DEF KeyInv, ClaimSteps, ClaimCall
    <3> QED
      BY <1>4, <1>9, <2>1, <3>1, <3>2
  <2>2. relation \subseteq relation'
    BY <1>1
  <2> QED
    BY <1>6, <2>1, <2>2, ClaimLocksKept DEF KeyInv
<1>16. \A e \in Devices, k \in KeyIds :
         /\ prekey'[e][k] # NoKey <=> prekey[e][k] # NoKey
         /\ prekey[e][k] # NoKey => prekey'[e][k].by = prekey[e][k].by
  BY <1>3, <1>4, <1>8, <1>9 DEF old
<1>17. UploadOwns'
  <2>1. \A u \in Threads : u # t /\ Uploading(u) =>
          /\ upload'[thread[u].n] = upload[thread[u].n]
          /\ \A e \in Devices, k \in KeyIds :
               prekey'[e][k] # NoKey => prekey'[e][k].by # thread[u].n
    <3>1. \A u \in Threads : Uploading(u) =>
            \A e \in Devices, k \in KeyIds : prekey[e][k] # NoKey => prekey[e][k].by # thread[u].n
      BY DEF KeyInv, UploadOwns
    <3> QED
      BY <1>1, <1>16, <3>1
  <2>2. calls' \in Nat /\ calls <= calls' /\ c.at \notin UploadSteps
    BY <1>1, <1>6, <1>7 DEF UploadSteps
  <2> QED
    BY <1>6, <2>1, <2>2, UploadOwnsKept DEF KeyInv
<1>18. InsertLocks'
  <2>1. ASSUME NEW u \in Threads, NEW e \in Devices, u # t, NEW k \in InsertedKeys(u, e)
        PROVE  prekey'[e][k] = NoKey
    <3>1. prekey[e][k] = NoKey
      BY DEF KeyInv, InsertLocks
    <3>2. k \in KeyIds
      <4>1. thread[u].at \in {"upload.insert", "upload.commit"} /\ k \in thread[u].batch
        BY DEF InsertedKeys
      <4> QED
        BY <4>1, KeyFields DEF KeyInv, UploadSteps, UploadCall
    <3> QED
      BY <1>16, <3>1, <3>2
  <2> QED
    BY <1>6, <2>1, InsertLocksKept DEF KeyInv
<1>19. UploadNumbers'
  BY <1>1, <1>16 DEF KeyInv, UploadNumbers
<1>20. UploadIsWhole'
  <2> SUFFICES ASSUME NEW m \in 1..MaxCalls, upload[m] # Idle
               PROVE  LET mine == {k \in KeyIds : LET r == prekey'[upload[m].device][k]
                                                  IN  r # NoKey /\ r.by = m}
                      IN  /\ mine \in {{}, upload[m].batch}
                          /\ upload[m].answer = "Created" => mine # {}
                          /\ upload[m].answer \in {"Conflict", "Forbidden"} => mine = {}
    BY <1>1 DEF UploadIsWhole
  <2>1. upload[m].device \in Devices
    BY DEF KeyInv, TypeOK
  <2>2. {k \in KeyIds : prekey'[upload[m].device][k] # NoKey
                        /\ prekey'[upload[m].device][k].by = m}
          = {k \in KeyIds : prekey[upload[m].device][k] # NoKey
                            /\ prekey[upload[m].device][k].by = m}
    BY <1>16, <2>1
  <2> QED
    BY <2>2 DEF KeyInv, UploadIsWhole
<1>21. \A h \in handed : ~(h.device = d /\ h.key = j)
  <2> SUFFICES ASSUME NEW h \in handed, h.device = d, h.key = j PROVE FALSE
    OBVIOUS
  <2>1. old = [by |-> h.by, state |-> "claimed"]
    BY DEF KeyInv, PrekeyHandedOnce, old
  <2> QED
    BY <1>4, <2>1
<1>22. PrekeyHandedOnce'
  <2>1. \A h \in handed : prekey'[h.device][h.key] = prekey[h.device][h.key]
    BY <1>9, <1>21 DEF KeyInv, TypeOK
  <2>2. CASE handed' = handed
    BY <1>1, <2>1, <2>2, HandedKept DEF KeyInv, TypeOK
  <2>3. CASE handed' = handed \union {new}
    <3>1. \A h, i \in handed' : h.device = i.device /\ h.key = i.key => h = i
      BY <1>10, <1>21, <2>3 DEF KeyInv, PrekeyHandedOnce
    <3>2. ASSUME NEW h \in handed
          PROVE  /\ prekey'[h.device][h.key] = [by |-> h.by, state |-> "claimed"]
                 /\ \/ device[h.device] = "revoked"
                    \/ /\ (\E list \in FetchUserDevices(h.to, Owner[h.device]) : h.device \in list)
                       /\ HasKeyBundle(h.to, Owner[h.device], h.device)
      BY <2>1 DEF KeyInv, PrekeyHandedOnce
    <3>3. /\ prekey'[new.device][new.key] = [by |-> new.by, state |-> "claimed"]
          /\ (\E list \in FetchUserDevices(new.to, Owner[new.device]) : new.device \in list)
          /\ HasKeyBundle(new.to, Owner[new.device], new.device)
      <4>1. prekey'[d][j] = row
        BY <1>3, <1>4, <1>9
      <4>2. device[d] = "active"
        <5>1. SharesDevice(t, d)
          BY <1>1 DEF SharesDevice, d
        <5> QED
          BY <1>3, <5>1 DEF KeyInv, DeviceLocks
      <4>3. d \in UserDevices(thread[t].me, Owner[d])
        BY <1>3, <1>4, <4>2 DEF UserDevices, OwnsActive, Related, VerifyFriendShip
      <4>4. FetchUserDevices(thread[t].me, Owner[d]) = {UserDevices(thread[t].me, Owner[d])}
        BY <1>4 DEF FetchUserDevices, Related
      <4> QED
        BY <1>10, <1>11, <4>1, <4>3, <4>4 DEF HasKeyBundle
    <3>4. UNCHANGED <<relation, device>>
      BY <1>1
    <3>5. \A u \in Users, e \in Devices :
            /\ (FetchUserDevices(u, Owner[e]))' = FetchUserDevices(u, Owner[e])
            /\ HasKeyBundle(u, Owner[e], e)' = HasKeyBundle(u, Owner[e], e)
      BY <3>4 DEF FetchUserDevices, HasKeyBundle, UserDevices, OwnsActive, VerifyFriendShip
    <3>6. \A h \in handed' : h.to \in Users /\ h.device \in Devices
      BY <1>12 DEF TypeOK
    <3> QED
      BY <2>3, <3>1, <3>2, <3>3, <3>4, <3>5, <3>6 DEF PrekeyHandedOnce
  <2> QED
    BY <1>1, <2>2, <2>3
<1> QED
  BY <1>12, <1>13, <1>14, <1>15, <1>17, <1>18, <1>19, <1>20, <1>22 DEF KeyInv

\* A friend request beside the key calls: it can only add a friendship or a call.
LEMMA FriendStepKeeps ==
  ASSUME KeyInv, FriendNext, UNCHANGED keyVars
  PROVE  KeyInv'
<1>1. UNCHANGED <<device, prekey, upload, handed>>
  BY DEF keyVars
<1>2. FriendTypes(KeyCalls) /\ FriendInv
  BY DEF KeyInv, TypeOK, KeyCalls
<1>3. FriendTypes(KeyCalls)' /\ FriendInv'
  BY <1>2, KeyCallsApart, FriendNextKeeps
<1>4. /\ \A u \in Threads : thread'[u] = thread[u] \/ thread'[u].at \in FriendSteps
      /\ relation \subseteq relation'
      /\ calls' = calls \/ (calls' = calls + 1 /\ calls < MaxCalls)
  BY <1>2, KeyCallsApart, FriendFrame
<1>5. calls \in Nat /\ calls' \in Nat /\ calls <= calls' /\ calls' <= MaxCalls
  <2>1. calls \in Nat /\ calls <= MaxCalls /\ MaxCalls \in Nat
    BY MaxCallsAssumption DEF KeyInv, TypeOK, FriendTypes, UploadNumbers
  <2> QED
    BY <1>4, <2>1
<1>6. TypeOK' /\ IsFiniteSet(handed)'
  BY <1>1, <1>3 DEF KeyInv, TypeOK, KeyCalls
<1>7. \A u \in Threads : thread'[u].at \notin FriendSteps => thread'[u] = thread[u]
  BY <1>4
<1>8. DeviceLocks'
  <2> SUFFICES ASSUME NEW x \in Threads, NEW d \in Devices, SharesDevice(x, d)'
               PROVE  device[d] = "active" /\ \A u \in Threads : ~RevokesDevice(u, d)'
    BY <1>1 DEF DeviceLocks
  <2>1. SharesDevice(x, d)
    BY <1>7 DEF SharesDevice, FriendSteps
  <2>2. device[d] = "active" /\ \A u \in Threads : ~RevokesDevice(u, d)
    BY <2>1 DEF KeyInv, DeviceLocks
  <2> QED
    BY <1>7, <2>2 DEF RevokesDevice, FriendSteps
<1>9. ClaimLocks'
  <2> SUFFICES ASSUME NEW x \in Threads
               PROVE  /\ thread'[x].at \in {"claim.share", "claim.take", "claim.commit"} =>
                           Related(x)'
                      /\ thread'[x].at \in {"claim.take", "claim.commit"} =>
                           Owner[thread'[x].device] = thread'[x].friend
                      /\ thread'[x].at = "claim.commit" =>
                           /\ thread'[x].key \in KeyIds
                           /\ prekey[thread'[x].device][thread'[x].key] # NoKey
                           /\ prekey[thread'[x].device][thread'[x].key].state = "available"
                           /\ \A u \in Threads :
                                thread'[u].at = "claim.commit"
                                  /\ thread'[u].device = thread'[x].device
                                  /\ thread'[u].key = thread'[x].key => u = x
    BY <1>1 DEF ClaimLocks
  <2>1. CASE thread'[x].at \in FriendSteps
    BY <2>1 DEF FriendSteps
  <2>2. CASE thread'[x].at \notin FriendSteps
    <3>1. thread'[x] = thread[x]
      BY <1>7, <2>2
    <3>2. Related(x) => Related(x)'
      BY <1>4, <3>1 DEF Related, VerifyFriendShip
    <3>3. \A u \in Threads : thread'[u].at = "claim.commit" => thread'[u] = thread[u]
      BY <1>7 DEF FriendSteps
    <3> QED
      BY <3>1, <3>2, <3>3 DEF KeyInv, ClaimLocks
  <2> QED
    BY <2>1, <2>2
<1>10. \A u \in Threads : Uploading(u)' => Uploading(u) /\ thread'[u] = thread[u]
  BY <1>7 DEF Uploading, FriendSteps
<1>11. UploadOwns'
  <2> SUFFICES ASSUME NEW x \in Threads, Uploading(x)'
               PROVE  /\ thread'[x].n \in 1..calls'
                      /\ upload[thread'[x].n] = [device |-> thread'[x].device,
                                                 batch |-> thread'[x].batch, answer |-> "none"]
                      /\ thread'[x].batch # {}
                      /\ thread'[x].at \in {"upload.find", "upload.share"} =>
                           thread'[x].left = thread'[x].batch
                      /\ thread'[x].at = "upload.commit" => thread'[x].left = {}
                      /\ \A d \in Devices, k \in KeyIds :
                           prekey[d][k] # NoKey => prekey[d][k].by # thread'[x].n
                      /\ \A u \in Threads : Uploading(u)' /\ thread'[u].n = thread'[x].n => u = x
    BY <1>1 DEF UploadOwns
  <2>1. Uploading(x) /\ thread'[x] = thread[x]
    BY <1>10
  <2>2. /\ thread[x].n \in 1..calls
        /\ upload[thread[x].n] = [device |-> thread[x].device, batch |-> thread[x].batch,
                                  answer |-> "none"]
        /\ thread[x].batch # {}
        /\ thread[x].at \in {"upload.find", "upload.share"} => thread[x].left = thread[x].batch
        /\ thread[x].at = "upload.commit" => thread[x].left = {}
        /\ \A d \in Devices, k \in KeyIds : prekey[d][k] # NoKey => prekey[d][k].by # thread[x].n
        /\ \A u \in Threads : Uploading(u) /\ thread[u].n = thread[x].n => u = x
    BY <2>1 DEF KeyInv, UploadOwns
  <2>3. thread[x].n \in 1..calls'
    BY <1>5, <2>2
  <2> QED
    BY <1>10, <2>1, <2>2, <2>3
<1>12. InsertLocks'
  <2>1. \A u \in Threads, d \in Devices : InsertedKeys(u, d)' \subseteq InsertedKeys(u, d)
    BY <1>7 DEF InsertedKeys, FriendSteps
  <2> QED
    BY <1>1, <2>1 DEF KeyInv, InsertLocks
<1>13. UploadNumbers'
  <2>1. \A n \in 1..MaxCalls : n > calls' => n > calls
    BY <1>5, MaxCallsAssumption
  <2>2. ASSUME NEW d \in Devices, NEW k \in KeyIds, prekey[d][k] # NoKey
        PROVE  prekey[d][k].by <= calls'
    <3>1. prekey[d][k].by \in Nat /\ prekey[d][k].by <= calls
      BY <2>2 DEF KeyInv, TypeOK, KeyRow, UploadNumbers
    <3> QED
      BY <1>5, <3>1
  <2> QED
    BY <1>1, <1>5, <2>1, <2>2 DEF KeyInv, UploadNumbers
<1>14. PrekeyHandedOnce'
  BY <1>1, <1>4, HandedKept DEF KeyInv, TypeOK
<1>15. UploadIsWhole'
  BY <1>1 DEF KeyInv, UploadIsWhole
<1> QED
  BY <1>3, <1>6, <1>8, <1>9, <1>11, <1>12, <1>13, <1>14, <1>15 DEF KeyInv

LEMMA KeyInitHolds == Init => KeyInv
<1> SUFFICES ASSUME Init PROVE KeyInv
  OBVIOUS
<1>1. FriendTypes(KeyCalls) /\ FriendInv
  BY FriendInitHolds DEF Init
<1>2. /\ device = [d \in Devices |-> "active"]
      /\ prekey = [d \in Devices |-> [k \in KeyIds |-> NoKey]]
      /\ upload = [n \in 1..MaxCalls |-> Idle]
      /\ handed = {} /\ calls = 0
  BY DEF Init, FriendInit
<1>3. TypeOK
  BY <1>1, <1>2 DEF TypeOK, KeyCalls
<1>4. IsFiniteSet(handed)
  BY <1>2, FS_EmptySet
<1>5. \A t \in Threads : thread[t].at = "idle"
  BY DEF Init, FriendInit, Idle
<1>6. DeviceLocks /\ ClaimLocks /\ UploadOwns /\ InsertLocks
  BY <1>5 DEF DeviceLocks, ClaimLocks, UploadOwns, InsertLocks, SharesDevice, Uploading,
              InsertedKeys
<1>7. UploadNumbers /\ UploadIsWhole
  BY <1>2, MaxCallsAssumption DEF UploadNumbers, UploadIsWhole
<1>8. PrekeyHandedOnce
  BY <1>2 DEF PrekeyHandedOnce
<1> QED
  BY <1>1, <1>3, <1>4, <1>6, <1>7, <1>8 DEF KeyInv

LEMMA KeyStutters ==
  ASSUME KeyInv, UNCHANGED vars
  PROVE  KeyInv'
<1>1. UNCHANGED friendVars /\ UNCHANGED <<device, prekey, upload, handed>>
  BY DEF vars, keyVars
<1>2. UNCHANGED <<request, relation, thread, calls>>
  BY <1>1 DEF friendVars
<1>3. FriendTypes(KeyCalls)' /\ FriendInv'
  BY <1>1, FriendStutters DEF KeyInv, TypeOK, KeyCalls
<1>4. TypeOK' /\ IsFiniteSet(handed)'
  BY <1>1, <1>3 DEF KeyInv, TypeOK, KeyCalls
<1>5. DeviceLocks'
  BY <1>1, <1>2 DEF KeyInv, DeviceLocks, SharesDevice, RevokesDevice
<1>6. ClaimLocks'
  BY <1>1, <1>2 DEF KeyInv, ClaimLocks, Related, VerifyFriendShip
<1>7. UploadOwns'
  BY <1>1, <1>2 DEF KeyInv, UploadOwns, Uploading
<1>8. InsertLocks'
  BY <1>1, <1>2 DEF KeyInv, InsertLocks, InsertedKeys
<1>9. UploadNumbers' /\ UploadIsWhole'
  BY <1>1, <1>2 DEF KeyInv, UploadNumbers, UploadIsWhole
<1>10. PrekeyHandedOnce'
  BY <1>1, <1>2, HandedKept DEF KeyInv, TypeOK
<1> QED
  BY <1>3, <1>4, <1>5, <1>6, <1>7, <1>8, <1>9, <1>10 DEF KeyInv

LEMMA KeyNextKeeps ==
  ASSUME KeyInv, [Next]_vars
  PROVE  KeyInv'
<1>1. CASE UNCHANGED vars
  BY <1>1, KeyStutters
<1>2. CASE FriendNext /\ UNCHANGED keyVars
  BY <1>2, FriendStepKeeps
<1>3. ASSUME NEW t \in Threads, NEW me \in Users, NEW d \in Devices, NEW batch \in SUBSET KeyIds,
             UploadOneTimePrekeys(t, me, d, batch)
      PROVE  KeyInv'
  BY <1>3, UploadBeginKeeps
<1>4. ASSUME NEW t \in Threads,
             \/ \E me \in Users, friend \in Users, d \in Devices : GetOneTimePrekey(t, me, friend, d)
             \/ \E d \in Devices : RevokeDevice(t, d)
      PROVE  KeyInv'
  BY <1>4, BeginsKeeps
<1>5. ASSUME NEW t \in Threads, KeyStep(t) \/ KeyFault(t)
      PROVE  KeyInv'
  <2>1. CASE \/ UploadFindDevice(t) \/ UploadShareDevice(t)
             \/ (\E k \in KeyIds : InsertKey(t, k)) \/ UploadDeadlocked(t) \/ UploadFails(t)
    BY <2>1, UploadStepKeeps
  <2>2. CASE CommitUpload(t) \/ CommitUploadLost(t)
    BY <2>2, UploadCommitKeeps
  <2>3. CASE ClaimChecks(t) \/ ClaimShareFriendship(t) \/ ClaimShareDevice(t) \/ TakeKey(t)
               \/ ClaimFails(t)
    BY <2>3, ClaimStepKeeps
  <2>4. CASE CommitClaim(t) \/ CommitClaimLost(t)
    BY <2>4, ClaimCommitKeeps
  <2>5. CASE LockDevice(t) \/ RevokeFails(t)
    BY <2>5, RevokeStepKeeps
  <2>6. CASE CommitRevoke(t)
    BY <2>6, RevokeCommitKeeps
  <2> QED
    BY <1>5, <2>1, <2>2, <2>3, <2>4, <2>5, <2>6 DEF KeyStep, KeyFault
<1> QED
  BY <1>1, <1>2, <1>3, <1>4, <1>5 DEF Next

-----------------------------------------------------------------------------
LEMMA KeyAlways == Spec => []KeyInv
  BY KeyInitHolds, KeyNextKeeps, PTL DEF Spec

\* Whatever claims, uploads, revocations and friend requests interleave: no prekey of
\* getOneTimeKey is handed out twice or to a stranger.
THEOREM KeyInvariant == Spec => []PrekeyHandedOnce
<1>1. KeyInv => PrekeyHandedOnce
  BY DEF KeyInv
<1> QED
  BY <1>1, KeyAlways, PTL

\* A batch of createNewOnetimeKey is stored whole or not at all and its answer says
\* which, with overlapping batches, lost COMMITs and deadlocks.
THEOREM UploadTheorem == Spec => []UploadIsWhole
<1>1. KeyInv => UploadIsWhole
  BY DEF KeyInv
<1> QED
  BY <1>1, KeyAlways, PTL

\* Also beside claims and uploads that lock the rows of the relation,
\* processFriendshipRequest makes friends of exactly the pairs with an accepted
\* request, and the outcome it told lasts.
THEOREM FriendsTheorem == Spec => [](AcceptedIffFriends /\ ToldStatusIsFinal)
<1>1. KeyInv => AcceptedIffFriends /\ ToldStatusIsFinal
  BY DEF KeyInv, FriendInv
<1> QED
  BY <1>1, KeyAlways, PTL

\* No step writes a prekey of a device after its revocation: the transactions that write
\* hold the device FOR SHARE.
LEMMA RevokedStep ==
  ASSUME KeyInv, [Next]_vars, NEW d \in Devices, device[d] = "revoked"
  PROVE  prekey'[d] = prekey[d]
<1>1. CASE \E t \in Threads : CommitUpload(t) \/ CommitUploadLost(t)
                                \/ CommitClaim(t) \/ CommitClaimLost(t)
  <2> PICK t \in Threads : CommitUpload(t) \/ CommitUploadLost(t)
                             \/ CommitClaim(t) \/ CommitClaimLost(t)
    BY <1>1
  <2>1. thread[t].at \in {"upload.commit", "claim.commit"}
    BY DEF CommitUpload, CommitUploadLost, CommitClaim, CommitClaimLost
  <2>2. ~SharesDevice(t, d)
    BY DEF KeyInv, DeviceLocks
  <2>3. thread[t].device # d
    BY <2>1, <2>2 DEF SharesDevice
  <2> QED
    BY <2>3 DEF CommitUpload, CommitUploadLost, CommitClaim, CommitClaimLost, UploadWrites,
                ClaimWrites, KeyInv, TypeOK
<1>2. CASE ~(\E t \in Threads : CommitUpload(t) \/ CommitUploadLost(t)
                                  \/ CommitClaim(t) \/ CommitClaimLost(t))
  <2>1. CASE UNCHANGED vars \/ (FriendNext /\ UNCHANGED keyVars)
    BY <2>1 DEF vars, keyVars
  <2>2. ASSUME NEW t \in Threads, NEW me, NEW e, NEW batch, UploadOneTimePrekeys(t, me, e, batch)
        PROVE  UNCHANGED prekey
    BY <2>2 DEF UploadOneTimePrekeys
  <2>3. ASSUME NEW t \in Threads,
               \/ \E me \in Users, friend \in Users, e \in Devices :
                    GetOneTimePrekey(t, me, friend, e)
               \/ \E e \in Devices : RevokeDevice(t, e)
        PROVE  UNCHANGED prekey
    BY <2>3 DEF GetOneTimePrekey, RevokeDevice, keyVars
  <2>4. ASSUME NEW t \in Threads, KeyStep(t) \/ KeyFault(t)
        PROVE  UNCHANGED prekey
    BY <1>2, <2>4 DEF KeyStep, KeyFault, UploadFindDevice, UploadShareDevice, InsertKey,
       UploadDeadlocked, UploadFails, ClaimChecks, ClaimShareFriendship, ClaimShareDevice,
       TakeKey, ClaimFails, LockDevice, CommitRevoke, RevokeFails, keyVars
  <2> QED
    BY <2>1, <2>2, <2>3, <2>4 DEF Next
<1> QED
  BY <1>1, <1>2

\* From the commit of revokeUserDevice on, uploads and claims leave the prekeys of the
\* device as they are.
THEOREM RevokedDeviceUntouched == Spec => NothingForRevokedDevice
<1>1. KeyInv /\ [Next]_vars =>
        [\A d \in Devices : device[d] = "revoked" => prekey'[d] = prekey[d]]_vars
  BY RevokedStep
<1> QED
  BY <1>1, KeyAlways, PTL DEF Spec, NothingForRevokedDevice
=============================================================================
