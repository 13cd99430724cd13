---------------------------- MODULE EnvelopeStore ----------------------------
(***************************************************************************)
(* The store of encrypted envelopes: EnvelopeRepository with the retry     *)
(* loop of ChatService::newTextMessage, against the transaction that       *)
(* revokes a device (UserRepository::revokeUserDevice).                    *)
(*                                                                         *)
(* Business threads run saveNewMessage concurrently, each in a READ        *)
(* COMMITTED transaction; a step is one SQL statement, which sees what has *)
(* been committed.  The locks PostgreSQL holds until the transaction ends  *)
(* follow from where the transactions are: the advisory lock of the device *)
(* pair, FOR SHARE on device rows, FOR UPDATE on the row being revoked.    *)
(* The unique indexes of the table are not modelled: the locks alone must  *)
(* keep the rows apart.                                                    *)
(*                                                                         *)
(* A receiving device is modelled as the synchronisation protocol asks of  *)
(* it: it keeps the envelopes it is sent, and moves its cursors by the     *)
(* pages it has saved, never by a push.                                    *)
(***************************************************************************)
EXTENDS Naturals, FiniteSets, FiniteSetsExt

CONSTANTS
    Devices,      \* a set of naturals: UUIDs are ordered
    Owner,        \* the account of each device
    Requests,     \* what clients may send: user, from, to, id, packet
    Threads,      \* business threads
    Readers,      \* the devices that synchronise
    MaxAttempts,  \* attempts of newTextMessage (3)
    PageSize,     \* pageSize of syncEnvelopeRecord (100)
    MaxRequests   \* bound: send requests in a behaviour

ASSUME DeviceAssumption == Devices \subseteq Nat

ASSUME RequestAssumption ==
    \A q \in Requests : q.from \in Devices /\ q.to \in Devices

ASSUME ReaderAssumption == Readers \subseteq Devices

ASSUME BoundAssumption ==
    /\ PageSize \in Nat \ {0}
    /\ MaxAttempts \in Nat \ {0}
    /\ MaxRequests \in Nat

VARIABLES
    active,     \* devices whose committed row says active
    friends,    \* the pairs of accounts in friend_relation
    envelopes,  \* the committed rows of message_envelopes
    received,   \* those whose received_at is set
    pc,         \* where each business thread is
    req,        \* the request it serves, as a set of at most one
    attempt,
    row,        \* the row its transaction has inserted, likewise
    result,     \* what its transaction returns, or the answer
    sent,       \* requests taken so far
    revoker,    \* the transaction that revokes each device
    reader,     \* the sync or ack transaction of each device
    page,       \* the page on its way to each device
    saved,      \* what each device has stored locally
    cursor      \* after_seq of each device, per sender

saveVars == <<pc, req, attempt, row, result>>
clientVars == <<page, saved, cursor>>
vars == <<active, friends, envelopes, received, saveVars, sent, revoker,
          reader, clientVars>>

-----------------------------------------------------------------------------
(* Types *)

Users == {Owner[d] : d \in Devices}
Ids == {q.id : q \in Requests}
Packets == {q.packet : q \in Requests}
Seqs == 1 .. MaxRequests
Envelope == [from : Devices, to : Devices, id : Ids, packet : Packets, seq : Seqs]

SaveResults == {"Success", "Duplicate", "Conflict", "PermissionDenied"}
Answers == SaveResults \cup {"InvalidRequest", "RetryLater",
                             "DatabaseUnavailable", "InternalError"}

TypeOK ==
    /\ active \subseteq Devices
    /\ friends \subseteq Users \X Users
    /\ envelopes \subseteq Envelope
    /\ received \subseteq envelopes
    /\ pc \in [Threads -> {"idle", "begun", "locked", "devices", "authorized",
                           "absent", "finishing", "answered"}]
    /\ req \in [Threads -> SUBSET Requests]
    /\ attempt \in [Threads -> 0 .. MaxAttempts]
    /\ row \in [Threads -> SUBSET Envelope]
    /\ \A t \in Threads : row[t] # {} =>
            pc[t] \in {"finishing", "answered"} /\ result[t] = "Success"
    /\ result \in [Threads -> Answers \cup {"none"}]
    /\ sent \in 0 .. MaxRequests
    /\ revoker \in [Devices -> {"none", "locked"}]
    /\ reader \in [Devices -> {"idle", "syncing", "acking"}]
    /\ page \in [Devices -> SUBSET Envelope]
    /\ saved \in [Devices -> SUBSET envelopes]
    /\ cursor \in [Devices -> [Devices -> 0 .. MaxRequests]]

Init ==
    /\ active = Devices
    /\ friends = {}
    /\ envelopes = {}
    /\ received = {}
    /\ pc = [t \in Threads |-> "idle"]
    /\ req = [t \in Threads |-> {}]
    /\ attempt = [t \in Threads |-> 0]
    /\ row = [t \in Threads |-> {}]
    /\ result = [t \in Threads |-> "none"]
    /\ sent = 0
    /\ revoker = [d \in Devices |-> "none"]
    /\ reader = [d \in Devices |-> "idle"]
    /\ page = [d \in Devices |-> {}]
    /\ saved = [d \in Devices |-> {}]
    /\ cursor = [d \in Devices |-> [s \in Devices |-> 0]]

-----------------------------------------------------------------------------
(* Locks *)

Pair(m) == {m.from, m.to}

PairLocked(t) == pc[t] \in {"locked", "devices", "authorized", "absent", "finishing"}

\* The device rows that match: both devices active, the sender the user's.
AuthorizedRows(q) ==
    {d \in Pair(q) \cap active : d = q.from => Owner[d] = q.user}

\* The device rows a saving transaction holds FOR SHARE.
HoldsShare(t, d) ==
    /\ pc[t] \in {"devices", "authorized", "absent", "finishing"}
    /\ \E q \in req[t] : d \in AuthorizedRows(q)

RowShared(d) == (\E t \in Threads : HoldsShare(t, d)) \/ reader[d] # "idle"

-----------------------------------------------------------------------------
(* ChatService::newTextMessage and EnvelopeRepository::saveNewMessage *)

Goto(t, label) == pc' = [pc EXCEPT ![t] = label]

\* The callback of withTransaction returns r: COMMIT is next.
Return(t, r) ==
    /\ Goto(t, "finishing")
    /\ result' = [result EXCEPT ![t] = r]

\* A task of the dispatcher, or the client's retry of it, reaches a thread.
NewTextMessage(t, q) ==
    /\ pc[t] = "idle"
    /\ sent < MaxRequests
    /\ sent' = sent + 1
    /\ req' = [req EXCEPT ![t] = {q}]
    /\ IF q.from = q.to
       THEN /\ Goto(t, "answered")
            /\ result' = [result EXCEPT ![t] = "InvalidRequest"]
            /\ UNCHANGED attempt
       ELSE /\ Goto(t, "begun")
            /\ attempt' = [attempt EXCEPT ![t] = 1]
            /\ UNCHANGED result
    /\ UNCHANGED <<active, friends, envelopes, received, row, revoker, reader,
                   clientVars>>

\* MUTANT: each direction of a pair has a lock of its own.
PairLockFree_Directed(t, q) ==
    \A u \in Threads \ {t} :
        PairLocked(u) => \A p \in req[u] : p.from # q.from \/ p.to # q.to

\* pg_advisory_xact_lock on the unordered pair.
PairLockFree(t, q) ==
    \A u \in Threads \ {t} : PairLocked(u) => \A p \in req[u] : Pair(p) # Pair(q)

AcquirePairLock(t) ==
    /\ pc[t] = "begun"
    /\ \A q \in req[t] : PairLockFree(t, q)
    /\ Goto(t, "locked")
    /\ UNCHANGED <<active, friends, envelopes, received, req, attempt, row,
                   result, sent, revoker, reader, clientVars>>

\* SELECT ... FOR SHARE waits for a revocation in progress; two rows, or the
\* request is denied.
LockDevices(t) ==
    /\ pc[t] = "locked"
    /\ \A q \in req[t] :
        /\ \A d \in Pair(q) : revoker[d] = "none"
        /\ IF AuthorizedRows(q) = Pair(q)
           THEN Goto(t, "devices") /\ UNCHANGED result
           ELSE Return(t, "PermissionDenied")
    /\ UNCHANGED <<active, friends, envelopes, received, req, attempt, row,
                   sent, revoker, reader, clientVars>>

\* Devices of one account need no friendship, others need both rows.
CheckFriendship(t) ==
    /\ pc[t] = "devices"
    /\ \A q \in req[t] :
        LET peer == Owner[q.to]
        IN IF peer = q.user \/ {<<q.user, peer>>, <<peer, q.user>>} \subseteq friends
           THEN Goto(t, "authorized") /\ UNCHANGED result
           ELSE Return(t, "PermissionDenied")
    /\ UNCHANGED <<active, friends, envelopes, received, req, attempt, row,
                   sent, revoker, reader, clientVars>>

\* MUTANT: the retry is recognised by its content, not by its id.
Existing_ByContent(q) ==
    {e \in envelopes : e.from = q.from /\ e.to = q.to /\ e.id = q.id
                       /\ e.packet = q.packet}

\* The committed row with the request's sender, recipient and message_id.
Existing(q) ==
    {e \in envelopes : e.from = q.from /\ e.to = q.to /\ e.id = q.id}

Lookup(t) ==
    /\ pc[t] = "authorized"
    /\ \A q \in req[t] :
        IF Existing(q) = {}
        THEN Goto(t, "absent") /\ UNCHANGED result
        ELSE Return(t, IF \E e \in Existing(q) : e.packet = q.packet
                       THEN "Duplicate" ELSE "Conflict")
    /\ UNCHANGED <<active, friends, envelopes, received, req, attempt, row,
                   sent, revoker, reader, clientVars>>

\* COALESCE(MAX(seq), 0) over both directions of the pair.
LastSeq(q) == Max({0} \cup {e.seq : e \in {x \in envelopes : Pair(x) = Pair(q)}})

Insert(t) ==
    /\ pc[t] = "absent"
    /\ row' = [row EXCEPT ![t] =
            {[from |-> q.from, to |-> q.to, id |-> q.id, packet |-> q.packet,
              seq |-> LastSeq(q) + 1] : q \in req[t]}]
    /\ Return(t, "Success")
    /\ UNCHANGED <<active, friends, envelopes, received, req, attempt, sent,
                   revoker, reader, clientVars>>

Commit(t) ==
    /\ pc[t] = "finishing"
    /\ envelopes' = envelopes \cup row[t]
    /\ Goto(t, "answered")
    /\ UNCHANGED <<active, friends, received, req, attempt, row, result, sent,
                   revoker, reader, clientVars>>

\* The connection breaks while COMMIT is executed: the server has committed or
\* will roll back.  libpq reports the loss without an SQLSTATE, so execute()
\* throws a Query error QUERY_FAILED, which the service takes for an internal
\* error.
CommitLost(t) ==
    /\ pc[t] = "finishing"
    /\ envelopes' \in {envelopes, envelopes \cup row[t]}
    /\ row' = [row EXCEPT ![t] = {}]
    /\ result' = [result EXCEPT ![t] = "InternalError"]
    /\ Goto(t, "answered")
    /\ UNCHANGED <<active, friends, received, req, attempt, sent, revoker,
                   reader, clientVars>>

\* MUTANT: the row of a transaction that was rolled back is kept.
StatementFails_KeepsRow(t) ==
    /\ pc[t] \in {"begun", "locked", "devices", "authorized", "absent", "finishing"}
    /\ attempt[t] < MaxAttempts
    /\ attempt' = [attempt EXCEPT ![t] = @ + 1]
    /\ Goto(t, "begun")
    /\ result' = [result EXCEPT ![t] = "none"]
    /\ UNCHANGED <<active, friends, envelopes, received, req, row, sent, revoker,
                   reader, clientVars>>

\* A statement fails and the transaction is rolled back.  Conflicts between
\* transactions are tried again, from BEGIN, up to three times.
StatementFails(t) ==
    /\ pc[t] \in {"begun", "locked", "devices", "authorized", "absent", "finishing"}
    /\ row' = [row EXCEPT ![t] = {}]
    /\ \/ /\ attempt[t] < MaxAttempts
          /\ attempt' = [attempt EXCEPT ![t] = @ + 1]
          /\ Goto(t, "begun")
          /\ result' = [result EXCEPT ![t] = "none"]
       \/ /\ \E r \in {"DatabaseUnavailable", "InternalError"} \cup
                     {x \in {"RetryLater"} : attempt[t] = MaxAttempts} :
                result' = [result EXCEPT ![t] = r]
          /\ Goto(t, "answered")
          /\ UNCHANGED attempt
    /\ UNCHANGED <<active, friends, envelopes, received, req, sent, revoker,
                   reader, clientVars>>

\* The dispatcher announces a new envelope (Online_Sync), which reaches the
\* recipient or is dropped, and answers the sender.
Answer(t) ==
    /\ pc[t] = "answered"
    /\ \/ UNCHANGED saved
       \/ /\ result[t] = "Success"
          /\ saved' = [d \in Devices |-> saved[d] \cup {e \in row[t] : e.to = d}]
    /\ Goto(t, "idle")
    /\ req' = [req EXCEPT ![t] = {}]
    /\ row' = [row EXCEPT ![t] = {}]
    /\ attempt' = [attempt EXCEPT ![t] = 0]
    /\ result' = [result EXCEPT ![t] = "none"]
    /\ UNCHANGED <<active, friends, envelopes, received, sent, revoker, reader,
                   page, cursor>>

-----------------------------------------------------------------------------
(* syncEnvelopeRecord and ackEnvelopes, and the device that calls them *)

\* Both begin with SELECT ... FOR SHARE of the caller's own row; a device that
\* is not active is refused, which changes nothing.
LockReader(d, kind) ==
    /\ reader[d] = "idle"
    /\ page[d] = {}
    /\ revoker[d] = "none"
    /\ d \in active
    /\ reader' = [reader EXCEPT ![d] = kind]
    /\ UNCHANGED <<active, friends, envelopes, received, saveVars, sent,
                   revoker, clientVars>>

\* MUTANT: one cursor for all senders.
Matching_OneCursor(d) ==
    {e \in envelopes : e.to = d /\ \A s \in Devices : e.seq > cursor[d][s]}

\* The rows past the caller's cursors.
Matching(d) == {e \in envelopes : e.to = d /\ e.seq > cursor[d][e.from]}

\* MUTANT: the newest envelopes of a sender come first.
Before_Newest(e, f) == e.from < f.from \/ (e.from = f.from /\ e.seq > f.seq)

\* ORDER BY sender_device_id, seq
Before(e, f) == e.from < f.from \/ (e.from = f.from /\ e.seq < f.seq)

\* The pages the query may lead to: at most PageSize rows, fewer when the
\* budget of encoded bytes is used up; one row always fits.
Pages(d) ==
    {P \in SUBSET Matching(d) :
        /\ Cardinality(P) <= PageSize
        /\ P = {} => Matching(d) = {}
        /\ \A e \in P, f \in Matching(d) \ P : Before(e, f)}

\* The query and the commit of the read-only transaction.
SyncPage(d) ==
    /\ reader[d] = "syncing"
    /\ page' \in {[page EXCEPT ![d] = P] : P \in Pages(d)}
    /\ reader' = [reader EXCEPT ![d] = "idle"]
    /\ UNCHANGED <<active, friends, envelopes, received, saveVars, sent,
                   revoker, saved, cursor>>

\* MUTANT: the update is not limited to the caller's own inbox.
Acknowledged_Any(d, ids) == ids

\* WHERE recipient_device_id = caller AND envelope_id = ANY(ids)
Acknowledged(d, ids) == {e \in ids : e.to = d}

\* The ids a device knows: of envelopes it has saved or has sent itself.
Ack(d) ==
    /\ reader[d] = "acking"
    /\ \E ids \in SUBSET (saved[d] \cup {e \in envelopes : e.from = d}) :
        received' = received \cup Acknowledged(d, ids)
    /\ reader' = [reader EXCEPT ![d] = "idle"]
    /\ UNCHANGED <<active, friends, envelopes, saveVars, sent, revoker,
                   clientVars>>

\* A statement of the sync or ack transaction fails: it is rolled back.
ReaderFails(d) ==
    /\ reader[d] # "idle"
    /\ reader' = [reader EXCEPT ![d] = "idle"]
    /\ UNCHANGED <<active, friends, envelopes, received, saveVars, sent,
                   revoker, clientVars>>

\* The device saves the page and moves the cursor of each of its senders.
SavePage(d) ==
    /\ page[d] # {}
    /\ saved' = [saved EXCEPT ![d] = @ \cup page[d]]
    /\ cursor' = [cursor EXCEPT ![d] = [s \in Devices |->
            Max({cursor[d][s]} \cup {e.seq : e \in {x \in page[d] : x.from = s}})]]
    /\ page' = [page EXCEPT ![d] = {}]
    /\ UNCHANGED <<active, friends, envelopes, received, saveVars, sent,
                   revoker, reader>>

\* The response is lost with the connection.
LosePage(d) ==
    /\ page[d] # {}
    /\ page' = [page EXCEPT ![d] = {}]
    /\ UNCHANGED <<active, friends, envelopes, received, saveVars, sent,
                   revoker, reader, saved, cursor>>

-----------------------------------------------------------------------------
(* UserRepository::revokeUserDevice, and the acceptance of a friend request *)

\* MUTANT: the row is read without FOR UPDATE.
RowLockFree_Unlocked(d) == TRUE

\* FOR UPDATE waits for the transactions that hold the row FOR SHARE.
RowLockFree(d) == ~RowShared(d)

RevokeLock(d) ==
    /\ revoker[d] = "none"
    /\ d \in active
    /\ RowLockFree(d)
    /\ revoker' = [revoker EXCEPT ![d] = "locked"]
    /\ UNCHANGED <<active, friends, envelopes, received, saveVars, sent, reader,
                   clientVars>>

RevokeCommit(d) ==
    /\ revoker[d] = "locked"
    /\ active' = active \ {d}
    /\ revoker' = [revoker EXCEPT ![d] = "none"]
    /\ UNCHANGED <<friends, envelopes, received, saveVars, sent, reader,
                   clientVars>>

RevokeFails(d) ==
    /\ revoker[d] = "locked"
    /\ revoker' = [revoker EXCEPT ![d] = "none"]
    /\ UNCHANGED <<active, friends, envelopes, received, saveVars, sent, reader,
                   clientVars>>

\* processFriendshipRequest inserts both rows in one transaction.
AcceptFriend(u, v) ==
    /\ u # v
    /\ friends' = friends \cup {<<u, v>>, <<v, u>>}
    /\ UNCHANGED <<active, envelopes, received, saveVars, sent, revoker, reader,
                   clientVars>>

-----------------------------------------------------------------------------

Save(t) ==
    \/ AcquirePairLock(t) \/ LockDevices(t) \/ CheckFriendship(t)
    \/ Lookup(t) \/ Insert(t) \/ Commit(t) \/ CommitLost(t)
    \/ StatementFails(t) \/ Answer(t)

Receive(d) ==
    \/ LockReader(d, "syncing") \/ SyncPage(d) \/ SavePage(d) \/ LosePage(d)
    \/ LockReader(d, "acking") \/ Ack(d) \/ ReaderFails(d)

RevokeDevice(d) == RevokeLock(d) \/ RevokeCommit(d) \/ RevokeFails(d)

Next ==
    \/ \E t \in Threads, q \in Requests : NewTextMessage(t, q)
    \/ \E t \in Threads : Save(t)
    \/ \E d \in Readers : Receive(d)
    \/ \E d \in Devices : RevokeDevice(d)
    \/ \E u, v \in Users : AcceptFriend(u, v)

Spec == Init /\ [][Next]_vars

\* A device keeps asking for what it has not got, transactions of its own and
\* revocations end, and neither every query nor every response is lost.
Fairness ==
    \A d \in Readers :
        /\ WF_vars(RevokeCommit(d) \/ RevokeFails(d))
        /\ WF_vars(Ack(d) \/ ReaderFails(d))
        /\ SF_vars(LockReader(d, "syncing"))
        /\ SF_vars(SyncPage(d))
        /\ SF_vars(SavePage(d))

FairSpec == Spec /\ Fairness

-----------------------------------------------------------------------------
(* Properties *)

\* The rows of a pair of devices, of both directions.
Rows(p) == {e \in envelopes : Pair(e) = p}

\* MAX(seq) + 1 is computed in one statement and committed in another: between
\* any two devices the committed sequence numbers are exactly 1 .. n, each
\* used once.
SequenceDense ==
    \A d, e \in Devices :
        LET R == Rows({d, e})
        IN {x.seq : x \in R} = 1 .. Cardinality(R)

Message(e) == [from |-> e.from, to |-> e.to, id |-> e.id, packet |-> e.packet]

\* The row of a pair that has the number i, and the log the rows of a pair amount to,
\* in the order of seq.
RowAt(p, i) == CHOOSE x \in Rows(p) : x.seq = i
LogOf(p) == [i \in 1 .. Cardinality(Rows(p)) |-> Message(RowAt(p, i))]
PairLogs == [p \in {{d, e} : d, e \in Devices} |-> LogOf(p)]

Log == INSTANCE PairLog WITH
    Messages <- {Message(q) : q \in Requests},
    log <- PairLogs

\* A client retries while the first attempt may still be running or has
\* committed without telling: whoever is told Success or Duplicate has its
\* own packet in the store, under one row for that id.
AnswerNamesStoredRow ==
    \A t \in Threads :
        pc[t] = "answered" /\ result[t] \in {"Success", "Duplicate"} =>
            \A q \in req[t] :
                \E e \in envelopes :
                    /\ e.packet = q.packet
                    /\ {x \in envelopes : Log!SameKey(x, q)} = {e}

\* Paging by cursor never passes over an envelope: whatever a device has not
\* stored is still ahead of its cursor, also if it commits later.
CursorNeverSkips ==
    \A d \in Devices : \A e \in envelopes :
        e.to = d /\ e \notin saved[d] => e.seq > cursor[d][e.from]

\* An envelope is marked as received only when its recipient has it.
ReceivedMeansSaved == \A e \in received : e \in saved[e.to]

\* Once a revocation has committed, no envelope from or to the device is
\* stored and no page is read for it, whatever was in progress.
NothingAfterRevocation ==
    [][/\ \A e \in envelopes' \ envelopes : Pair(e) \subseteq active
       /\ \A d \in Devices : page'[d] \ page[d] # {} => d \in active]_vars

\* The store implements one append-only log per pair of devices, PairLog.
ImplementsPairLog == Log!PSpec

\* A stored envelope reaches its recipient's storage, although pushes may be
\* dropped, pages are cut and responses are lost, unless it is revoked.
EnvelopesArrive ==
    \A d \in Readers :
        (\E e \in envelopes : e.to = d /\ e \notin saved[d])
            ~> ({e \in envelopes : e.to = d} \subseteq saved[d] \/ d \notin active)

\* new-message-storage-layers.md, 5 and the comment in newTextMessage: when the
\* connection breaks during COMMIT the answer is DatabaseUnavailable, which
\* asks the client to retry the same message.
LostCommitIsReported ==
    [][envelopes' # envelopes =>
        \A t \in Threads :
            pc[t] = "finishing" /\ pc'[t] = "answered" =>
                result'[t] \in {"Success", "DatabaseUnavailable"}]_vars
=============================================================================
