------------------------- MODULE EnvelopeStoreProofs -------------------------
(***************************************************************************)
(* Proofs about EnvelopeStore, for every number of devices, threads and    *)
(* requests and every page size: the type invariant, the dense sequence    *)
(* numbers, the truth of the answers, the cursors, what a revocation stops *)
(* and the refinement of PairLog.                                          *)
(*                                                                         *)
(* A saving transaction computes in one statement what it commits in       *)
(* another.  The argument is what the locks keep true in between:          *)
(* PairLocks for the rows of the pair, RevokeLocks for the devices.        *)
(***************************************************************************)
EXTENDS EnvelopeStore, Sequences, FiniteSetTheorems, WellFoundedInduction, TLAPS

-----------------------------------------------------------------------------
(* The inductive invariant *)

\* The threads whose transaction may still store a row.
Working == {t \in Threads : pc[t] \notin {"idle", "answered"}}

\* Every row was asked for by a request of its own, so MAX(seq) + 1 stays within
\* the bound on requests.
Counted ==
    /\ IsFiniteSet(envelopes)
    /\ IsFiniteSet(Working)
    /\ Cardinality(envelopes) + Cardinality(Working) <= sent

\* A thread serves one request from its start to its answer; saveNewMessage never
\* sees one whose devices are equal; a result is what the callback returned.
Serving ==
    \A t \in Threads :
        /\ IF pc[t] = "idle" THEN req[t] = {} ELSE \E q \in Requests : req[t] = {q}
        /\ t \in Working => \A q \in req[t] : q.from # q.to
        /\ pc[t] \notin {"finishing", "answered"} => result[t] = "none"
        /\ pc[t] = "finishing" => result[t] \in SaveResults

\* The advisory lock: two transactions past it are about different pairs.
PairLocks ==
    \A t, u \in Threads : t # u /\ PairLocked(t) /\ PairLocked(u) =>
        \A p \in req[t], q \in req[u] : Pair(p) # Pair(q)

\* A row is known by its pair and sequence number, and by its retry scope.
Distinct ==
    \A e, f \in envelopes :
        /\ Pair(e) = Pair(f) /\ e.seq = f.seq => e = f
        /\ e.from = f.from /\ e.to = f.to /\ e.id = f.id => e = f

NewRow(q) == [from |-> q.from, to |-> q.to, id |-> q.id, packet |-> q.packet,
              seq |-> Cardinality(Rows(Pair(q))) + 1]

\* Past the row locks, until it ends, a transaction that will store something.
Authorized(t) ==
    \/ pc[t] \in {"devices", "authorized", "absent"}
    \/ pc[t] = "finishing" /\ result[t] = "Success"

\* What a transaction has read stays true until it commits: its devices are active,
\* the message is not stored and the number it took is the next one.
WritingOf(t) ==
    \A q \in req[t] :
        /\ Authorized(t) => AuthorizedRows(q) = Pair(q)
        /\ pc[t] = "absent" => Existing(q) = {}
        /\ pc[t] = "finishing" /\ result[t] = "Success" =>
              Existing(q) = {} /\ row[t] = {NewRow(q)}

Writing == \A t \in Threads : WritingOf(t)

\* What the callback returned, or the client is about to be told, holds.
ToldOf(t) ==
    \A q \in req[t] :
        /\ pc[t] \in {"finishing", "answered"} /\ result[t] = "Duplicate" =>
              \E e \in Existing(q) : e.packet = q.packet
        /\ pc[t] = "answered" /\ result[t] = "Success" =>
              \E e \in Existing(q) : e.packet = q.packet /\ row[t] = {e}

Told == \A t \in Threads : ToldOf(t)

\* FOR UPDATE excludes FOR SHARE, and a reader has found its device active.
RevokeLocks ==
    /\ \A d \in Devices : revoker[d] = "locked" => ~RowShared(d)
    /\ \A d \in Devices : reader[d] # "idle" => d \in active

\* What a device gets is stored, addressed to it and not its own.
Inbox ==
    /\ \A e \in envelopes : e.from # e.to
    /\ \A d \in Devices : page[d] \cup saved[d] \subseteq {e \in envelopes : e.to = d}

\* A cursor is at an envelope the device has saved, and past a page there is only
\* what the device has or what is newer than the page.
Paging ==
    /\ \A d, s \in Devices : cursor[d][s] # 0 =>
          \E e \in saved[d] : e.from = s /\ e.seq = cursor[d][s]
    /\ \A d \in Devices : \A f \in page[d], e \in envelopes :
          e.to = d /\ e.from = f.from /\ e \notin page[d] \cup saved[d] => e.seq > f.seq

StoreInv ==
    /\ TypeOK /\ Counted /\ Serving /\ PairLocks /\ Distinct /\ SequenceDense
    /\ Writing /\ Told /\ RevokeLocks /\ Inbox /\ Paging
    /\ CursorNeverSkips /\ ReceivedMeansSaved

-----------------------------------------------------------------------------
(* Operators of the model *)

\* MAX over a bounded set of numbers is one of them and bounds the others.
LEMMA MaxIsGreatest ==
    ASSUME NEW n \in Nat, NEW S \in SUBSET (0 .. n), S # {}
    PROVE  Max(S) \in S /\ \A x \in S : Max(S) >= x
  <1> DEFINE T == {m \in Nat : \A x \in S : x <= m}
  <1>1. T # {} /\ T \subseteq Nat
    <2>1. n \in T
      OBVIOUS
    <2> QED
      BY <2>1
  <1>2. PICK m \in T : \A y \in T : <<y, m>> \notin OpToRel(<, Nat)
    BY <1>1, NatLessThanWellFounded, WFMin, Zenon
  <1>3. \A y \in T : ~(y < m)
    BY <1>1, <1>2 DEF OpToRel
  <1>4. m \in S
    <2> SUFFICES ASSUME m \notin S PROVE FALSE
      OBVIOUS
    <2>1. PICK x \in S : TRUE
      OBVIOUS
    <2>2. x <= m /\ x # m /\ x >= 0
      OBVIOUS
    <2>3. m - 1 \in T
      BY <2>2
    <2> QED
      BY <2>3, <1>3
  <1>5. \E x \in S : \A y \in S : x >= y
    BY <1>4
  <1> QED
    BY <1>5 DEF Max

\* The rows of a pair are finitely many.
LEMMA RowsFinite ==
    ASSUME NEW p, IsFiniteSet(envelopes)
    PROVE  /\ IsFiniteSet(Rows(p))
           /\ Cardinality(Rows(p)) \in Nat
           /\ Cardinality(envelopes) \in Nat
           /\ Cardinality(Rows(p)) <= Cardinality(envelopes)
  BY FS_Subset, FS_CardinalityType, Rows(p) \in SUBSET envelopes DEF Rows

\* COALESCE(MAX(seq), 0) is the number of rows of the pair.
LEMMA LastSeqIsCount ==
    ASSUME TypeOK, Counted, SequenceDense, NEW q \in Requests
    PROVE  LastSeq(q) = Cardinality(Rows(Pair(q)))
  <1> DEFINE n == Cardinality(Rows(Pair(q)))
             S == {0} \cup {e.seq : e \in {x \in envelopes : Pair(x) = Pair(q)}}
  <1>1. n \in Nat
    BY RowsFinite DEF Counted
  <1>2. {x.seq : x \in Rows(Pair(q))} = 1 .. n
    BY RequestAssumption DEF SequenceDense, Pair
  <1>3. S = 0 .. n
    <2>1. S = {0} \cup 1 .. n
      BY <1>2, Zenon DEF Rows
    <2> QED
      BY <2>1, <1>1
  <1>4. Max(S) \in S /\ \A x \in S : Max(S) >= x
    <2>1. S \in SUBSET (0 .. n) /\ S # {}
      BY <1>3
    <2> QED
      BY <2>1, <1>1, MaxIsGreatest
  <1>5. Max(S) = n
    BY <1>1, <1>3, <1>4
  <1> QED
    BY <1>5 DEF LastSeq

-----------------------------------------------------------------------------
(* Which steps write what *)

ThreadStep == \E t \in Threads : Save(t) \/ \E q \in Requests : NewTextMessage(t, q)

OtherStep ==
    \/ \E d \in Readers : Receive(d)
    \/ \E d \in Devices : RevokeDevice(d)
    \/ \E u, v \in Users : AcceptFriend(u, v)

LEMMA NextSteps == Next => ThreadStep \/ OtherStep
  BY DEF Next, ThreadStep, OtherStep

\* Readers and revocations leave the saving transactions and the rows alone.
LEMMA OtherFrame == OtherStep => UNCHANGED <<envelopes, saveVars, sent>>
  BY DEF OtherStep, Receive, RevokeDevice, LockReader, SyncPage, SavePage, LosePage,
         Ack, ReaderFails, RevokeLock, RevokeCommit, RevokeFails, AcceptFriend, saveVars

\* Saving transactions leave the devices, the readers and the cursors alone.
LEMMA ThreadFrame ==
    ThreadStep => UNCHANGED <<active, friends, received, revoker, reader, page, cursor>>
  BY DEF ThreadStep, Save, NewTextMessage, AcquirePairLock, LockDevices,
         CheckFriendship, Lookup, Insert, Commit, CommitLost, StatementFails, Answer,
         clientVars

\* Rows are only added, by the commit of a transaction that has inserted one.
LEMMA EnvelopesStep ==
    ASSUME TypeOK, Serving, Writing, Next
    PROVE  \/ UNCHANGED envelopes
           \/ \E t \in Threads, q \in Requests :
                 /\ pc[t] = "finishing" /\ result[t] = "Success" /\ req[t] = {q}
                 /\ envelopes' = envelopes \cup {NewRow(q)}
                 /\ Commit(t) \/ CommitLost(t)
  <1>1. ASSUME NEW t \in Threads, Commit(t) \/ CommitLost(t), envelopes' # envelopes
        PROVE  \E q \in Requests :
                 /\ pc[t] = "finishing" /\ result[t] = "Success" /\ req[t] = {q}
                 /\ envelopes' = envelopes \cup {NewRow(q)}
    <2>1. pc[t] = "finishing" /\ envelopes' = envelopes \cup row[t]
      BY <1>1 DEF Commit, CommitLost
    <2>2. row[t] # {}
      BY <2>1, <1>1
    <2>3. result[t] = "Success"
      BY <2>1, <2>2 DEF TypeOK
    <2>4. PICK q \in Requests : req[t] = {q}
      BY <2>1 DEF Serving
    <2>5. row[t] = {NewRow(q)}
      BY <2>1, <2>3, <2>4 DEF Writing, WritingOf
    <2> QED
      BY <2>1, <2>3, <2>4, <2>5
  <1>2. CASE OtherStep
    BY <1>2, OtherFrame
  <1>3. ASSUME NEW t \in Threads, NEW q \in Requests, NewTextMessage(t, q)
        PROVE  UNCHANGED envelopes
    BY <1>3 DEF NewTextMessage
  <1>4. ASSUME NEW t \in Threads, Save(t), ~Commit(t), ~CommitLost(t)
        PROVE  UNCHANGED envelopes
    BY <1>4 DEF Save, AcquirePairLock, LockDevices, CheckFriendship, Lookup, Insert,
                StatementFails, Answer
  <1> QED
    BY <1>1, <1>2, <1>3, <1>4, NextSteps DEF ThreadStep

-----------------------------------------------------------------------------
(* A row is stored *)

LEMMA IntervalGrows ==
    ASSUME NEW n \in Nat PROVE 1 .. n \cup {n + 1} = 1 .. n + 1
  OBVIOUS

\* The row a transaction commits is new, extends the sequence of its pair by one,
\* and leaves the rows that other transactions have read as they are.
LEMMA RowStored ==
    ASSUME StoreInv, NEW t \in Threads, NEW q \in Requests,
           pc[t] = "finishing", result[t] = "Success", req[t] = {q},
           envelopes' = envelopes \cup {NewRow(q)}
    PROVE  /\ NewRow(q) \in Envelope
           /\ NewRow(q) \notin envelopes
           /\ IsFiniteSet(envelopes')
           /\ Cardinality(envelopes') = Cardinality(envelopes) + 1
           /\ \A e \in envelopes : Pair(e) = Pair(q) => e.seq < NewRow(q).seq
           /\ Distinct'
           /\ SequenceDense'
           /\ \A p \in Requests : Pair(p) # Pair(q) =>
                 Existing(p)' = Existing(p) /\ Rows(Pair(p))' = Rows(Pair(p))
  <1> DEFINE r == NewRow(q)
             n == Cardinality(Rows(Pair(q)))
  <1>0. /\ n \in Nat /\ Cardinality(envelopes) \in Nat /\ n <= Cardinality(envelopes)
        /\ IsFiniteSet(Rows(Pair(q)))
    BY RowsFinite DEF StoreInv, Counted
  <1>1. {x.seq : x \in Rows(Pair(q))} = 1 .. n
    BY RequestAssumption DEF StoreInv, SequenceDense, Pair
  <1>2. \A e \in envelopes : Pair(e) = Pair(q) => e.seq \in 1 .. n
    BY <1>1, Zenon DEF Rows
  <1>3. /\ r.from = q.from /\ r.to = q.to /\ r.id = q.id /\ r.packet = q.packet
        /\ r.seq = n + 1 /\ Pair(r) = Pair(q)
    BY DEF NewRow, Pair
  <1>4. \A e \in envelopes : Pair(e) = Pair(q) => e.seq < r.seq
    BY <1>0, <1>2, <1>3
  <1>5. r \notin envelopes
    BY <1>0, <1>2, <1>3
  <1>6. /\ IsFiniteSet(envelopes')
        /\ Cardinality(envelopes') = Cardinality(envelopes) + 1
    BY <1>5, FS_AddElement DEF StoreInv, Counted
  <1>7. r \in Envelope
    <2>1. Cardinality(envelopes) + 1 <= sent
      <3>1. t \in Working
        BY DEF Working
      <3>2. Cardinality(Working) \in Nat /\ Cardinality(Working) # 0
        BY <3>1, FS_CardinalityType, FS_EmptySet DEF StoreInv, Counted
      <3>3. Cardinality(envelopes) + Cardinality(Working) <= sent /\ sent \in Nat
        BY DEF StoreInv, Counted, TypeOK
      <3> QED
        BY <3>2, <3>3, <1>0
    <2>2. r.seq \in Seqs
      BY <2>1, <1>0, <1>3, BoundAssumption DEF Seqs, StoreInv, TypeOK
    <2> QED
      BY <2>2, <1>3, RequestAssumption DEF Envelope, NewRow, Ids, Packets
  <1>8. Distinct'
    <2>1. \A e \in envelopes : ~(e.from = r.from /\ e.to = r.to /\ e.id = r.id)
      BY <1>3 DEF StoreInv, Writing, WritingOf, Existing
    <2>2. \A e \in envelopes : ~(Pair(e) = Pair(r) /\ e.seq = r.seq)
      BY <1>0, <1>2, <1>3
    <2> QED
      BY <2>1, <2>2 DEF StoreInv, Distinct, Pair
  <1>9. \A p : p # Pair(q) => Rows(p)' = Rows(p)
    BY <1>3 DEF Rows, Pair
  <1>10. SequenceDense'
    <2> SUFFICES ASSUME NEW d \in Devices, NEW e \in Devices
                 PROVE  {x.seq : x \in Rows({d, e})'} = 1 .. Cardinality(Rows({d, e})')
      BY DEF SequenceDense
    <2>1. CASE {d, e} # Pair(q)
      BY <2>1, <1>9 DEF StoreInv, SequenceDense
    <2>2. CASE {d, e} = Pair(q)
      <3>1. Rows({d, e})' = Rows(Pair(q)) \cup {r}
        BY <2>2, <1>3 DEF Rows, Pair
      <3>2. Cardinality(Rows({d, e})') = n + 1
        BY <3>1, <1>0, <1>5, FS_AddElement DEF Rows
      <3>3. {x.seq : x \in Rows({d, e})'} = 1 .. n \cup {n + 1}
        BY <3>1, <1>1, <1>3
      <3> QED
        BY <3>2, <3>3, <1>0, IntervalGrows
    <2> QED
      BY <2>1, <2>2
  <1>11. \A p \in Requests : Pair(p) # Pair(q) => Existing(p)' = Existing(p)
    BY <1>3 DEF Existing, Pair
  <1> QED
    BY <1>4, <1>5, <1>6, <1>7, <1>8, <1>9, <1>10, <1>11

\* The number inserted is the one of NewRow.
LEMMA InsertedRow ==
    ASSUME TypeOK, Counted, SequenceDense, NEW t \in Threads, NEW q \in Requests,
           req[t] = {q}, Insert(t)
    PROVE  row' = [row EXCEPT ![t] = {NewRow(q)}]
  BY LastSeqIsCount DEF Insert, NewRow

-----------------------------------------------------------------------------
(* The steps of a saving transaction that read *)

\* A statement before the insert moves on, or ends the callback with a result.
LEMMA StatementStep ==
    ASSUME Serving, NEW t \in Threads,
           AcquirePairLock(t) \/ LockDevices(t) \/ CheckFriendship(t) \/ Lookup(t)
    PROVE  /\ UNCHANGED <<envelopes, req, attempt, row, sent, saved>>
           /\ pc[t] \in {"begun", "locked", "devices", "authorized"}
           /\ \/ /\ \E label \in {"locked", "devices", "authorized", "absent"} :
                       pc' = [pc EXCEPT ![t] = label]
                 /\ UNCHANGED result
              \/ /\ pc[t] # "begun"
                 /\ pc' = [pc EXCEPT ![t] = "finishing"]
                 /\ \E r \in {"PermissionDenied", "Duplicate", "Conflict"} :
                       result' = [result EXCEPT ![t] = r]
  <1>1. PICK q : pc[t] # "idle" => req[t] = {q}
    BY DEF Serving
  <1>2. CASE AcquirePairLock(t)
    BY <1>2 DEF AcquirePairLock, Goto, clientVars
  <1>3. CASE LockDevices(t)
    BY <1>1, <1>3 DEF LockDevices, Goto, Return, clientVars
  <1>4. CASE CheckFriendship(t)
    BY <1>1, <1>4 DEF CheckFriendship, Goto, Return, clientVars
  <1>5. CASE Lookup(t)
    BY <1>1, <1>5 DEF Lookup, Goto, Return, clientVars
  <1> QED
    BY <1>2, <1>3, <1>4, <1>5

-----------------------------------------------------------------------------
(* Types *)

LEMMA ThreadTypes ==
    ASSUME StoreInv, ThreadStep
    PROVE  TypeOK'
  <1> USE DEF StoreInv, SaveResults, Answers
  <1>0. UNCHANGED <<active, friends, received, revoker, reader, page, cursor>>
    BY ThreadFrame
  <1>1. ASSUME NEW t \in Threads, NEW q \in Requests, NewTextMessage(t, q)
        PROVE  TypeOK'
    <2>1. row[t] = {} /\ UNCHANGED <<envelopes, row, saved>>
      BY <1>1 DEF NewTextMessage, TypeOK, clientVars
    <2>2. sent' \in 0 .. MaxRequests /\ attempt' \in [Threads -> 0 .. MaxAttempts]
      BY <1>1, BoundAssumption DEF NewTextMessage, TypeOK
    <2>3. /\ req' \in [Threads -> SUBSET Requests]
          /\ result' \in [Threads -> Answers \cup {"none"}]
      BY <1>1 DEF NewTextMessage, TypeOK
    <2>4. \E label \in {"begun", "answered"} : pc' = [pc EXCEPT ![t] = label]
      BY <1>1 DEF NewTextMessage, Goto
    <2>5. \A u \in Threads : row[u] # {} => u # t /\ result'[u] = result[u]
      BY <1>1, <2>1 DEF NewTextMessage, TypeOK
    <2> QED
      BY <1>0, <2>1, <2>2, <2>3, <2>4, <2>5 DEF TypeOK
  <1>2. ASSUME NEW t \in Threads,
               AcquirePairLock(t) \/ LockDevices(t) \/ CheckFriendship(t) \/ Lookup(t)
        PROVE  TypeOK'
    <2>1. row[t] = {}
      BY <1>2, StatementStep DEF TypeOK
    <2>2. UNCHANGED <<envelopes, req, attempt, row, sent, saved>>
      BY <1>2, StatementStep
    <2>3. \E label \in {"locked", "devices", "authorized", "absent", "finishing"} :
             pc' = [pc EXCEPT ![t] = label]
      BY <1>2, StatementStep
    <2>4. /\ result' \in [Threads -> Answers \cup {"none"}]
          /\ \A u \in Threads \ {t} : result'[u] = result[u]
      BY <1>2, StatementStep DEF TypeOK
    <2>5. \A u \in Threads : row[u] # {} => pc'[u] = pc[u] /\ result'[u] = result[u]
      BY <2>1, <2>3, <2>4 DEF TypeOK
    <2>6. pc' \in [Threads -> {"idle", "begun", "locked", "devices", "authorized",
                              "absent", "finishing", "answered"}]
      BY <2>3 DEF TypeOK
    <2> QED
      BY <1>0, <2>2, <2>4, <2>5, <2>6 DEF TypeOK
  <1>3. ASSUME NEW t \in Threads, Insert(t)
        PROVE  TypeOK'
    <2>1. PICK q \in Requests : req[t] = {q}
      BY <1>3 DEF Insert, Serving
    <2>2. row' = [row EXCEPT ![t] = {NewRow(q)}]
      BY <1>3, <2>1, InsertedRow
    <2>3. NewRow(q) \in Envelope
      <3>1. NewRow(q).seq \in Seqs
        <4>1. /\ Cardinality(Rows(Pair(q))) \in Nat
              /\ Cardinality(envelopes) \in Nat
              /\ Cardinality(Rows(Pair(q))) <= Cardinality(envelopes)
          BY RowsFinite DEF Counted
        <4>2. Cardinality(Working) \in Nat /\ Cardinality(Working) # 0
          <5>1. t \in Working
            BY <1>3 DEF Working, Insert
          <5> QED
            BY <5>1, FS_CardinalityType, FS_EmptySet DEF Counted
        <4>3. /\ Cardinality(envelopes) + Cardinality(Working) <= sent
              /\ sent \in Nat /\ sent <= MaxRequests
          BY BoundAssumption DEF Counted, TypeOK
        <4> QED
          BY <4>1, <4>2, <4>3, BoundAssumption DEF Seqs, NewRow
      <3> QED
        BY <3>1, RequestAssumption DEF Envelope, NewRow, Ids, Packets
    <2> QED
      BY <1>0, <1>3, <2>2, <2>3 DEF Insert, Return, Goto, TypeOK, clientVars
  <1>4. ASSUME NEW t \in Threads, Commit(t)
        PROVE  TypeOK'
    BY <1>0, <1>4 DEF Commit, Goto, TypeOK, clientVars
  <1>5. ASSUME NEW t \in Threads, CommitLost(t)
        PROVE  TypeOK'
    BY <1>0, <1>5 DEF CommitLost, Goto, TypeOK, clientVars
  <1>6. ASSUME NEW t \in Threads, StatementFails(t)
        PROVE  TypeOK'
    <2>1. UNCHANGED <<envelopes, req, sent, saved>> /\ row' = [row EXCEPT ![t] = {}]
      BY <1>6 DEF StatementFails, clientVars
    <2>2. attempt' \in [Threads -> 0 .. MaxAttempts]
      BY <1>6, BoundAssumption DEF StatementFails, TypeOK
    <2>3. /\ result' \in [Threads -> Answers \cup {"none"}]
          /\ \A u \in Threads \ {t} : result'[u] = result[u]
      BY <1>6 DEF StatementFails, TypeOK
    <2>4. \E label \in {"begun", "answered"} : pc' = [pc EXCEPT ![t] = label]
      BY <1>6 DEF StatementFails, Goto
    <2> QED
      BY <1>0, <2>1, <2>2, <2>3, <2>4 DEF TypeOK
  <1>7. ASSUME NEW t \in Threads, Answer(t)
        PROVE  TypeOK'
    <2>1. saved' \in [Devices -> SUBSET envelopes]
      <3>1. CASE UNCHANGED saved
        BY <3>1 DEF TypeOK
      <3>2. CASE /\ result[t] = "Success"
                 /\ saved' = [d \in Devices |-> saved[d] \cup {e \in row[t] : e.to = d}]
        <4>1. PICK q \in Requests : req[t] = {q}
          BY <1>7 DEF Answer, Serving
        <4>2. row[t] \subseteq envelopes
          BY <1>7, <3>2, <4>1 DEF Answer, Told, ToldOf, Existing
        <4> QED
          BY <3>2, <4>2 DEF TypeOK
      <3> QED
        BY <1>7, <3>1, <3>2 DEF Answer
    <2> QED
      BY <1>0, <1>7, <2>1, BoundAssumption DEF Answer, Goto, TypeOK
  <1> QED
    BY <1>1, <1>2, <1>3, <1>4, <1>5, <1>6, <1>7 DEF ThreadStep, Save

LEMMA OtherTypes ==
    ASSUME StoreInv, OtherStep
    PROVE  TypeOK'
  <1> USE DEF StoreInv
  <1>0. UNCHANGED <<envelopes, pc, req, attempt, row, result, sent>>
    BY OtherFrame DEF saveVars
  <1>1. ASSUME NEW d \in Readers,
               LockReader(d, "syncing") \/ LockReader(d, "acking") \/ ReaderFails(d)
        PROVE  TypeOK'
    BY <1>0, <1>1 DEF LockReader, ReaderFails, TypeOK, clientVars
  <1>2. ASSUME NEW d \in Readers, SyncPage(d)
        PROVE  TypeOK'
    <2>1. PICK P \in SUBSET envelopes : page' = [page EXCEPT ![d] = P]
      BY <1>2 DEF SyncPage, Pages, Matching
    <2> QED
      BY <1>0, <1>2, <2>1 DEF SyncPage, TypeOK
  <1>3. ASSUME NEW d \in Readers, SavePage(d)
        PROVE  TypeOK'
    <2>1. d \in Devices
      BY ReaderAssumption
    <2>2. page[d] \subseteq envelopes
      BY <2>1 DEF Inbox
    <2>3. ASSUME NEW s \in Devices
          PROVE  Max({cursor[d][s]} \cup {e.seq : e \in {x \in page[d] : x.from = s}})
                   \in 0 .. MaxRequests
      <3> DEFINE S == {cursor[d][s]} \cup {e.seq : e \in {x \in page[d] : x.from = s}}
      <3>1. S \subseteq 0 .. MaxRequests /\ S # {}
        <4>1. cursor[d][s] \in 0 .. MaxRequests
          BY <2>1 DEF TypeOK
        <4>2. \A e \in page[d] : e.seq \in 0 .. MaxRequests
          BY <2>1, BoundAssumption DEF TypeOK, Envelope, Seqs
        <4> QED
          BY <4>1, <4>2
      <3> QED
        BY <3>1, MaxIsGreatest, BoundAssumption
    <2>4. cursor' \in [Devices -> [Devices -> 0 .. MaxRequests]]
      BY <1>3, <2>3 DEF SavePage, TypeOK
    <2> QED
      BY <1>0, <1>3, <2>2, <2>4 DEF SavePage, TypeOK
  <1>4. ASSUME NEW d \in Readers, LosePage(d)
        PROVE  TypeOK'
    BY <1>0, <1>4 DEF LosePage, TypeOK
  <1>5. ASSUME NEW d \in Readers, Ack(d)
        PROVE  TypeOK'
    <2>1. d \in Devices
      BY ReaderAssumption
    <2>2. received' \subseteq envelopes
      BY <1>5, <2>1 DEF Ack, Acknowledged, TypeOK
    <2> QED
      BY <1>0, <1>5, <2>2 DEF Ack, TypeOK, clientVars
  <1>6. ASSUME NEW d \in Devices, RevokeDevice(d)
        PROVE  TypeOK'
    BY <1>0, <1>6 DEF RevokeDevice, RevokeLock, RevokeCommit, RevokeFails, TypeOK, clientVars
  <1>7. ASSUME NEW u \in Users, NEW v \in Users, AcceptFriend(u, v)
        PROVE  TypeOK'
    BY <1>0, <1>7 DEF AcceptFriend, TypeOK, clientVars
  <1> QED
    BY <1>1, <1>2, <1>3, <1>4, <1>5, <1>6, <1>7 DEF OtherStep, Receive

-----------------------------------------------------------------------------
(* Requests and their locks *)

LEMMA ServingKept ==
    ASSUME StoreInv, Next
    PROVE  Serving'
  <1> USE DEF StoreInv, SaveResults
  <1>1. ASSUME NEW t \in Threads, NEW q \in Requests, NewTextMessage(t, q)
        PROVE  Serving'
    BY <1>1 DEF NewTextMessage, Goto, Serving, Working, TypeOK
  <1>2. ASSUME NEW t \in Threads,
               AcquirePairLock(t) \/ LockDevices(t) \/ CheckFriendship(t) \/ Lookup(t)
        PROVE  Serving'
    <2>1. /\ UNCHANGED req
          /\ pc[t] \in {"begun", "locked", "devices", "authorized"}
          /\ \A u \in Threads \ {t} : pc'[u] = pc[u] /\ result'[u] = result[u]
          /\ pc'[t] \notin {"idle", "answered"}
          /\ pc'[t] # "finishing" => result'[t] = result[t]
          /\ pc'[t] = "finishing" => result'[t] \in SaveResults
      BY <1>2, StatementStep DEF TypeOK
    <2> QED
      BY <2>1 DEF Serving, Working
  <1>3. ASSUME NEW t \in Threads, Insert(t)
        PROVE  Serving'
    BY <1>3 DEF Insert, Return, Goto, Serving, Working, TypeOK
  <1>4. ASSUME NEW t \in Threads, Commit(t) \/ CommitLost(t)
        PROVE  Serving'
    <2>1. /\ UNCHANGED req /\ pc[t] = "finishing" /\ pc'[t] = "answered"
          /\ \A u \in Threads \ {t} : pc'[u] = pc[u] /\ result'[u] = result[u]
      BY <1>4 DEF Commit, CommitLost, Goto, TypeOK
    <2> QED
      BY <2>1 DEF Serving, Working
  <1>5. ASSUME NEW t \in Threads, StatementFails(t)
        PROVE  Serving'
    <2>1. /\ UNCHANGED req /\ pc[t] \notin {"idle", "answered"}
          /\ \A u \in Threads \ {t} : pc'[u] = pc[u] /\ result'[u] = result[u]
          /\ pc'[t] = "answered" \/ (pc'[t] = "begun" /\ result'[t] = "none")
      BY <1>5 DEF StatementFails, Goto, TypeOK
    <2> QED
      BY <2>1 DEF Serving, Working
  <1>6. ASSUME NEW t \in Threads, Answer(t)
        PROVE  Serving'
    BY <1>6 DEF Answer, Goto, Serving, Working, TypeOK
  <1>7. CASE OtherStep
    BY <1>7, OtherFrame DEF saveVars, Serving, Working
  <1> QED
    BY <1>1, <1>2, <1>3, <1>4, <1>5, <1>6, <1>7, NextSteps DEF ThreadStep, Save

\* Only AcquirePairLock takes the lock of a pair, and only if it is free.
LEMMA PairLocksKept ==
    ASSUME StoreInv, Next
    PROVE  PairLocks'
  <1> USE DEF StoreInv
  <1>1. ASSUME NEW t \in Threads, AcquirePairLock(t)
        PROVE  PairLocks'
    <2>1. \A u \in Threads \ {t} : PairLocked(u)' <=> PairLocked(u)
      BY <1>1 DEF AcquirePairLock, Goto, PairLocked, TypeOK
    <2>2. UNCHANGED req
      BY <1>1 DEF AcquirePairLock
    <2>3. \A u \in Threads \ {t} : PairLocked(u) =>
             \A p \in req[u], q \in req[t] : Pair(p) # Pair(q)
      BY <1>1 DEF AcquirePairLock, PairLockFree
    <2> QED
      <3> SUFFICES ASSUME NEW u \in Threads, NEW v \in Threads, u # v,
                          PairLocked(u)', PairLocked(v)', NEW p \in req[u], NEW q \in req[v]
                   PROVE  Pair(p) # Pair(q)
        BY <2>2 DEF PairLocks, Pair
      <3> QED
        BY <2>1, <2>3 DEF PairLocks
  <1>2. ASSUME \A u \in Threads : PairLocked(u)' => PairLocked(u) /\ req'[u] = req[u]
        PROVE  PairLocks'
    BY <1>2 DEF PairLocks, Pair
  <1>3. ASSUME NEW t \in Threads, LockDevices(t) \/ CheckFriendship(t) \/ Lookup(t),
               NEW u \in Threads, PairLocked(u)'
        PROVE  PairLocked(u) /\ req'[u] = req[u]
    <2>1. UNCHANGED req /\ \A v \in Threads \ {t} : pc'[v] = pc[v]
      BY <1>3, StatementStep DEF TypeOK
    <2>2. pc[t] \in {"locked", "devices", "authorized"}
      BY <1>3 DEF LockDevices, CheckFriendship, Lookup
    <2> QED
      BY <1>3, <2>1, <2>2 DEF PairLocked
  <1>4. ASSUME NEW t \in Threads,
               Insert(t) \/ Commit(t) \/ CommitLost(t) \/ StatementFails(t) \/ Answer(t),
               NEW u \in Threads, PairLocked(u)'
        PROVE  PairLocked(u) /\ req'[u] = req[u]
    BY <1>4 DEF Insert, Commit, CommitLost, StatementFails, Answer, Return, Goto,
                PairLocked, TypeOK
  <1>5. ASSUME NEW t \in Threads, NEW q \in Requests, NewTextMessage(t, q),
               NEW u \in Threads, PairLocked(u)'
        PROVE  PairLocked(u) /\ req'[u] = req[u]
    BY <1>5 DEF NewTextMessage, Goto, PairLocked, TypeOK
  <1>6. CASE OtherStep
    BY <1>2, <1>6, OtherFrame DEF saveVars, PairLocked
  <1> QED
    BY <1>1, <1>2, <1>3, <1>4, <1>5, <1>6, NextSteps DEF ThreadStep, Save

LEMMA CountedKept ==
    ASSUME StoreInv, Next
    PROVE  Counted'
  <1> USE DEF StoreInv
  <1>0. /\ Cardinality(Working) \in Nat /\ Cardinality(envelopes) \in Nat
        /\ IsFiniteSet(Working) /\ IsFiniteSet(envelopes) /\ sent \in Nat
        /\ Cardinality(envelopes) + Cardinality(Working) <= sent
    BY FS_CardinalityType, BoundAssumption DEF Counted, TypeOK
  <1>1. ASSUME NEW t \in Threads, NEW q \in Requests, NewTextMessage(t, q)
        PROVE  Counted'
    <2>1. UNCHANGED envelopes /\ sent' = sent + 1
      BY <1>1 DEF NewTextMessage
    <2>2. Working' = Working \/ Working' = Working \cup {t}
      BY <1>1 DEF NewTextMessage, Goto, Working, TypeOK
    <2>3. /\ IsFiniteSet(Working') /\ Cardinality(Working') \in Nat
          /\ Cardinality(Working') <= Cardinality(Working) + 1
      BY <1>0, <2>2, FS_AddElement
    <2> QED
      BY <1>0, <2>1, <2>3 DEF Counted
  <1>2. ASSUME NEW t \in Threads, Commit(t) \/ CommitLost(t)
        PROVE  Counted'
    <2>1. t \in Working /\ Working' = Working \ {t} /\ UNCHANGED sent
      BY <1>2 DEF Commit, CommitLost, Goto, Working, TypeOK
    <2>2. IsFiniteSet(Working') /\ Cardinality(Working') = Cardinality(Working) - 1
      BY <1>0, <2>1, FS_RemoveElement
    <2>3. \/ UNCHANGED envelopes
          \/ IsFiniteSet(envelopes') /\ Cardinality(envelopes') = Cardinality(envelopes) + 1
      BY <1>2, EnvelopesStep, RowStored
    <2> QED
      BY <1>0, <2>1, <2>2, <2>3 DEF Counted
  <1>3. ASSUME NEW t \in Threads, StatementFails(t)
        PROVE  Counted'
    <2>1. UNCHANGED <<envelopes, sent>>
      BY <1>3 DEF StatementFails
    <2>2. Working' = Working \/ Working' = Working \ {t}
      BY <1>3 DEF StatementFails, Goto, Working, TypeOK
    <2>3. /\ IsFiniteSet(Working') /\ Cardinality(Working') \in Nat
          /\ Cardinality(Working') <= Cardinality(Working)
      BY <1>0, <2>2, FS_Subset, FS_CardinalityType
    <2> QED
      BY <1>0, <2>1, <2>3 DEF Counted
  <1>4. ASSUME NEW t \in Threads,
               AcquirePairLock(t) \/ LockDevices(t) \/ CheckFriendship(t) \/ Lookup(t)
        PROVE  Counted'
    <2>1. Working' = Working /\ UNCHANGED <<envelopes, sent>>
      BY <1>4, StatementStep DEF Working, TypeOK
    <2> QED
      BY <2>1 DEF Counted
  <1>5. ASSUME NEW t \in Threads, Insert(t) \/ Answer(t)
        PROVE  Counted'
    <2>1. Working' = Working /\ UNCHANGED <<envelopes, sent>>
      BY <1>5 DEF Insert, Answer, Return, Goto, Working, TypeOK
    <2> QED
      BY <2>1 DEF Counted
  <1>6. CASE OtherStep
    BY <1>6, OtherFrame DEF saveVars, Counted, Working
  <1> QED
    BY <1>1, <1>2, <1>3, <1>4, <1>5, <1>6, NextSteps DEF ThreadStep, Save

LEMMA RowsKept ==
    ASSUME StoreInv, Next
    PROVE  Distinct' /\ SequenceDense'
  <1>1. CASE UNCHANGED envelopes
    BY <1>1 DEF StoreInv, Distinct, SequenceDense, Rows, Pair
  <1>2. CASE envelopes' # envelopes
    <2>1. PICK t \in Threads, q \in Requests :
             /\ pc[t] = "finishing" /\ result[t] = "Success" /\ req[t] = {q}
             /\ envelopes' = envelopes \cup {NewRow(q)}
      BY <1>2, EnvelopesStep DEF StoreInv
    <2> QED
      BY <2>1, RowStored
  <1> QED
    BY <1>1, <1>2

-----------------------------------------------------------------------------
(* What a transaction has read stays true *)

StepOf(t) == Save(t) \/ \E q \in Requests : NewTextMessage(t, q)

LEMMA OtherThreads ==
    ASSUME StoreInv, NEW t \in Threads, StepOf(t), NEW u \in Threads \ {t}
    PROVE  pc'[u] = pc[u] /\ req'[u] = req[u] /\ row'[u] = row[u] /\ result'[u] = result[u]
  <1> USE DEF StoreInv, TypeOK
  <1>1. CASE AcquirePairLock(t) \/ LockDevices(t) \/ CheckFriendship(t) \/ Lookup(t)
    BY <1>1, StatementStep
  <1>2. CASE Insert(t) \/ Commit(t) \/ CommitLost(t) \/ StatementFails(t) \/ Answer(t)
    BY <1>2 DEF Insert, Commit, CommitLost, StatementFails, Answer, Return, Goto
  <1>3. ASSUME NEW q \in Requests, NewTextMessage(t, q)
        PROVE  pc'[u] = pc[u] /\ req'[u] = req[u] /\ row'[u] = row[u] /\ result'[u] = result[u]
    BY <1>3 DEF NewTextMessage, Goto
  <1> QED
    BY <1>1, <1>2, <1>3 DEF StepOf, Save

\* A commit of another thread is about another pair, or nothing was read yet.
LEMMA OthersWrite ==
    ASSUME StoreInv, Next, NEW t \in Threads, StepOf(t), NEW u \in Threads \ {t}
    PROVE  WritingOf(u)'
  <1> USE DEF StoreInv
  <1>1. UNCHANGED active
    BY ThreadFrame DEF ThreadStep, StepOf
  <1>2. pc'[u] = pc[u] /\ req'[u] = req[u] /\ row'[u] = row[u] /\ result'[u] = result[u]
    BY OtherThreads
  <1>3. WritingOf(u)
    BY DEF Writing
  <1>4. CASE UNCHANGED envelopes
    BY <1>1, <1>2, <1>3, <1>4 DEF WritingOf, Authorized, AuthorizedRows, Existing, NewRow,
                                  Rows, Pair
  <1>5. CASE envelopes' # envelopes
    <2>1. PICK v \in Threads, q \in Requests :
             /\ pc[v] = "finishing" /\ result[v] = "Success" /\ req[v] = {q}
             /\ envelopes' = envelopes \cup {NewRow(q)}
             /\ Commit(v) \/ CommitLost(v)
      BY <1>5, EnvelopesStep
    <2>2. u # v
      BY <1>2, <2>1 DEF Commit, CommitLost, Goto, TypeOK
    <2>3. ASSUME NEW p \in req[u], Authorized(u)
          PROVE  Existing(p)' = Existing(p) /\ Rows(Pair(p))' = Rows(Pair(p))
      <3>1. Pair(p) # Pair(q)
        BY <2>1, <2>2, <2>3 DEF PairLocks, PairLocked, Authorized
      <3>2. p \in Requests
        BY DEF TypeOK
      <3> QED
        BY <2>1, <3>1, <3>2, RowStored
    <2>4. ASSUME NEW p \in req[u], Authorized(u)
          PROVE  NewRow(p)' = NewRow(p)
      BY <2>3, <2>4 DEF NewRow, Pair
    <2> QED
      BY <1>1, <1>2, <1>3, <2>3, <2>4 DEF WritingOf, Authorized, AuthorizedRows, Pair
  <1> QED
    BY <1>4, <1>5

LEMMA WritingKept ==
    ASSUME StoreInv, Next
    PROVE  Writing'
  <1> USE DEF StoreInv
  <1>1. ASSUME NEW t \in Threads, StepOf(t)
        PROVE  WritingOf(t)'
    <2>0. UNCHANGED active
      BY <1>1, ThreadFrame DEF ThreadStep, StepOf
    <2>1. ASSUME NEW q \in Requests, NewTextMessage(t, q)
          PROVE  WritingOf(t)'
      BY <2>1 DEF NewTextMessage, Goto, WritingOf, Authorized, TypeOK
    <2>2. CASE AcquirePairLock(t)
      BY <2>2 DEF AcquirePairLock, Goto, WritingOf, Authorized, TypeOK
    <2>3. CASE LockDevices(t)
      <3>1. PICK q \in Requests : req[t] = {q}
        BY <2>3 DEF LockDevices, Serving
      <3>2. CASE AuthorizedRows(q) = Pair(q)
        BY <2>0, <2>3, <3>1, <3>2 DEF LockDevices, Goto, WritingOf, Authorized, TypeOK,
              AuthorizedRows, Pair
      <3>3. CASE AuthorizedRows(q) # Pair(q)
        BY <2>3, <3>1, <3>3 DEF LockDevices, Return, Goto, WritingOf, Authorized, TypeOK
      <3> QED
        BY <3>2, <3>3
    <2>4. CASE CheckFriendship(t)
      <3>1. PICK q \in Requests : req[t] = {q}
        BY <2>4 DEF CheckFriendship, Serving
      <3>2. AuthorizedRows(q) = Pair(q)
        BY <2>4, <3>1 DEF CheckFriendship, Writing, WritingOf, Authorized
      <3>3. req' = req /\ pc'[t] \in {"authorized", "finishing"}
        BY <2>4, <3>1 DEF CheckFriendship, Return, Goto, TypeOK
      <3>4. pc'[t] = "finishing" => result'[t] = "PermissionDenied"
        BY <2>4, <3>1 DEF CheckFriendship, Return, Goto, TypeOK
      <3> QED
        BY <2>0, <3>1, <3>2, <3>3, <3>4 DEF WritingOf, Authorized, AuthorizedRows, Pair
    <2>5. CASE Lookup(t)
      <3>1. PICK q \in Requests : req[t] = {q}
        BY <2>5 DEF Lookup, Serving
      <3>2. AuthorizedRows(q) = Pair(q)
        BY <2>5, <3>1 DEF Lookup, Writing, WritingOf, Authorized
      <3>3. /\ req' = req /\ envelopes' = envelopes /\ pc'[t] \in {"absent", "finishing"}
            /\ pc'[t] = "absent" => Existing(q) = {}
            /\ pc'[t] = "finishing" => result'[t] # "Success"
        BY <2>5, <3>1 DEF Lookup, Return, Goto, TypeOK
      <3> QED
        BY <2>0, <3>1, <3>2, <3>3 DEF WritingOf, Authorized, AuthorizedRows, Existing, Pair
    <2>6. CASE Insert(t)
      <3>1. PICK q \in Requests : req[t] = {q}
        BY <2>6 DEF Insert, Serving
      <3>2. AuthorizedRows(q) = Pair(q) /\ Existing(q) = {}
        BY <2>6, <3>1 DEF Insert, Writing, WritingOf, Authorized
      <3>3. row'[t] = {NewRow(q)}
        BY <2>6, <3>1, InsertedRow DEF TypeOK
      <3>4. req' = req /\ envelopes' = envelopes /\ pc'[t] = "finishing"
        BY <2>6 DEF Insert, Return, Goto, TypeOK
      <3>5. NewRow(q)' = NewRow(q)
        BY <3>4 DEF NewRow, Rows, Pair
      <3> QED
        BY <2>0, <3>1, <3>2, <3>3, <3>4, <3>5 DEF WritingOf, Authorized, AuthorizedRows,
              Existing, Pair
    <2>7. CASE Commit(t) \/ CommitLost(t) \/ StatementFails(t) \/ Answer(t)
      BY <2>7 DEF Commit, CommitLost, StatementFails, Answer, Goto, WritingOf, Authorized,
                  TypeOK
    <2> QED
      BY <1>1, <2>1, <2>2, <2>3, <2>4, <2>5, <2>6, <2>7 DEF StepOf, Save
  <1>2. CASE ThreadStep
    BY <1>1, <1>2, OthersWrite DEF Writing, ThreadStep, StepOf
  <1>3. ASSUME NEW d \in Devices, RevokeCommit(d), NEW t \in Threads, NEW q \in req[t],
               Authorized(t)
        PROVE  AuthorizedRows(q)' = Pair(q)
    <2>1. AuthorizedRows(q) = Pair(q)
      BY <1>3 DEF Writing, WritingOf
    <2>2. ~HoldsShare(t, d)
      BY <1>3 DEF RevokeCommit, RevokeLocks, RowShared
    <2>3. d \notin Pair(q)
      BY <1>3, <2>1, <2>2 DEF HoldsShare, Authorized
    <2> QED
      BY <1>3, <2>1, <2>3 DEF RevokeCommit, AuthorizedRows, Pair
  <1>4. CASE OtherStep
    <2>1. UNCHANGED <<envelopes, pc, req, row, result>>
      BY <1>4, OtherFrame DEF saveVars
    <2>2. UNCHANGED active \/ \E d \in Devices : RevokeCommit(d)
      BY <1>4 DEF OtherStep, Receive, RevokeDevice, LockReader, SyncPage, SavePage,
                  LosePage, Ack, ReaderFails, RevokeLock, RevokeFails, AcceptFriend
    <2>3. ASSUME NEW t \in Threads, NEW q \in req[t], Authorized(t)
          PROVE  AuthorizedRows(q)' = Pair(q)
      <3>1. CASE UNCHANGED active
        BY <2>3, <3>1 DEF Writing, WritingOf, AuthorizedRows, Pair
      <3> QED
        BY <2>2, <2>3, <3>1, <1>3
    <2> QED
      BY <2>1, <2>3 DEF Writing, WritingOf, Authorized, Existing, NewRow, Rows, Pair
  <1> QED
    BY <1>2, <1>4, NextSteps

LEMMA ToldKept ==
    ASSUME StoreInv, Next
    PROVE  Told'
  <1> USE DEF StoreInv
  <1>0. envelopes \subseteq envelopes'
    BY EnvelopesStep
  <1>1. ASSUME NEW t \in Threads, NEW u \in Threads \ {t}, StepOf(t)
        PROVE  ToldOf(u)'
    <2>1. pc'[u] = pc[u] /\ req'[u] = req[u] /\ row'[u] = row[u] /\ result'[u] = result[u]
      BY <1>1, OtherThreads
    <2> QED
      BY <1>0, <2>1 DEF Told, ToldOf, Existing
  <1>2. ASSUME NEW t \in Threads, StepOf(t)
        PROVE  ToldOf(t)'
    <2>1. ASSUME NEW q \in Requests, NewTextMessage(t, q)
          PROVE  ToldOf(t)'
      <3>1. pc'[t] \in {"begun", "answered"} /\ result'[t] \in {"none", "InvalidRequest"}
        BY <2>1 DEF NewTextMessage, Goto, Serving, TypeOK
      <3> QED
        BY <3>1 DEF ToldOf
    <2>2. CASE AcquirePairLock(t) \/ LockDevices(t) \/ CheckFriendship(t)
      <3>1. pc'[t] \notin {"finishing", "answered"} \/ result'[t] = "PermissionDenied"
        <4>1. PICK q : req[t] = {q}
          BY <2>2 DEF AcquirePairLock, LockDevices, CheckFriendship, Serving
        <4> QED
          BY <2>2, <4>1 DEF AcquirePairLock, LockDevices, CheckFriendship, Return, Goto, TypeOK
      <3> QED
        BY <3>1 DEF ToldOf
    <2>3. CASE Lookup(t)
      <3>1. PICK q : req[t] = {q}
        BY <2>3 DEF Lookup, Serving
      <3>2. /\ req' = req /\ envelopes' = envelopes
            /\ pc'[t] # "answered"
            /\ result'[t] = "Duplicate" => \E e \in Existing(q) : e.packet = q.packet
        BY <2>3, <3>1 DEF Lookup, Return, Goto, Serving, TypeOK
      <3> QED
        BY <3>1, <3>2 DEF ToldOf, Existing
    <2>4. CASE Insert(t)
      BY <2>4 DEF Insert, Return, Goto, ToldOf, TypeOK
    <2>5. CASE Commit(t)
      <3>1. PICK q \in Requests : req[t] = {q}
        BY <2>5 DEF Commit, Serving
      <3>2. /\ req' = req /\ row' = row /\ result' = result /\ pc[t] = "finishing"
            /\ envelopes' = envelopes \cup row[t]
        BY <2>5 DEF Commit
      <3>3. ASSUME result[t] = "Success"
            PROVE  \E e \in Existing(q)' : e.packet = q.packet /\ row[t] = {e}
        <4>1. row[t] = {NewRow(q)}
          BY <3>1, <3>2, <3>3 DEF Writing, WritingOf
        <4> QED
          BY <3>2, <4>1 DEF NewRow, Existing
      <3>4. ASSUME result[t] = "Duplicate"
            PROVE  \E e \in Existing(q)' : e.packet = q.packet
        BY <1>0, <3>1, <3>2, <3>4 DEF Told, ToldOf, Existing
      <3> QED
        BY <3>1, <3>2, <3>3, <3>4 DEF ToldOf
    <2>6. CASE CommitLost(t) \/ StatementFails(t)
      <3>1. result'[t] \notin {"Success", "Duplicate"}
        BY <2>6 DEF CommitLost, StatementFails, TypeOK
      <3> QED
        BY <3>1 DEF ToldOf
    <2>7. CASE Answer(t)
      BY <2>7 DEF Answer, ToldOf, TypeOK
    <2> QED
      BY <1>2, <2>1, <2>2, <2>3, <2>4, <2>5, <2>6, <2>7 DEF StepOf, Save
  <1>3. CASE ThreadStep
    BY <1>1, <1>2, <1>3 DEF Told, ThreadStep, StepOf
  <1>4. CASE OtherStep
    BY <1>4, OtherFrame DEF saveVars, Told, ToldOf, Existing
  <1> QED
    BY <1>3, <1>4, NextSteps

\* A row is locked FOR SHARE only while nobody has it FOR UPDATE.
LEMMA ShareTaken ==
    ASSUME StoreInv, Next, NEW t \in Threads, NEW d \in Devices, HoldsShare(t, d)'
    PROVE  HoldsShare(t, d) \/ revoker[d] = "none"
  <1> USE DEF StoreInv
  <1>1. ASSUME NEW u \in Threads, StepOf(u)
        PROVE  HoldsShare(t, d) \/ revoker[d] = "none"
    <2>0. UNCHANGED active
      BY <1>1, ThreadFrame DEF ThreadStep, StepOf
    <2>1. CASE u # t
      BY <1>1, <2>0, <2>1, OtherThreads DEF HoldsShare, AuthorizedRows, Pair
    <2>2. CASE u = t /\ LockDevices(t)
      BY <2>0, <2>2 DEF LockDevices, HoldsShare, AuthorizedRows, Pair
    <2>3. CASE u = t /\ (AcquirePairLock(t) \/ CheckFriendship(t) \/ Lookup(t))
      <3>1. UNCHANGED req
        BY <2>3, StatementStep
      <3>2. pc[t] \in {"devices", "authorized"} \/ pc'[t] = "locked"
        BY <2>3 DEF AcquirePairLock, CheckFriendship, Lookup, Goto, TypeOK
      <3> QED
        BY <2>0, <3>1, <3>2 DEF HoldsShare, AuthorizedRows, Pair
    <2>4. CASE u = t /\ (Insert(t) \/ Commit(t) \/ CommitLost(t) \/ StatementFails(t)
                           \/ Answer(t))
      BY <2>0, <2>4 DEF Insert, Commit, CommitLost, StatementFails, Answer, Return, Goto,
            HoldsShare, AuthorizedRows, Pair, TypeOK
    <2>5. ASSUME NEW q \in Requests, NewTextMessage(t, q)
          PROVE  HoldsShare(t, d)
      BY <2>5 DEF NewTextMessage, Goto, HoldsShare, TypeOK
    <2> QED
      BY <1>1, <2>1, <2>2, <2>3, <2>4, <2>5 DEF StepOf, Save
  <1>2. CASE OtherStep
    <2>1. UNCHANGED <<pc, req>>
      BY <1>2, OtherFrame DEF saveVars
    <2>2. active' \subseteq active
      BY <1>2 DEF OtherStep, Receive, RevokeDevice, LockReader, SyncPage, SavePage,
                  LosePage, Ack, ReaderFails, RevokeLock, RevokeCommit, RevokeFails,
                  AcceptFriend
    <2> QED
      BY <2>1, <2>2 DEF HoldsShare, AuthorizedRows, Pair
  <1> QED
    BY <1>1, <1>2, NextSteps DEF ThreadStep, StepOf

LEMMA RevokeLocksKept ==
    ASSUME StoreInv, Next
    PROVE  RevokeLocks'
  <1> USE DEF StoreInv
  <1>1. CASE ThreadStep
    BY <1>1, ThreadFrame, ShareTaken DEF RevokeLocks, RowShared
  <1>2. ASSUME NEW r \in Readers, Receive(r)
        PROVE  RevokeLocks'
    <2>1. UNCHANGED <<active, revoker>>
      BY <1>2 DEF Receive, LockReader, SyncPage, SavePage, LosePage, Ack, ReaderFails
    <2>2. \A d \in Devices : reader'[d] # "idle" =>
             reader[d] # "idle" \/ (d \in active /\ revoker[d] = "none")
      BY <1>2 DEF Receive, LockReader, SyncPage, SavePage, LosePage, Ack, ReaderFails, TypeOK
    <2> QED
      BY <2>1, <2>2, ShareTaken DEF RevokeLocks, RowShared
  <1>3. ASSUME NEW c \in Devices, RevokeDevice(c)
        PROVE  RevokeLocks'
    <2>1. UNCHANGED <<pc, req, reader>>
      BY <1>3 DEF RevokeDevice, RevokeLock, RevokeCommit, RevokeFails, saveVars
    <2>2. CASE RevokeLock(c)
      BY <2>1, <2>2, ShareTaken DEF RevokeLock, RowLockFree, RevokeLocks, RowShared, TypeOK,
                                    HoldsShare, AuthorizedRows, Pair
    <2>3. CASE RevokeCommit(c)
      BY <2>1, <2>3, ShareTaken DEF RevokeCommit, RevokeLocks, RowShared, TypeOK
    <2>4. CASE RevokeFails(c)
      BY <2>1, <2>4, ShareTaken DEF RevokeFails, RevokeLocks, RowShared, TypeOK
    <2> QED
      BY <1>3, <2>2, <2>3, <2>4 DEF RevokeDevice
  <1>4. ASSUME NEW u, NEW v, AcceptFriend(u, v)
        PROVE  RevokeLocks'
    BY <1>4, ShareTaken DEF AcceptFriend, RevokeLocks, RowShared
  <1> QED
    BY <1>1, <1>2, <1>3, <1>4, NextSteps DEF OtherStep

-----------------------------------------------------------------------------
(* The receiving devices *)

\* A device gains only envelopes that are stored and addressed to it.
LEMMA SavedGrows ==
    ASSUME StoreInv, Next, NEW d \in Devices
    PROVE  /\ saved[d] \subseteq saved'[d]
           /\ saved'[d] \subseteq {e \in envelopes : e.to = d}
  <1> USE DEF StoreInv
  <1>1. saved[d] \subseteq {e \in envelopes : e.to = d}
    BY DEF Inbox
  <1>2. CASE UNCHANGED saved
    BY <1>1, <1>2
  <1>3. ASSUME NEW t \in Threads, Answer(t), saved' # saved
        PROVE  /\ saved[d] \subseteq saved'[d]
               /\ saved'[d] \subseteq {e \in envelopes : e.to = d}
    <2>1. PICK q \in Requests : req[t] = {q}
      BY <1>3 DEF Answer, Serving
    <2>2. row[t] \subseteq envelopes
      BY <1>3, <2>1 DEF Answer, Told, ToldOf, Existing
    <2> QED
      BY <1>1, <1>3, <2>2 DEF Answer
  <1>4. ASSUME NEW r \in Readers, SavePage(r)
        PROVE  /\ saved[d] \subseteq saved'[d]
               /\ saved'[d] \subseteq {e \in envelopes : e.to = d}
    BY <1>1, <1>4 DEF SavePage, Inbox, TypeOK
  <1>5. CASE ThreadStep /\ ~\E t \in Threads : Answer(t)
    BY <1>2, <1>5 DEF ThreadStep, Save, NewTextMessage, AcquirePairLock, LockDevices,
         CheckFriendship, Lookup, Insert, Commit, CommitLost, StatementFails, clientVars
  <1>6. CASE OtherStep /\ ~\E r \in Readers : SavePage(r)
    BY <1>2, <1>6 DEF OtherStep, Receive, RevokeDevice, LockReader, SyncPage, LosePage, Ack,
         ReaderFails, RevokeLock, RevokeCommit, RevokeFails, AcceptFriend, clientVars
  <1> QED
    BY <1>2, <1>3, <1>4, <1>5, <1>6, NextSteps

LEMMA InboxKept ==
    ASSUME StoreInv, Next
    PROVE  Inbox'
  <1> USE DEF StoreInv
  <1>1. envelopes \subseteq envelopes'
    BY EnvelopesStep
  <1>2. \A e \in envelopes' : e.from # e.to
    <2>1. ASSUME NEW t \in Threads, NEW q \in Requests, pc[t] = "finishing", req[t] = {q}
          PROVE  NewRow(q).from # NewRow(q).to
      BY <2>1 DEF Serving, Working, NewRow
    <2> QED
      BY <2>1, EnvelopesStep DEF Inbox
  <1>3. ASSUME NEW d \in Devices
        PROVE  page'[d] \subseteq {e \in envelopes : e.to = d}
    <2>1. page[d] \subseteq {e \in envelopes : e.to = d}
      BY DEF Inbox
    <2>2. CASE UNCHANGED page
      BY <2>1, <2>2
    <2>3. ASSUME NEW r \in Readers, SyncPage(r) \/ SavePage(r) \/ LosePage(r)
          PROVE  page'[d] \subseteq {e \in envelopes : e.to = d}
      BY <2>1, <2>3 DEF SyncPage, SavePage, LosePage, Pages, Matching, TypeOK
    <2>4. CASE OtherStep /\ ~\E r \in Readers : SyncPage(r) \/ SavePage(r) \/ LosePage(r)
      BY <2>2, <2>4 DEF OtherStep, Receive, RevokeDevice, LockReader, Ack, ReaderFails,
           RevokeLock, RevokeCommit, RevokeFails, AcceptFriend, clientVars
    <2> QED
      BY <2>2, <2>3, <2>4, NextSteps, ThreadFrame
  <1> QED
    BY <1>1, <1>2, <1>3, SavedGrows DEF Inbox

-----------------------------------------------------------------------------
(* Pages and cursors *)

\* The steps that touch pages and cursors.
LEMMA PageSteps ==
    ASSUME Next
    PROVE  \/ UNCHANGED <<page, cursor>>
           \/ \E d \in Devices : SyncPage(d) \/ SavePage(d) \/ LosePage(d)
  <1>1. CASE ThreadStep
    BY <1>1, ThreadFrame
  <1>2. CASE OtherStep
    BY <1>2, ReaderAssumption DEF OtherStep, Receive, RevokeDevice, LockReader, Ack,
       ReaderFails, RevokeLock, RevokeCommit, RevokeFails, AcceptFriend, clientVars
  <1> QED
    BY <1>1, <1>2, NextSteps

\* The rows a page leaves out come after it, so they are newer than the page's rows of
\* the same sender.
LEMMA PageIsPrefix ==
    ASSUME StoreInv, NEW d \in Devices, NEW P \in Pages(d),
           NEW f \in P, NEW e \in envelopes,
           e.to = d, e.from = f.from, e \notin P, e \notin saved[d]
    PROVE  e.seq > f.seq
  <1>1. e \in Matching(d) \ P
    BY DEF StoreInv, CursorNeverSkips, Matching
  <1>2. Before(f, e)
    BY <1>1 DEF Pages
  <1>3. e \in Envelope /\ f \in Envelope
    BY DEF StoreInv, TypeOK, Pages, Matching
  <1>4. /\ e.from \in Devices /\ f.from \in Devices
        /\ e.seq \in 1 .. MaxRequests /\ f.seq \in 1 .. MaxRequests
    BY <1>3 DEF Envelope, Seqs
  <1>5. e.from \in Nat /\ f.from \in Nat /\ e.seq \in Nat /\ f.seq \in Nat
    <2>1. e.from \in Nat /\ f.from \in Nat
      BY <1>4, DeviceAssumption
    <2>2. MaxRequests \in Nat
      BY BoundAssumption
    <2> QED
      BY <1>4, <2>1, <2>2
  <1> QED
    BY <1>2, <1>5 DEF Before

\* The cursor after a page is the greater of the old one and the page's last row.
LEMMA CursorMoved ==
    ASSUME StoreInv, NEW d \in Devices, SavePage(d), NEW s \in Devices
    PROVE  /\ cursor'[d][s] \in Nat /\ cursor[d][s] \in Nat
           /\ \/ cursor'[d][s] = cursor[d][s]
              \/ \E f \in page[d] : f.from = s /\ f.seq = cursor'[d][s]
           /\ cursor'[d][s] >= cursor[d][s]
  <1> DEFINE S == {cursor[d][s]} \cup {e.seq : e \in {x \in page[d] : x.from = s}}
  <1>1. cursor'[d][s] = Max(S)
    BY DEF SavePage, StoreInv, TypeOK
  <1>2. cursor[d][s] \in 0 .. MaxRequests
    BY DEF StoreInv, TypeOK
  <1>3. \A e \in page[d] : e.seq \in 1 .. MaxRequests
    BY DEF StoreInv, TypeOK, Envelope, Seqs
  <1>4. MaxRequests \in Nat
    BY BoundAssumption
  <1>5. S \in SUBSET (0 .. MaxRequests)
    BY <1>2, <1>3, <1>4
  <1>6. Max(S) \in S /\ \A x \in S : Max(S) >= x
    <2>1. S # {}
      OBVIOUS
    <2> HIDE DEF S
    <2> QED
      BY <1>4, <1>5, <2>1, MaxIsGreatest
  <1>7. cursor'[d][s] \in Nat /\ cursor[d][s] \in Nat
    BY <1>1, <1>2, <1>4, <1>5, <1>6
  <1>8. Max(S) >= cursor[d][s]
    BY <1>6
  <1>9. Max(S) = cursor[d][s] \/ \E f \in page[d] : f.from = s /\ f.seq = Max(S)
    BY <1>6
  <1> QED
    BY <1>1, <1>7, <1>8, <1>9

LEMMA CursorKept ==
    ASSUME StoreInv, Next
    PROVE  CursorNeverSkips'
  <1> USE DEF StoreInv
  <1>0. SUFFICES ASSUME NEW d \in Devices, NEW e \in envelopes',
                        e.to = d, e \notin saved'[d]
                 PROVE  e.seq > cursor'[d][e.from]
    BY DEF CursorNeverSkips
  <1>1. e \notin saved[d]
    BY <1>0, SavedGrows
  <1>2. CASE e \in envelopes
    <2>0. /\ e \in Envelope /\ e.from \in Devices
          /\ e.seq > cursor[d][e.from]
      BY <1>0, <1>1, <1>2 DEF CursorNeverSkips, TypeOK, Envelope
    <2>1. CASE cursor'[d] = cursor[d]
      BY <2>0, <2>1
    <2>2. ASSUME NEW c \in Devices, SavePage(c), cursor'[d] # cursor[d]
          PROVE  e.seq > cursor'[d][e.from]
      <3>1. c = d
        BY <2>2 DEF SavePage, TypeOK
      <3>2. e \notin page[d]
        BY <1>0, <2>2, <3>1 DEF SavePage, TypeOK
      <3>3. \A f \in page[d] : f.from = e.from => e.seq > f.seq
        BY <1>0, <1>1, <1>2, <3>2 DEF Paging
      <3> QED
        BY <2>0, <2>2, <3>1, <3>3, CursorMoved
    <2>3. ASSUME NEW c \in Devices, SyncPage(c) \/ LosePage(c)
          PROVE  cursor'[d] = cursor[d]
      BY <2>3 DEF SyncPage, LosePage
    <2> QED
      BY <2>1, <2>2, <2>3, PageSteps
  <1>3. CASE e \notin envelopes
    <2>1. PICK t \in Threads, q \in Requests :
             /\ pc[t] = "finishing" /\ result[t] = "Success" /\ req[t] = {q}
             /\ envelopes' = envelopes \cup {NewRow(q)}
             /\ Commit(t) \/ CommitLost(t)
      BY <1>3, EnvelopesStep
    <2>2. cursor' = cursor /\ e = NewRow(q)
      BY <2>1, <1>3 DEF Commit, CommitLost, clientVars
    <2>3. /\ NewRow(q) \in Envelope
          /\ \A f \in envelopes : Pair(f) = Pair(q) => f.seq < NewRow(q).seq
      BY <2>1, RowStored
    <2>4. e.from \in Devices /\ e.seq \in Nat /\ e.seq > 0
      BY <2>2, <2>3, BoundAssumption DEF Envelope, Seqs
    <2>5. CASE cursor[d][e.from] = 0
      BY <2>2, <2>4, <2>5
    <2>6. CASE cursor[d][e.from] # 0
      <3>1. PICK f \in saved[d] : f.from = e.from /\ f.seq = cursor[d][e.from]
        BY <2>4, <2>6 DEF Paging
      <3>2. f \in envelopes /\ f.to = d /\ f.seq \in Nat
        BY <3>1, BoundAssumption DEF Inbox, TypeOK, Envelope, Seqs
      <3>3. Pair(f) = Pair(q)
        BY <1>0, <2>2, <3>1, <3>2 DEF Pair, NewRow
      <3> QED
        BY <2>2, <2>3, <2>4, <3>1, <3>2, <3>3
    <2> QED
      BY <2>5, <2>6
  <1> QED
    BY <1>2, <1>3

LEMMA PagingKept ==
    ASSUME StoreInv, Next
    PROVE  Paging'
  <1> USE DEF StoreInv
  <1>1. ASSUME NEW d \in Devices, NEW s \in Devices, cursor'[d][s] # 0
        PROVE  \E e \in saved'[d] : e.from = s /\ e.seq = cursor'[d][s]
    <2>1. CASE cursor'[d] = cursor[d]
      BY <1>1, <2>1, SavedGrows DEF Paging
    <2>2. ASSUME NEW c \in Devices, SavePage(c), cursor'[d] # cursor[d]
          PROVE  \E e \in saved'[d] : e.from = s /\ e.seq = cursor'[d][s]
      <3>1. c = d
        BY <2>2 DEF SavePage, TypeOK
      <3>2. saved'[d] = saved[d] \cup page[d]
        BY <2>2, <3>1 DEF SavePage, TypeOK
      <3> QED
        BY <1>1, <2>2, <3>1, <3>2, CursorMoved DEF Paging
    <2>3. ASSUME NEW c \in Devices, SyncPage(c) \/ LosePage(c)
          PROVE  cursor'[d] = cursor[d]
      BY <2>3 DEF SyncPage, LosePage
    <2> QED
      BY <2>1, <2>2, <2>3, PageSteps
  <1>2. ASSUME NEW d \in Devices, NEW f \in page'[d], NEW e \in envelopes',
               e.to = d, e.from = f.from, e \notin page'[d] \cup saved'[d]
        PROVE  e.seq > f.seq
    <2>1. e \notin saved[d]
      BY <1>2, SavedGrows
    <2>2. CASE e \in envelopes /\ page'[d] = page[d]
      BY <1>2, <2>1, <2>2 DEF Paging
    <2>3. ASSUME NEW c \in Devices, SyncPage(c), page'[d] # page[d], e \in envelopes
          PROVE  e.seq > f.seq
      <3>1. c = d /\ page'[d] \in Pages(d)
        BY <2>3 DEF SyncPage, TypeOK
      <3> QED
        BY <1>2, <2>1, <2>3, <3>1, PageIsPrefix
    <2>4. ASSUME NEW c \in Devices, SavePage(c) \/ LosePage(c)
          PROVE  page'[d] = page[d]
      BY <1>2, <2>4 DEF SavePage, LosePage, TypeOK
    <2>5. CASE e \notin envelopes
      <3>1. PICK t \in Threads, q \in Requests :
               /\ pc[t] = "finishing" /\ result[t] = "Success" /\ req[t] = {q}
               /\ envelopes' = envelopes \cup {NewRow(q)}
               /\ Commit(t) \/ CommitLost(t)
        BY <2>5, EnvelopesStep
      <3>2. page' = page /\ e = NewRow(q)
        BY <3>1, <2>5 DEF Commit, CommitLost, clientVars
      <3>3. /\ NewRow(q) \in Envelope
            /\ \A g \in envelopes : Pair(g) = Pair(q) => g.seq < NewRow(q).seq
        BY <3>1, RowStored
      <3>4. f \in envelopes /\ f.to = d
        BY <1>2, <3>2 DEF Inbox
      <3>5. e.seq \in Nat /\ f.seq \in Nat
        BY <3>2, <3>3, <3>4, BoundAssumption DEF TypeOK, Envelope, Seqs
      <3>6. Pair(f) = Pair(q)
        BY <1>2, <3>2, <3>4 DEF Pair, NewRow
      <3> QED
        BY <3>2, <3>3, <3>4, <3>5, <3>6
    <2> QED
      BY <2>2, <2>3, <2>4, <2>5, PageSteps
  <1> QED
    BY <1>1, <1>2 DEF Paging

LEMMA ReceivedKept ==
    ASSUME StoreInv, Next
    PROVE  ReceivedMeansSaved'
  <1> USE DEF StoreInv
  <1>1. ASSUME NEW e \in received
        PROVE  e \in saved'[e.to]
    <2>1. e \in saved[e.to] /\ e.to \in Devices
      BY DEF ReceivedMeansSaved, TypeOK, Envelope
    <2> QED
      BY <2>1, SavedGrows
  <1>2. CASE UNCHANGED received
    BY <1>1, <1>2 DEF ReceivedMeansSaved
  <1>3. ASSUME NEW d \in Devices, Ack(d)
        PROVE  ReceivedMeansSaved'
    <2>1. PICK ids \in SUBSET (saved[d] \cup {e \in envelopes : e.from = d}) :
             received' = received \cup Acknowledged(d, ids)
      BY <1>3 DEF Ack
    <2>2. ASSUME NEW e \in Acknowledged(d, ids)
          PROVE  e \in saved'[e.to]
      <3>1. e.to = d /\ e \in saved[d]
        BY DEF Acknowledged, Inbox
      <3> QED
        BY <3>1, SavedGrows
    <2> QED
      BY <1>1, <2>1, <2>2 DEF ReceivedMeansSaved
  <1>4. CASE OtherStep
    BY <1>2, <1>3, <1>4, ReaderAssumption DEF OtherStep, Receive, RevokeDevice,
       LockReader, SyncPage, SavePage, LosePage, ReaderFails, RevokeLock, RevokeCommit,
       RevokeFails, AcceptFriend
  <1> QED
    BY <1>2, <1>4, ThreadFrame, NextSteps

-----------------------------------------------------------------------------
(* The invariant *)

LEMMA StoreInit == Init => StoreInv
  <1> SUFFICES ASSUME Init PROVE StoreInv
    OBVIOUS
  <1> USE DEF Init
  <1>1. TypeOK
    BY BoundAssumption DEF TypeOK, Answers
  <1>2. Counted
    <2>1. Working = {}
      BY DEF Working
    <2>2. IsFiniteSet({}) /\ Cardinality({}) = 0
      BY FS_EmptySet
    <2> QED
      BY <2>1, <2>2 DEF Counted
  <1>3. Serving /\ PairLocks
    BY DEF Serving, Working, PairLocks, PairLocked
  <1>4. Distinct /\ Writing /\ Told
    BY DEF Distinct, Writing, WritingOf, Told, ToldOf
  <1>5. SequenceDense
    <2>1. \A p : Rows(p) = {}
      BY DEF Rows
    <2>2. Cardinality({}) = 0
      BY FS_EmptySet
    <2>3. 1 .. 0 = {} /\ {x.seq : x \in {}} = {}
      OBVIOUS
    <2> QED
      BY <2>1, <2>2, <2>3, Zenon DEF SequenceDense
  <1>6. RevokeLocks /\ Inbox
    BY DEF RevokeLocks, RowShared, HoldsShare, Inbox
  <1>7. Paging /\ CursorNeverSkips /\ ReceivedMeansSaved
    BY DEF Paging, CursorNeverSkips, ReceivedMeansSaved
  <1> QED
    BY <1>1, <1>2, <1>3, <1>4, <1>5, <1>6, <1>7 DEF StoreInv

LEMMA StoreStep ==
    ASSUME StoreInv, [Next]_vars
    PROVE  StoreInv'
  <1>1. CASE Next
    <2>1. TypeOK'
      BY <1>1, NextSteps, ThreadTypes, OtherTypes
    <2> QED
      BY <1>1, <2>1, ServingKept, PairLocksKept, CountedKept, RowsKept, WritingKept,
         ToldKept, RevokeLocksKept, InboxKept, PagingKept, CursorKept, ReceivedKept
         DEF StoreInv
  <1>2. CASE UNCHANGED vars
    <2> USE <1>2 DEF vars, saveVars, clientVars
    <2>1. TypeOK' /\ Distinct' /\ Inbox'
      BY DEF StoreInv, TypeOK, Distinct, Inbox, Pair
    <2>2. Counted' /\ Serving' /\ PairLocks'
      BY DEF StoreInv, Counted, Serving, Working, PairLocks, PairLocked, Pair
    <2>3. SequenceDense'
      BY DEF StoreInv, SequenceDense, Rows, Pair
    <2>4. Writing'
      <3>1. \A q \in Requests : /\ AuthorizedRows(q)' = AuthorizedRows(q)
                                /\ Existing(q)' = Existing(q)
                                /\ NewRow(q)' = NewRow(q)
        BY DEF AuthorizedRows, Existing, NewRow, Rows, Pair
      <3> QED
        BY <3>1 DEF StoreInv, TypeOK, Writing, WritingOf, Authorized, Pair
    <2>6. Told'
      BY DEF StoreInv, Told, ToldOf, Existing
    <2>7. Paging' /\ CursorNeverSkips' /\ ReceivedMeansSaved'
      BY DEF StoreInv, Paging, CursorNeverSkips, ReceivedMeansSaved
    <2>5. RevokeLocks'
      BY DEF StoreInv, RevokeLocks, RowShared, HoldsShare, AuthorizedRows, Pair
    <2> QED
      BY <2>1, <2>2, <2>3, <2>4, <2>5, <2>6, <2>7 DEF StoreInv
  <1> QED
    BY <1>1, <1>2

LEMMA StoreAlways == Spec => []StoreInv
  BY StoreInit, StoreStep, PTL DEF Spec

-----------------------------------------------------------------------------
(* The theorems *)

\* No transaction stores a malformed row, and a thread never leaves the states of
\* newTextMessage and its attempts.
THEOREM TypeTheorem == Spec => []TypeOK
  <1>1. StoreInv => TypeOK
    BY DEF StoreInv
  <1> QED
    BY <1>1, StoreAlways, PTL

\* saveNewMessage never numbers the rows of a pair of devices otherwise than 1 .. n,
\* however its transactions interleave, fail, are tried again or lose their connection
\* during COMMIT.
THEOREM SequenceTheorem == Spec => []SequenceDense
  <1>1. StoreInv => SequenceDense
    BY DEF StoreInv
  <1> QED
    BY <1>1, StoreAlways, PTL

\* newTextMessage tells Success or Duplicate only to a client whose packet is stored,
\* under the one row for its sender, recipient and id.
THEOREM AnswerTheorem == Spec => []AnswerNamesStoredRow
  <1>1. ASSUME StoreInv
        PROVE  AnswerNamesStoredRow
    <2> SUFFICES ASSUME NEW t \in Threads, pc[t] = "answered",
                        result[t] \in {"Success", "Duplicate"}, NEW q \in req[t]
                 PROVE  \E e \in envelopes :
                          /\ e.packet = q.packet
                          /\ {x \in envelopes : Log!SameKey(x, q)} = {e}
      BY DEF AnswerNamesStoredRow
    <2>1. PICK e \in Existing(q) : e.packet = q.packet
      BY <1>1 DEF StoreInv, Told, ToldOf
    <2>2. e \in envelopes /\ Log!SameKey(e, q)
      BY <2>1 DEF Existing, Log!SameKey
    <2>3. \A x \in envelopes : Log!SameKey(x, q) => x = e
      BY <1>1, <2>2 DEF StoreInv, Distinct, Log!SameKey
    <2> QED
      BY <2>1, <2>2, <2>3
  <1> QED
    BY <1>1, StoreAlways, PTL

\* A device that pages through syncEnvelopeRecord never has its cursor past an envelope
\* it has not stored, although envelopes commit while it pages, pages are cut and
\* responses are lost.
THEOREM CursorTheorem == Spec => []CursorNeverSkips
  <1>1. StoreInv => CursorNeverSkips
    BY DEF StoreInv
  <1> QED
    BY <1>1, StoreAlways, PTL

\* ackEnvelopes marks an envelope as received only when its recipient has stored it,
\* whichever ids the device names, those of envelopes it sent included.
THEOREM ReceiptTheorem == Spec => []ReceivedMeansSaved
  <1>1. StoreInv => ReceivedMeansSaved
    BY DEF StoreInv
  <1> QED
    BY <1>1, StoreAlways, PTL

\* Once revokeUserDevice has committed, no transaction that was in progress stores an
\* envelope from or to the device or reads a page for it.
THEOREM RevocationTheorem == Spec => NothingAfterRevocation
  <1> DEFINE A == /\ \A e \in envelopes' \ envelopes : Pair(e) \subseteq active
                  /\ \A d \in Devices : page'[d] \ page[d] # {} => d \in active
  <1>1. ASSUME StoreInv, [Next]_vars
        PROVE  [A]_vars
    <2>1. CASE UNCHANGED vars
      BY <2>1
    <2>2. CASE Next
      <3>1. ASSUME NEW e \in envelopes' \ envelopes
            PROVE  Pair(e) \subseteq active
        <4>1. PICK t \in Threads, q \in Requests :
                 /\ pc[t] = "finishing" /\ result[t] = "Success" /\ req[t] = {q}
                 /\ envelopes' = envelopes \cup {NewRow(q)}
          BY <1>1, <2>2, <3>1, EnvelopesStep DEF StoreInv
        <4>2. e = NewRow(q) /\ AuthorizedRows(q) = Pair(q)
          BY <1>1, <3>1, <4>1 DEF StoreInv, Writing, WritingOf, Authorized
        <4> QED
          BY <4>2 DEF AuthorizedRows, NewRow, Pair
      <3>2. ASSUME NEW d \in Devices, page'[d] \ page[d] # {}
            PROVE  d \in active
        <4>1. PICK c \in Devices : SyncPage(c) \/ SavePage(c) \/ LosePage(c)
          BY <2>2, <3>2, PageSteps
        <4>2. SyncPage(c) /\ c = d
          BY <1>1, <3>2, <4>1 DEF SyncPage, SavePage, LosePage, StoreInv, TypeOK
        <4> QED
          BY <1>1, <4>2 DEF SyncPage, StoreInv, RevokeLocks
      <3> QED
        BY <3>1, <3>2
    <2> QED
      BY <1>1, <2>1, <2>2
  <1> QED
    BY <1>1, StoreAlways, PTL DEF Spec, NothingAfterRevocation

-----------------------------------------------------------------------------
(* The store implements PairLog *)

DevicePairs == {{d, e} : d, e \in Devices}

\* A row is the one its position in the log chooses.
LEMMA ChosenRow ==
    ASSUME Distinct, NEW p, NEW x \in Rows(p)
    PROVE  RowAt(p, x.seq) = x
  <1>1. \A y \in Rows(p) : y.seq = x.seq => y = x
    BY DEF Distinct, Rows
  <1> QED
    BY <1>1 DEF RowAt

\* Every position of the log holds a row of the pair.
LEMMA LogRows ==
    ASSUME SequenceDense, NEW p \in DevicePairs, NEW i \in 1 .. Cardinality(Rows(p))
    PROVE  RowAt(p, i) \in Rows(p) /\ RowAt(p, i).seq = i
  <1>1. {x.seq : x \in Rows(p)} = 1 .. Cardinality(Rows(p))
    BY DEF SequenceDense, DevicePairs
  <1>2. \E x \in Rows(p) : x.seq = i
    BY <1>1
  <1> QED
    BY <1>2 DEF RowAt

LEMMA LogUnchanged ==
    ASSUME UNCHANGED envelopes PROVE UNCHANGED PairLogs
  BY DEF PairLogs, LogOf, Message, RowAt, Rows, Pair

LEMMA AppendIsExtension ==
    ASSUME NEW S, NEW n \in Nat, NEW F \in [1 .. n -> S], NEW G \in [1 .. n + 1 -> S],
           \A i \in 1 .. n : G[i] = F[i]
    PROVE  G = Append(F, G[n + 1])
  <1>1. F \in Seq(S) /\ Len(F) = n
    OBVIOUS
  <1> QED
    BY <1>1

\* A commit appends the message to the log of its pair, which does not hold its key.
LEMMA LogAppends ==
    ASSUME StoreInv, StoreInv', NEW t \in Threads, NEW q \in Requests,
           pc[t] = "finishing", result[t] = "Success", req[t] = {q},
           envelopes' = envelopes \cup {NewRow(q)}
    PROVE  /\ Pair(q) \in DevicePairs
           /\ Pair(q) \subseteq active
           /\ \A i \in DOMAIN PairLogs[Pair(q)] :
                 ~Log!SameKey(PairLogs[Pair(q)][i], Message(q))
           /\ PairLogs' = [PairLogs EXCEPT ![Pair(q)] = Append(@, Message(q))]
  <1> DEFINE p == Pair(q)
             M == [from : Devices, to : Devices, id : Ids, packet : Packets]
  <1>1. p \in DevicePairs
    BY RequestAssumption DEF Pair, DevicePairs
  <1>2. PICK n \in Nat : n = Cardinality(Rows(p))
    BY RowsFinite DEF StoreInv, Counted
  <1>3. AuthorizedRows(q) = p /\ Existing(q) = {}
    BY DEF StoreInv, Writing, WritingOf, Authorized
  <1>4. p \subseteq active
    BY <1>3 DEF AuthorizedRows
  <1>5. \A i \in 1 .. n : RowAt(p, i) \in Rows(p) /\ RowAt(p, i).seq = i
    BY <1>1, <1>2, LogRows DEF StoreInv
  <1>6. \A i \in DOMAIN PairLogs[p] : ~Log!SameKey(PairLogs[p][i], Message(q))
    BY <1>1, <1>2, <1>3, <1>5
       DEF PairLogs, DevicePairs, LogOf, Message, Log!SameKey, Existing, Rows
  <1>7. NewRow(q) \in Envelope /\ NewRow(q) \notin envelopes
    BY RowStored
  <1>8. /\ Rows(p)' = Rows(p) \cup {NewRow(q)}
        /\ \A r \in DevicePairs \ {p} : Rows(r)' = Rows(r)
    BY DEF Rows, Pair, NewRow
  <1>9. Cardinality(Rows(p)') = n + 1
    <2>1. NewRow(q) \notin Rows(p) /\ IsFiniteSet(Rows(p))
      BY <1>7, RowsFinite DEF Rows, StoreInv, Counted
    <2> QED
      BY <1>2, <1>8, <2>1, FS_AddElement
  <1>10. ASSUME NEW r \in DevicePairs \ {p}
         PROVE  LogOf(r)' = LogOf(r)
    <2>1. Rows(r)' = Rows(r)
      BY <1>8
    <2>2. ASSUME NEW i
          PROVE  RowAt(r, i)' = RowAt(r, i)
      BY <2>1 DEF RowAt
    <2>3. LogOf(r)' = [i \in 1 .. Cardinality(Rows(r)') |-> Message(RowAt(r, i)')]
      BY DEF LogOf, Message
    <2>4. LogOf(r)' = [i \in 1 .. Cardinality(Rows(r)) |-> Message(RowAt(r, i)')]
      BY <2>1, <2>3
    <2> QED
      BY <2>2, <2>4 DEF LogOf
  <1>11. LogOf(p)' = Append(LogOf(p), Message(q))
    <2>1. \A i \in 1 .. n : Message(RowAt(p, i)) \in M
      BY <1>5 DEF StoreInv, TypeOK, Rows, Envelope, Message
    <2>2. LogOf(p) = [i \in 1 .. n |-> Message(RowAt(p, i))]
      BY <1>2 DEF LogOf
    <2>3. ASSUME NEW i \in 1 .. n
          PROVE  RowAt(p, i)' = RowAt(p, i)
      <3>1. RowAt(p, i) \in Rows(p)' /\ RowAt(p, i).seq = i
        BY <1>5, <1>8
      <3>2. PICK x : x = RowAt(p, i)
        OBVIOUS
      <3>3. \A y \in Rows(p)' : y.seq = i => y = x
        BY <3>1, <3>2 DEF StoreInv, Distinct, Rows
      <3>4. RowAt(p, i)' = x
        BY <3>1, <3>2, <3>3 DEF RowAt
      <3> QED
        BY <3>2, <3>4
    <2>4. RowAt(p, n + 1)' = NewRow(q)
      <3>1. NewRow(q) \in Rows(p)' /\ NewRow(q).seq = n + 1
        BY <1>2, <1>8 DEF NewRow
      <3>2. \A y \in Rows(p)' : y.seq = n + 1 => y = NewRow(q)
        BY <3>1 DEF StoreInv, Distinct, Rows
      <3> QED
        BY <3>1, <3>2 DEF RowAt
    <2>5. Message(NewRow(q)) = Message(q) /\ Message(q) \in M
      BY RequestAssumption DEF Message, NewRow, Ids, Packets
    <2>6. LogOf(p)' = [i \in 1 .. n + 1 |-> Message(RowAt(p, i)')]
      BY <1>9 DEF LogOf, Message
    <2>7. /\ \A i \in 1 .. n : LogOf(p)'[i] = LogOf(p)[i]
          /\ LogOf(p)'[n + 1] = Message(q)
      BY <1>2, <2>2, <2>3, <2>4, <2>5, <2>6
    <2>8. LogOf(p) \in [1 .. n -> M] /\ LogOf(p)' \in [1 .. n + 1 -> M]
      BY <2>1, <2>2, <2>3, <2>4, <2>5, <2>6
    <2> QED
      BY <2>7, <2>8, AppendIsExtension
  <1>12. PairLogs' = [PairLogs EXCEPT ![p] = Append(@, Message(q))]
    <2>1. /\ PairLogs = [r \in DevicePairs |-> LogOf(r)]
          /\ PairLogs' = [r \in DevicePairs |-> LogOf(r)']
      BY DEF PairLogs, DevicePairs
    <2>2. PairLogs[p] = LogOf(p)
      BY <1>1, <2>1
    <2>3. \A r \in DevicePairs : LogOf(r)' =
             IF r = p THEN Append(PairLogs[p], Message(q)) ELSE LogOf(r)
      BY <1>10, <1>11, <2>2
    <2> HIDE DEF p
    <2> QED
      BY <2>1, <2>3
  <1> QED
    BY <1>1, <1>4, <1>6, <1>12

\* The rows of message_envelopes and the committed state of the devices behave as
\* PairLog says: one append-only log for each pair of devices, a message in it at most
\* once and only while both devices are active, although saveNewMessage takes six
\* statements, each of which can fail.
THEOREM PairLogTheorem == Spec => ImplementsPairLog
  <1>1. ASSUME Init
        PROVE  Log!PInit
    <2>1. \A p : Rows(p) = {}
      BY <1>1 DEF Init, Rows
    <2>2. Cardinality({}) = 0
      BY FS_EmptySet
    <2>3. \A p : LogOf(p) = <<>>
      <3>1. 1 .. 0 = {}
        OBVIOUS
      <3>2. \A p : LogOf(p) = [i \in {} |-> Message(RowAt(p, i))]
        BY <2>1, <2>2, <3>1 DEF LogOf
      <3> QED
        BY <3>2
    <2>4. PairLogs = [p \in DevicePairs |-> <<>>]
      BY <2>3 DEF PairLogs, DevicePairs
    <2> QED
      BY <1>1, <2>4 DEF Init, Log!PInit, Log!Pairs, DevicePairs
  <1>2. ASSUME StoreInv, StoreInv', [Next]_vars
        PROVE  [Log!PNext]_(Log!pairLogVars)
    <2>1. ASSUME UNCHANGED <<envelopes, active>>
          PROVE  UNCHANGED Log!pairLogVars
      BY <2>1, LogUnchanged DEF Log!pairLogVars
    <2>2. CASE UNCHANGED vars
      BY <2>1, <2>2 DEF vars
    <2>3. ASSUME NEW d \in Devices, RevokeCommit(d)
          PROVE  [Log!PNext]_(Log!pairLogVars)
      <3>1. UNCHANGED PairLogs /\ active' = active \ {d}
        BY <2>3, LogUnchanged DEF RevokeCommit
      <3>2. CASE d \in active
        BY <3>1, <3>2 DEF Log!PNext, Log!Revoke
      <3>3. CASE d \notin active
        BY <2>1, <2>3, <3>1, <3>3 DEF RevokeCommit
      <3> QED
        BY <3>2, <3>3
    <2>4. ASSUME Next, envelopes' # envelopes
          PROVE  Log!PNext
      <3>1. PICK t \in Threads, q \in Requests :
               /\ pc[t] = "finishing" /\ result[t] = "Success" /\ req[t] = {q}
               /\ envelopes' = envelopes \cup {NewRow(q)}
               /\ Commit(t) \/ CommitLost(t)
        BY <1>2, <2>4, EnvelopesStep DEF StoreInv
      <3>2. active' = active
        BY <3>1 DEF Commit, CommitLost
      <3>3. Log!AppendMessage(Message(q))
        <4>1. Pair(q) = {Message(q).from, Message(q).to}
          BY DEF Pair, Message
        <4> QED
          BY <1>2, <3>1, <3>2, <4>1, LogAppends DEF Log!AppendMessage
      <3> QED
        BY <3>3 DEF Log!PNext
    <2>5. ASSUME Next, envelopes' = envelopes
          PROVE  [Log!PNext]_(Log!pairLogVars)
      <3>1. CASE UNCHANGED active
        BY <2>1, <2>5, <3>1
      <3>2. CASE OtherStep
        BY <2>3, <3>1, <3>2 DEF OtherStep, Receive, RevokeDevice, LockReader, SyncPage,
           SavePage, LosePage, Ack, ReaderFails, RevokeLock, RevokeFails, AcceptFriend
      <3> QED
        BY <2>5, <3>1, <3>2, ThreadFrame, NextSteps
    <2> QED
      BY <1>2, <2>2, <2>4, <2>5
  <1> QED
    BY <1>1, <1>2, StoreAlways, PTL DEF Spec, ImplementsPairLog, Log!PSpec
=============================================================================
