------------------------- MODULE DatabasePoolProofs -------------------------
(***************************************************************************)
(* Theorems about the connection pool for every set of client threads and  *)
(* every configuration init() accepts.                                     *)
(***************************************************************************)
EXTENDS DatabasePool, FiniteSetTheorems, TLAPS

\* The inductive invariant: the type invariant is not inductive by itself,
\* since total - 1 and total - Len(idle_queue) are natural numbers only
\* because total counts the slots exactly.
PoolInv == TypeOK /\ PoolAccounting /\ CapacityBound

-----------------------------------------------------------------------------
(* The set of slot owners *)

\* The threads that own a slot are finitely many, so they can be counted.
LEMMA OwnersFinite ==
    IsFiniteSet(Owners) /\ Cardinality(Owners) \in Nat
  <1>1. Owners \subseteq Clients
    BY DEF Owners
  <1>2. IsFiniteSet(Owners)
    BY <1>1, ThreadAssumption, FS_Subset
  <1> QED
    BY <1>2, FS_CardinalityType

\* The same after a step.
LEMMA OwnersFinitePrimed ==
    IsFiniteSet(Owners') /\ Cardinality(Owners') \in Nat
  <1>1. Owners' \subseteq Clients
    BY DEF Owners
  <1>2. IsFiniteSet(Owners')
    BY <1>1, ThreadAssumption, FS_Subset
  <1> QED
    BY <1>2, FS_CardinalityType

\* A client that takes a connection or a slot adds one to the owners.
LEMMA OwnerAdded ==
    ASSUME NEW c \in Clients, c \notin Owners, Owners' = Owners \cup {c}
    PROVE  Cardinality(Owners') = Cardinality(Owners) + 1
  BY OwnersFinite, FS_AddElement

\* A client that gives its slot or its connection back removes one.
LEMMA OwnerRemoved ==
    ASSUME NEW c \in Clients, c \in Owners, Owners' = Owners \ {c}
    PROVE  /\ Cardinality(Owners') = Cardinality(Owners) - 1
           /\ Cardinality(Owners) >= 1
  <1>1. Cardinality(Owners') = Cardinality(Owners) - 1
    BY OwnersFinite, FS_RemoveElement
  <1>2. Cardinality(Owners') \in Nat
    BY OwnersFinitePrimed
  <1> QED
    BY <1>1, <1>2, OwnersFinite

-----------------------------------------------------------------------------
(* Notifications only turn waiters into woken threads. *)

\* notify_one wakes at most a waiter and moves nobody else.
LEMMA NotifyOneType ==
    ASSUME NEW p \in [Threads -> ClientStates \cup CloserStates],
           NEW q \in NotifyOne(p)
    PROVE  /\ q \in [Threads -> ClientStates \cup CloserStates]
           /\ \A t \in Threads :
                q[t] = p[t] \/ (p[t] = "waiting" /\ q[t] = "woken")
  BY DEF NotifyOne, Waiting, ClientStates, CloserStates

\* So does notify_all.
LEMMA NotifyAllType ==
    ASSUME NEW p \in [Threads -> ClientStates \cup CloserStates]
    PROVE  /\ NotifyAll(p) \in [Threads -> ClientStates \cup CloserStates]
           /\ \A t \in Threads :
                /\ p[t] = "waiting" => NotifyAll(p)[t] = "woken"
                /\ p[t] # "waiting" => NotifyAll(p)[t] = p[t]
  BY DEF NotifyAll, ClientStates, CloserStates

-----------------------------------------------------------------------------

\* After init() every slot is an idle connection.
LEMMA InitPoolInv == Init => PoolInv
  <1> SUFFICES ASSUME Init PROVE PoolInv
    OBVIOUS
  <1> USE ConfigAssumption, ThreadAssumption
  <1>1. TypeOK
    BY DEF Init, TypeOK, Threads, Status, NoLease, ClientStates, CloserStates
  <1>2. Owners = {}
    BY DEF Init, Owners, Threads
  <1>3. Len(idle_queue) = min_connections
    BY DEF Init
  <1>4. PoolAccounting
    BY <1>2, <1>3, FS_EmptySet DEF Init, PoolAccounting
  <1>5. CapacityBound
    BY DEF Init, CapacityBound
  <1> QED
    BY <1>1, <1>4, <1>5 DEF PoolInv

\* A step that leaves the queue, the count and the owners alone.
LEMMA SameSlots ==
    ASSUME PoolInv, TypeOK', UNCHANGED <<idle_queue, total>>, Owners' = Owners
    PROVE  PoolInv'
  BY DEF PoolInv, PoolAccounting, CapacityBound

\* A step by which client c gives its slot back and the queue is unchanged.
LEMMA SlotGivenBack ==
    ASSUME NEW c \in Clients, PoolInv, c \in Owners, Owners' = Owners \ {c},
           total' = total - 1, UNCHANGED idle_queue,
           total' \in Nat => TypeOK'
    PROVE  PoolInv'
  <1>1. Cardinality(Owners') = Cardinality(Owners) - 1 /\ Cardinality(Owners) >= 1
    BY OwnerRemoved
  <1>2. Len(idle_queue) \in Nat /\ total \in Nat
    BY DEF PoolInv, TypeOK
  <1>3. PoolAccounting' /\ CapacityBound' /\ total' \in Nat
    BY <1>1, <1>2, OwnersFinite, ConfigAssumption
       DEF PoolInv, PoolAccounting, CapacityBound
  <1> QED
    BY <1>3 DEF PoolInv
-----------------------------------------------------------------------------
(* Every step preserves the invariant. *)

\* getConnection up to the moment a connection or a slot is taken.
LEMMA GetConnectionPoolInv ==
    ASSUME NEW c \in Clients, PoolInv, GetConnection(c) \/ AcquireTimePasses(c)
    PROVE  PoolInv'
  <1> USE ConfigAssumption, ThreadAssumption DEF PoolInv, Threads, ClientStates,
          CloserStates, Status, NoLease
  <1>1. CASE WaitForConnection(c) \/ ThrowTimeout(c) \/ ThrowClosed(c)
             \/ AcquireTimePasses(c)
    <2> USE <1>1 DEF WaitForConnection, ThrowTimeout, ThrowClosed,
                     AcquireTimePasses, AtWait
    <2>1. TypeOK'
      BY DEF TypeOK
    <2>2. Owners' = Owners
      BY DEF TypeOK, Owners
    <2> QED
      BY <2>1, <2>2, SameSlots
  <1>2. CASE TakeIdle(c)
    <2> USE <1>2 DEF TakeIdle, AtWait
    <2>1. TypeOK'
      BY DEF TypeOK
    <2>2. Owners' = Owners \cup {c} /\ c \notin Owners
      BY DEF TypeOK, Owners
    <2>3. Cardinality(Owners') = Cardinality(Owners) + 1
      BY <2>2, OwnerAdded
    <2>4. Len(idle_queue') = Len(idle_queue) - 1 /\ Len(idle_queue) \in Nat
      BY DEF TypeOK
    <2> QED
      BY <2>1, <2>3, <2>4, OwnersFinite DEF PoolAccounting, CapacityBound
  <1>3. CASE ReserveSlot(c)
    <2> USE <1>3 DEF ReserveSlot, AtWait
    <2>1. TypeOK'
      BY DEF TypeOK
    <2>2. Owners' = Owners \cup {c} /\ c \notin Owners
      BY DEF TypeOK, Owners
    <2>3. Cardinality(Owners') = Cardinality(Owners) + 1
      BY <2>2, OwnerAdded
    <2>4. total \in Nat /\ Len(idle_queue) \in Nat
      BY DEF TypeOK
    <2> QED
      BY <2>1, <2>3, <2>4, OwnersFinite DEF PoolAccounting, CapacityBound
  <1> QED
    BY <1>1, <1>2, <1>3 DEF GetConnection

\* Opening a connection outside the mutex, successfully or not.
LEMMA CreatePoolInv ==
    ASSUME NEW c \in Clients, PoolInv, Create(c)
    PROVE  PoolInv'
  <1> USE ThreadAssumption DEF PoolInv, Threads, ClientStates, CloserStates,
          Status, NoLease
  <1>1. CASE Connected(c)
    <2> USE <1>1 DEF Connected
    <2>1. TypeOK'
      BY DEF TypeOK
    <2>2. Owners' = Owners
      BY DEF TypeOK, Owners
    <2> QED
      BY <2>1, <2>2, SameSlots
  <1>2. CASE ConnectedTooLate(c)
    <2> USE <1>2 DEF ConnectedTooLate
    <2> DEFINE woken == NotifyAll(pc)
    <2>1. /\ woken \in [Threads -> ClientStates \cup CloserStates]
          /\ \A t \in Threads :
                /\ pc[t] = "waiting" => woken[t] = "woken"
                /\ pc[t] # "waiting" => woken[t] = pc[t]
      BY NotifyAllType DEF TypeOK
    <2>2. pc' = [woken EXCEPT ![c] = "owes_one"]
      OBVIOUS
    <2> HIDE DEF woken
    <2>3. total' \in Nat => TypeOK'
      <3>1. pc' \in [Threads -> ClientStates \cup CloserStates]
        BY <2>1, <2>2
      <3>2. /\ \A e \in Clients : pc'[e] \in ClientStates
            /\ pc'[Closer] \in CloserStates
        BY <2>1, <2>2 DEF TypeOK
      <3>3. \A e \in Clients : pc'[e] = "leased" <=> pc[e] = "leased"
        BY <2>1, <2>2 DEF TypeOK
      <3> QED
        BY <3>1, <3>2, <3>3 DEF TypeOK
    <2>4. Owners' = Owners \ {c} /\ c \in Owners
      BY <2>1, <2>2 DEF TypeOK, Owners
    <2> QED
      BY <2>3, <2>4, SlotGivenBack
  <1>3. CASE ConnectFails(c)
    <2> USE <1>3 DEF ConnectFails
    <2>1. total' \in Nat => TypeOK'
      BY DEF TypeOK
    <2>2. Owners' = Owners \ {c} /\ c \in Owners
      BY DEF TypeOK, Owners
    <2> QED
      BY <2>1, <2>2, SlotGivenBack
  <1> QED
    BY <1>1, <1>2, <1>3 DEF Create

\* The notification owed after the mutex is released moves no slot.
LEMMA OwedPoolInv ==
    ASSUME NEW c \in Clients, PoolInv, NotifyOwed(c) \/ NotifyAllOwed(c)
    PROVE  PoolInv'
  <1> USE ThreadAssumption DEF PoolInv, Threads, ClientStates, CloserStates,
          Status, NoLease
  <1> DEFINE left == [pc EXCEPT ![c] = "out"]
  <1>1. left \in [Threads -> ClientStates \cup CloserStates]
    BY DEF TypeOK
  <1>2. /\ pc' \in [Threads -> ClientStates \cup CloserStates]
        /\ \A t \in Threads :
             pc'[t] = left[t] \/ (left[t] = "waiting" /\ pc'[t] = "woken")
    <2>1. CASE NotifyOwed(c)
      BY <1>1, <2>1, NotifyOneType DEF NotifyOwed
    <2>2. CASE NotifyAllOwed(c)
      BY <1>1, <2>2, NotifyAllType DEF NotifyAllOwed
    <2> QED
      BY <2>1, <2>2
  <1>3. pc[c] \in {"owes_one", "owes_all"}
        /\ UNCHANGED <<idle_queue, total, is_running, lease, maintenance>>
    BY DEF NotifyOwed, NotifyAllOwed
  <1>4. TypeOK'
    BY <1>2, <1>3 DEF TypeOK
  <1>5. Owners' = Owners
    BY <1>2, <1>3 DEF TypeOK, Owners
  <1> QED
    BY <1>3, <1>4, <1>5, SameSlots

\* What a repository does with a lease leaves the pool alone.
LEMMA TransactionPoolInv ==
    ASSUME NEW c \in Clients, PoolInv, BeginTransaction(c) \/ EndTransaction(c)
    PROVE  PoolInv'
  <1> USE ThreadAssumption DEF PoolInv, Threads, ClientStates, CloserStates,
          Status, NoLease, BeginTransaction, EndTransaction
  <1>1. TypeOK'
    BY DEF TypeOK
  <1>2. Owners' = Owners
    BY DEF Owners
  <1> QED
    BY <1>1, <1>2, SameSlots

\* releaseConnection: queued, or dropped when broken or after close().
LEMMA ReleasePoolInv ==
    ASSUME NEW c \in Clients, PoolInv, Release(c)
    PROVE  PoolInv'
  <1> USE ThreadAssumption DEF PoolInv, Threads, ClientStates, CloserStates,
          Status, NoLease
  <1> DEFINE left == [pc EXCEPT ![c] = "out"]
  <1>1. left \in [Threads -> ClientStates \cup CloserStates]
    BY DEF TypeOK
  <1>2. /\ pc[c] = "leased"
        /\ lease' = [lease EXCEPT ![c] = "none"]
        /\ UNCHANGED <<is_running, maintenance>>
    BY DEF Release, ReleaseToQueue, ReleasePushFails, ReleaseBroken,
           ReleaseAfterClose, LeaseEnds
  <1>3. CASE ReleaseToQueue(c)
    <2> USE <1>3 DEF ReleaseToQueue
    <2>1. PICK s \in AfterReset(lease[c]) :
            Reusable(s) /\ idle_queue' = Append(idle_queue, s)
      OBVIOUS
    <2>2. s = "IDLE"
      BY <2>1 DEF Reusable
    <2>3. TypeOK'
      BY <1>2, <2>1, <2>2 DEF TypeOK
    <2>4. Owners' = Owners \ {c} /\ c \in Owners
      BY <1>2 DEF TypeOK, Owners
    <2>5. Len(idle_queue') = Len(idle_queue) + 1 /\ Len(idle_queue) \in Nat
      BY <2>1, <2>2 DEF TypeOK
    <2>6. Cardinality(Owners') = Cardinality(Owners) - 1
      BY <2>4, OwnerRemoved
    <2>7. UNCHANGED total
      OBVIOUS
    <2> QED
      BY <2>3, <2>5, <2>6, <2>7, OwnersFinite DEF PoolAccounting, CapacityBound
  <1>4. CASE ReleasePushFails(c)
    <2> USE <1>4 DEF ReleasePushFails
    <2>1. total' \in Nat => TypeOK'
      BY <1>2 DEF TypeOK
    <2>2. Owners' = Owners \ {c} /\ c \in Owners
      BY <1>2 DEF TypeOK, Owners
    <2> QED
      BY <2>1, <2>2, SlotGivenBack
  <1>5. CASE ReleaseBroken(c) \/ ReleaseAfterClose(c)
    <2>1. /\ pc' \in [Threads -> ClientStates \cup CloserStates]
          /\ \A t \in Threads :
               pc'[t] = left[t] \/ (left[t] = "waiting" /\ pc'[t] = "woken")
      <3>1. CASE ReleaseBroken(c)
        BY <1>1, <3>1, NotifyOneType DEF ReleaseBroken
      <3>2. CASE ReleaseAfterClose(c)
        BY <1>1, <3>2, NotifyAllType DEF ReleaseAfterClose
      <3> QED
        BY <1>5, <3>1, <3>2
    <2>2. total' = total - 1 /\ UNCHANGED idle_queue
      BY <1>5 DEF ReleaseBroken, ReleaseAfterClose
    <2>3. total' \in Nat => TypeOK'
      BY <1>2, <2>1, <2>2 DEF TypeOK
    <2>4. Owners' = Owners \ {c} /\ c \in Owners
      BY <1>2, <2>1 DEF TypeOK, Owners
    <2> QED
      BY <2>2, <2>3, <2>4, SlotGivenBack
  <1> QED
    BY <1>3, <1>4, <1>5 DEF Release

\* close(), which empties the queue, wakes everyone and waits for the leases.
LEMMA CloserPoolInv ==
    ASSUME PoolInv, CloserStep
    PROVE  PoolInv'
  <1> USE ThreadAssumption DEF PoolInv, Threads, ClientStates, CloserStates,
          Status, NoLease
  <1>1. CASE CloseBegins
    <2> USE <1>1 DEF CloseBegins
    <2> DEFINE woken == NotifyAll(pc)
               next == IF AllClosed' THEN "joining" ELSE "waiting"
    <2>1. /\ woken \in [Threads -> ClientStates \cup CloserStates]
          /\ \A t \in Threads :
                /\ pc[t] = "waiting" => woken[t] = "woken"
                /\ pc[t] # "waiting" => woken[t] = pc[t]
      BY NotifyAllType DEF TypeOK
    <2>2. pc' = [woken EXCEPT ![Closer] = next] /\ next \in {"joining", "waiting"}
      OBVIOUS
    <2> HIDE DEF woken, next
    <2>3. Len(idle_queue) \in Nat /\ total \in Nat
      BY DEF TypeOK
    <2>4. total' = Cardinality(Owners) /\ total' \in Nat /\ total' <= total
      BY <2>3, OwnersFinite DEF PoolAccounting
    <2>5. TypeOK'
      <3>1. pc' \in [Threads -> ClientStates \cup CloserStates]
        BY <2>1, <2>2
      <3>2. \A c \in Clients :
              pc'[c] = pc[c] \/ (pc[c] = "waiting" /\ pc'[c] = "woken")
        BY <2>1, <2>2 DEF TypeOK
      <3>3. pc'[Closer] \in CloserStates
        BY <2>1, <2>2
      <3>4. idle_queue' \in Seq(Status) /\ is_running' \in BOOLEAN
        <4>1. idle_queue' = << >> /\ is_running' = FALSE
          OBVIOUS
        <4>2. << >> \in Seq(Status)
          OBVIOUS
        <4> QED
          BY <4>1, <4>2, Zenon
      <3>5. UNCHANGED <<lease, maintenance>>
        OBVIOUS
      <3> QED
        BY <2>4, <3>1, <3>2, <3>3, <3>4, <3>5 DEF TypeOK
    <2>6. Owners' = Owners
      BY <2>1, <2>2 DEF TypeOK, Owners
    <2>7. Len(idle_queue') = 0
      OBVIOUS
    <2> QED
      BY <2>3, <2>4, <2>5, <2>6, <2>7, OwnersFinite, ConfigAssumption
         DEF PoolAccounting, CapacityBound
  <1>2. CASE CloseRechecks \/ CloseJoins
    <2> USE <1>2 DEF CloseRechecks, CloseJoins
    <2>1. TypeOK'
      BY DEF TypeOK
    <2>2. Owners' = Owners
      BY DEF TypeOK, Owners
    <2> QED
      BY <2>1, <2>2, SameSlots
  <1> QED
    BY <1>1, <1>2 DEF CloserStep

\* The maintenance thread: checking idle connections and refilling.
LEMMA MaintenancePoolInv ==
    ASSUME PoolInv, MaintenanceStep
    PROVE  PoolInv'
  <1> USE ThreadAssumption, ConfigAssumption DEF PoolInv
  <1>1. CASE MaintenanceStops \/ MaintenanceThrows
    <2> USE <1>1 DEF MaintenanceStops, MaintenanceThrows
    <2>1. TypeOK'
      BY DEF TypeOK
    <2>2. Owners' = Owners
      BY DEF Owners
    <2> QED
      BY <2>1, <2>2, SameSlots
  <1>2. CASE Maintain
    <2> USE <1>2 DEF Maintain
    <2> DEFINE kept(k) == Refreshed(Evict(k))
    <2>1. PICK k \in Evictable :
            IF total - k < min_connections
            THEN idle_queue' = Append(kept(k), "IDLE") /\ total' = total - k + 1
            ELSE idle_queue' = kept(k) /\ total' = total - k
      OBVIOUS
    <2>2. /\ total \in Nat
          /\ Len(idle_queue) \in Nat
          /\ idle_queue \in Seq(Status)
      BY DEF TypeOK
    <2>3. k \in Nat /\ k <= Len(idle_queue) /\ (k = 0 \/ total >= min_connections + k)
      BY <2>2 DEF Evictable
    <2>4. Evict(k) \in Seq(Status) /\ Len(Evict(k)) = Len(idle_queue) - k
      BY <2>2, <2>3 DEF Evict
    <2>5. kept(k) \in Seq(Status) /\ Len(kept(k)) = Len(idle_queue) - k
      <3> DEFINE e == Evict(k)
      <3> HIDE DEF e
      <3>1. e \in Seq(Status)
        BY <2>4 DEF e
      <3>2. /\ Refreshed(e) \in Seq(Status)
            /\ Len(Refreshed(e)) = Len(e)
        BY <3>1 DEF Refreshed, Status
      <3> QED
        BY <2>4, <3>2 DEF e
    <2> HIDE DEF kept
    <2>6. /\ idle_queue' \in Seq(Status)
          /\ total' \in Nat
          /\ total' <= max_connections
          /\ total' - Len(idle_queue') = total - Len(idle_queue)
          /\ Len(idle_queue') \in Nat
      <3>1. CASE total - k < min_connections
        BY <2>1, <2>2, <2>3, <2>5, <3>1 DEF Status, CapacityBound
      <3>2. CASE ~(total - k < min_connections)
        BY <2>1, <2>2, <2>3, <2>5, <3>2 DEF CapacityBound
      <3> QED
        BY <3>1, <3>2
    <2>7. TypeOK'
      BY <2>6 DEF TypeOK
    <2>8. Owners' = Owners
      BY DEF Owners
    <2> QED
      BY <2>2, <2>6, <2>7, <2>8, OwnersFinite DEF PoolAccounting, CapacityBound
  <1> QED
    BY <1>1, <1>2 DEF MaintenanceStep

\* Every step of the pool preserves the inductive invariant.
LEMMA NextPoolInv == PoolInv /\ [Next]_vars => PoolInv'
  <1> SUFFICES ASSUME PoolInv, [Next]_vars PROVE PoolInv'
    OBVIOUS
  <1>1. ASSUME NEW c \in Clients, ClientStep(c) PROVE PoolInv'
    BY <1>1, GetConnectionPoolInv, CreatePoolInv, OwedPoolInv,
       TransactionPoolInv, ReleasePoolInv DEF ClientStep
  <1>2. ASSUME NEW t \in Threads, SpuriousWakeup(t) PROVE PoolInv'
    <2> USE <1>2, ThreadAssumption DEF SpuriousWakeup, PoolInv, Threads,
            ClientStates, CloserStates
    <2>1. TypeOK'
      BY DEF TypeOK
    <2>2. Owners' = Owners
      BY DEF TypeOK, Owners
    <2> QED
      BY <2>1, <2>2, SameSlots
  <1>3. CASE CloserStep
    BY <1>3, CloserPoolInv
  <1>4. CASE MaintenanceStep
    BY <1>4, MaintenancePoolInv
  <1>5. CASE UNCHANGED vars
    BY <1>5 DEF vars, PoolInv, TypeOK, PoolAccounting, CapacityBound, Owners
  <1> QED
    BY <1>1, <1>2, <1>3, <1>4, <1>5 DEF Next, Stopped

\* The pool's bookkeeping is exact in every reachable state of DatabasePool,
\* whatever the number of threads: types, slot accounting and the limit.
THEOREM PoolInvariant == Spec => [](TypeOK /\ PoolAccounting /\ CapacityBound)
  <1>1. Spec => []PoolInv
    BY InitPoolInv, NextPoolInv, PTL DEF Spec
  <1>2. PoolInv => TypeOK /\ PoolAccounting /\ CapacityBound
    BY DEF PoolInv
  <1> QED
    BY <1>1, <1>2, PTL

-----------------------------------------------------------------------------
(* Waiting, closing and what is handed out *)

\* What releaseReturnedConnections and the maintenance thread leave in the queue.
QueueClean == \A i \in 1 .. Len(idle_queue) : idle_queue[i] = "IDLE"

\* close() runs once, and it is what stops the pool and empties the queue.
CloseOrder ==
    /\ is_running <=> pc[Closer] = "open"
    /\ ~is_running => idle_queue = <<>>
    /\ pc[Closer] \in {"joining", "closed"} => total = 0

\* NoLostWakeup and ClosedMeansEmpty need to know who stopped the pool, and that
\* a stopped pool stays empty.
CloseInv == PoolInv /\ QueueClean /\ CloseOrder /\ NoLostWakeup

\* The connections a waiting client could have, idle or still to be made.
Slots == Len(idle_queue) + max_connections - total

LEMMA ClaimantsFinite == IsFiniteSet(Claimants) /\ IsFiniteSet(Claimants')
  <1>1. Claimants \subseteq Clients /\ Claimants' \subseteq Clients
    BY DEF Claimants
  <1> QED
    BY <1>1, ThreadAssumption, FS_Subset

LEMMA SlotTypes ==
    ASSUME PoolInv
    PROVE  Len(idle_queue) \in Nat /\ total \in Nat /\ max_connections \in Nat /\ Slots \in Nat
  <1>1. Len(idle_queue) \in Nat /\ total \in Nat /\ max_connections \in Nat
    BY ConfigAssumption DEF PoolInv, TypeOK
  <1> QED
    BY <1>1 DEF Slots, PoolInv, CapacityBound

\* Who may be moved by a step of client c, and what it leaves alone.
LEMMA ClientFrame ==
    ASSUME PoolInv, NEW c \in Clients, ClientStep(c)
    PROVE  /\ UNCHANGED <<is_running, maintenance>>
           /\ pc' \in [Threads -> ClientStates \cup CloserStates]
           /\ \A t \in Threads \ {c} :
                 pc'[t] = pc[t] \/ (pc[t] = "waiting" /\ pc'[t] = "woken")
           /\ pc'[c] = "waiting" => WaitForConnection(c)
  <1>0. /\ pc \in [Threads -> ClientStates \cup CloserStates] /\ c \in Threads
        /\ pc[c] # "waiting" => [pc EXCEPT ![c] = "out"] \in
                                   [Threads -> ClientStates \cup CloserStates]
    BY DEF PoolInv, TypeOK, Threads, ClientStates, CloserStates
  <1>1. CASE \/ GetConnection(c) \/ AcquireTimePasses(c) \/ Connected(c) \/ ConnectFails(c)
             \/ BeginTransaction(c) \/ EndTransaction(c) \/ ReleaseToQueue(c)
             \/ ReleasePushFails(c)
    BY <1>0, <1>1 DEF GetConnection, WaitForConnection, ThrowTimeout, ThrowClosed, TakeIdle,
       ReserveSlot, AcquireTimePasses, Connected, ConnectFails, BeginTransaction,
       EndTransaction, ReleaseToQueue, ReleasePushFails, LeaseEnds, ClientStates, CloserStates,
       PoolInv, TypeOK, Status, NoLease
  <1>2. CASE ConnectedTooLate(c)
    <2> DEFINE p == NotifyAll(pc)
    <2>1. /\ p \in [Threads -> ClientStates \cup CloserStates]
          /\ \A t \in Threads : /\ pc[t] = "waiting" => p[t] = "woken"
                                /\ pc[t] # "waiting" => p[t] = pc[t]
      BY <1>0, NotifyAllType
    <2>2. pc' = [p EXCEPT ![c] = "owes_one"] /\ UNCHANGED <<is_running, maintenance>>
      BY <1>2 DEF ConnectedTooLate
    <2> HIDE DEF p
    <2> QED
      BY <1>0, <2>1, <2>2 DEF ClientStates
  <1>3. ASSUME pc' \in NotifyOne([pc EXCEPT ![c] = "out"]) \/
                  pc' = NotifyAll([pc EXCEPT ![c] = "out"]),
               pc[c] # "waiting", UNCHANGED <<is_running, maintenance>>
        PROVE  /\ pc' \in [Threads -> ClientStates \cup CloserStates]
               /\ \A t \in Threads \ {c} :
                     pc'[t] = pc[t] \/ (pc[t] = "waiting" /\ pc'[t] = "woken")
               /\ pc'[c] # "waiting"
    <2> DEFINE left == [pc EXCEPT ![c] = "out"]
    <2>1. /\ left \in [Threads -> ClientStates \cup CloserStates] /\ left[c] = "out"
          /\ \A t \in Threads \ {c} : left[t] = pc[t]
      BY <1>0, <1>3
    <2>2. pc' \in NotifyOne(left) \/ pc' = NotifyAll(left)
      BY <1>3
    <2> HIDE DEF left
    <2>3. /\ pc' \in [Threads -> ClientStates \cup CloserStates]
          /\ \A t \in Threads : pc'[t] = left[t] \/ (left[t] = "waiting" /\ pc'[t] = "woken")
      BY <2>1, <2>2, NotifyOneType, NotifyAllType
    <2> QED
      BY <1>0, <2>1, <2>3
  <1>4. CASE NotifyOwed(c) \/ NotifyAllOwed(c) \/ ReleaseBroken(c) \/ ReleaseAfterClose(c)
    <2>1. /\ UNCHANGED <<is_running, maintenance>> /\ pc[c] # "waiting"
          /\ \/ pc' \in NotifyOne([pc EXCEPT ![c] = "out"])
             \/ pc' = NotifyAll([pc EXCEPT ![c] = "out"])
      BY <1>4 DEF NotifyOwed, NotifyAllOwed, ReleaseBroken, ReleaseAfterClose, LeaseEnds
    <2> QED
      BY <1>3, <2>1
  <1> QED
    BY <1>1, <1>2, <1>4 DEF ClientStep, Create, Release

\* Only a wait that finds nothing, and a timeout that finds nothing, leave without a claim.
LEMMA ClaimSteps ==
    ASSUME PoolInv, CloseOrder, NEW c \in Clients, ClientStep(c), is_running,
           \E d \in Clients : pc'[d] = "waiting"
    PROVE  \/ Slots' = 0
           \/ Slots' = Slots /\ Claimants \subseteq Claimants'
           \/ Slots' = Slots - 1 /\ Claimants \ {c} \subseteq Claimants'
           \/ /\ Slots' = Slots + 1 /\ Claimants \subseteq Claimants'
              /\ \E d \in Claimants' : d \notin Claimants
           \/ /\ Slots' = Slots /\ c \in Claimants
              /\ \E d \in Clients : d \notin Claimants /\ Claimants' = (Claimants \ {c}) \cup {d}
  <1> DEFINE Goal ==
           \/ Slots' = 0
           \/ Slots' = Slots /\ Claimants \subseteq Claimants'
           \/ Slots' = Slots - 1 /\ Claimants \ {c} \subseteq Claimants'
           \/ /\ Slots' = Slots + 1 /\ Claimants \subseteq Claimants'
              /\ \E d \in Claimants' : d \notin Claimants
           \/ /\ Slots' = Slots /\ c \in Claimants
              /\ \E d \in Clients : d \notin Claimants /\ Claimants' = (Claimants \ {c}) \cup {d}
  <1> SUFFICES Goal
    OBVIOUS
  <1>0. /\ pc \in [Threads -> ClientStates \cup CloserStates] /\ Clients \subseteq Threads
        /\ Len(idle_queue) \in Nat /\ total \in Nat /\ max_connections \in Nat
        /\ total <= max_connections /\ idle_queue \in Seq(Status)
        /\ pc[Closer] = "open" /\ Threads = Clients \cup {Closer}
    BY SlotTypes DEF PoolInv, TypeOK, CapacityBound, CloseOrder, Threads
  <1>1. Claimants \ {c} \subseteq Claimants'
    BY <1>0, ClientFrame DEF Claimants
  <1>2. CASE WaitForConnection(c) \/ ThrowTimeout(c)
    <2>1. /\ idle_queue = <<>> /\ ~(total < max_connections)
          /\ idle_queue' = idle_queue /\ total' = total
      BY <1>2, Zenon DEF WaitForConnection, ThrowTimeout, Ready
    <2>2. Len(idle_queue) = 0
      BY <2>1
    <2>3. Slots' = Slots /\ Slots = 0
      BY <1>0, <2>1, <2>2 DEF Slots
    <2> QED
      BY <2>3
  <1>3. CASE ThrowClosed(c) \/ ConnectedTooLate(c) \/ ReleaseAfterClose(c)
    BY <1>3 DEF ThrowClosed, ConnectedTooLate, ReleaseAfterClose
  <1>4. CASE TakeIdle(c)
    <2>1. Len(idle_queue') = Len(idle_queue) - 1 /\ total' = total
      BY <1>0, <1>4 DEF TakeIdle
    <2>2. Slots' = Slots - 1
      BY <1>0, <2>1 DEF Slots
    <2> QED
      BY <1>1, <2>2 DEF Claimants
  <1>5. CASE ReserveSlot(c)
    <2>1. Slots' = Slots - 1
      BY <1>0, <1>5 DEF ReserveSlot, Slots
    <2> QED
      BY <1>1, <2>1 DEF Claimants
  <1>6. CASE AcquireTimePasses(c) \/ Connected(c) \/ BeginTransaction(c) \/ EndTransaction(c)
    <2>1. /\ Slots' = Slots
          /\ pc[c] \in {"woken", "expired", "owes_one", "owes_all"} => pc'[c] = pc[c]
      BY <1>0, <1>6 DEF AcquireTimePasses, Connected, BeginTransaction, EndTransaction, Slots
    <2>2. c \in Claimants => c \in Claimants'
      BY <2>1 DEF Claimants
    <2> QED
      BY <1>1, <2>1, <2>2
  <1>7. CASE ConnectFails(c) \/ ReleaseToQueue(c) \/ ReleasePushFails(c)
    <2>1. /\ pc'[c] \in {"owes_one", "owes_all"} /\ pc[c] \in {"creating", "leased"}
          /\ Slots' = Slots + 1
      <3>1. CASE ConnectFails(c) \/ ReleasePushFails(c)
        <4>1. /\ idle_queue' = idle_queue /\ total' = total - 1
              /\ pc[c] \in {"creating", "leased"}
              /\ \E p \in {"owes_one", "owes_all"} : pc' = [pc EXCEPT ![c] = p]
          BY <3>1 DEF ConnectFails, ReleasePushFails, LeaseEnds
        <4>2. Slots' = Slots + 1
          BY <1>0, <4>1 DEF Slots
        <4> QED
          BY <1>0, <4>1, <4>2
      <3>2. CASE ReleaseToQueue(c)
        <4>1. PICK s \in Status : idle_queue' = Append(idle_queue, s)
          BY <3>2 DEF ReleaseToQueue, Reusable, Status
        <4>2. Len(idle_queue') = Len(idle_queue) + 1
          BY <1>0, <4>1
        <4> QED
          BY <1>0, <3>2, <4>2 DEF ReleaseToQueue, LeaseEnds, Slots
      <3> QED
        BY <1>7, <3>1, <3>2
    <2>2. c \in Claimants' /\ c \notin Claimants
      BY <2>1 DEF Claimants
    <2> QED
      BY <1>1, <2>1, <2>2
  <1>8. CASE NotifyAllOwed(c)
    <2> DEFINE left == [pc EXCEPT ![c] = "out"]
    <2>1. left \in [Threads -> ClientStates \cup CloserStates]
      BY <1>0 DEF ClientStates
    <2>2. pc' = NotifyAll(left)
      BY <1>8 DEF NotifyAllOwed
    <2> HIDE DEF left
    <2>3. \A d \in Threads : pc'[d] # "waiting"
      BY <2>1, <2>2, NotifyAllType DEF NotifyAll
    <2> QED
      BY <1>0, <2>3
  <1>9. ASSUME pc' \in NotifyOne([pc EXCEPT ![c] = "out"]), pc[c] # "waiting"
        PROVE  \E d \in Clients \ {c} : /\ pc[d] = "waiting"
                                        /\ pc' = [pc EXCEPT ![c] = "out", ![d] = "woken"]
    <2> DEFINE left == [pc EXCEPT ![c] = "out"]
    <2>1. /\ left \in [Threads -> ClientStates \cup CloserStates] /\ left[c] = "out"
          /\ \A t \in Threads \ {c} : left[t] = pc[t]
      BY <1>0, <1>9 DEF ClientStates
    <2>2. PICK d \in Clients : pc'[d] = "waiting"
      OBVIOUS
    <2>3. Waiting(left) # {}
      BY <1>0, <1>9, <2>1, <2>2, NotifyOneType DEF Waiting, NotifyOne
    <2>4. PICK t \in Waiting(left) : pc' = [left EXCEPT ![t] = "woken"]
      BY <1>9, <2>3 DEF NotifyOne
    <2>5. t \in Clients \ {c} /\ pc[t] = "waiting"
      BY <1>0, <2>1, <2>4 DEF Waiting
    <2> QED
      BY <1>0, <2>4, <2>5
  <1>10. CASE NotifyOwed(c) \/ ReleaseBroken(c)
    <2>1. PICK d \in Clients \ {c} : /\ pc[d] = "waiting"
                                     /\ pc' = [pc EXCEPT ![c] = "out", ![d] = "woken"]
      BY <1>9, <1>10 DEF NotifyOwed, ReleaseBroken, LeaseEnds
    <2>2. /\ d \notin Claimants /\ d \in Claimants' /\ c \notin Claimants'
          /\ \A e \in Clients \ {c, d} : e \in Claimants <=> e \in Claimants'
      BY <1>0, <2>1 DEF Claimants
    <2>3. Claimants' = (Claimants \ {c}) \cup {d}
      BY <2>2 DEF Claimants
    <2>4. CASE NotifyOwed(c)
      <3>1. Slots' = Slots /\ c \in Claimants
        BY <2>4 DEF NotifyOwed, Slots, Claimants
      <3> QED
        BY <2>2, <2>3, <3>1
    <2>5. CASE ReleaseBroken(c)
      <3>1. Slots' = Slots + 1 /\ c \notin Claimants
        BY <1>0, <2>5 DEF ReleaseBroken, LeaseEnds, Slots, Claimants
      <3> QED
        BY <2>2, <2>3, <3>1
    <2> QED
      BY <1>10, <2>4, <2>5
  <1> HIDE DEF Goal
  <1> QED
    BY <1>2, <1>3, <1>4, <1>5, <1>6, <1>7, <1>8, <1>10
        DEF ClientStep, GetConnection, Create, Release

-----------------------------------------------------------------------------
(* The queue holds idle connections only *)

LEMMA QueueCleanKept ==
    ASSUME PoolInv, QueueClean, Next
    PROVE  QueueClean'
  <1>0. idle_queue \in Seq(Status)
    BY DEF PoolInv, TypeOK
  <1>1. CASE UNCHANGED idle_queue
    BY <1>1 DEF QueueClean
  <1>2. ASSUME NEW c \in Clients, TakeIdle(c)
        PROVE  QueueClean'
    <2>1. /\ idle_queue # <<>> /\ idle_queue' = Tail(idle_queue)
          /\ Len(idle_queue') = Len(idle_queue) - 1
          /\ \A i \in 1 .. Len(idle_queue') : idle_queue'[i] = idle_queue[i + 1]
      BY <1>0, <1>2 DEF TakeIdle
    <2>2. \A i \in 1 .. Len(idle_queue') : i + 1 \in 1 .. Len(idle_queue)
      BY <1>0, <2>1
    <2> QED
      BY <2>1, <2>2 DEF QueueClean
  <1>3. ASSUME NEW c \in Clients, ReleaseToQueue(c)
        PROVE  QueueClean'
    <2>1. idle_queue' = Append(idle_queue, "IDLE")
      BY <1>3 DEF ReleaseToQueue, Reusable
    <2> QED
      BY <1>0, <2>1 DEF QueueClean
  <1>4. CASE CloseBegins
    BY <1>4 DEF CloseBegins, QueueClean
  <1>5. CASE Maintain
    <2>1. PICK k \in Evictable :
             \/ idle_queue' = Append(Refreshed(Evict(k)), "IDLE")
             \/ idle_queue' = Refreshed(Evict(k))
      BY <1>5 DEF Maintain
    <2>2. Len(idle_queue) \in Nat /\ k \in Nat /\ k <= Len(idle_queue)
      BY <1>0 DEF Evictable
    <2>3. PICK e : e = Evict(k)
      OBVIOUS
    <2>4. /\ e \in Seq(Status) /\ Len(e) = Len(idle_queue) - k
          /\ \A i \in 1 .. Len(e) : e[i] = idle_queue[k + i]
      BY <1>0, <2>2, <2>3 DEF Evict
    <2>5. \A i \in 1 .. Len(e) : k + i \in 1 .. Len(idle_queue)
      BY <2>2, <2>4
    <2>6. \A i \in 1 .. Len(e) : e[i] = "IDLE"
      BY <2>4, <2>5 DEF QueueClean
    <2>7. PICK q : q = Refreshed(e)
      OBVIOUS
    <2>8. q \in Seq(Status) /\ \A i \in 1 .. Len(q) : q[i] = "IDLE"
      BY <2>4, <2>6, <2>7 DEF Refreshed, Status
    <2>9. idle_queue' = q \/ idle_queue' = Append(q, "IDLE")
      BY <2>1, <2>3, <2>7
    <2> QED
      BY <2>8, <2>9 DEF QueueClean
  <1>6. ASSUME NEW c \in Clients, ClientStep(c)
        PROVE  UNCHANGED idle_queue \/ TakeIdle(c) \/ ReleaseToQueue(c)
    BY <1>6 DEF ClientStep, GetConnection, WaitForConnection, ThrowTimeout, ThrowClosed,
       ReserveSlot, AcquireTimePasses, Create, Connected, ConnectedTooLate, ConnectFails,
       NotifyOwed, NotifyAllOwed, BeginTransaction, EndTransaction, Release, ReleasePushFails,
       ReleaseBroken, ReleaseAfterClose
  <1>7. CASE \/ (\E t \in Threads : SpuriousWakeup(t)) \/ CloseRechecks \/ CloseJoins
             \/ MaintenanceStops \/ MaintenanceThrows \/ Stopped
    BY <1>1, <1>7 DEF SpuriousWakeup, CloseRechecks, CloseJoins, MaintenanceStops,
       MaintenanceThrows, Stopped, vars
  <1> QED
    BY <1>1, <1>2, <1>3, <1>4, <1>5, <1>6, <1>7 DEF Next, CloserStep, MaintenanceStep

-----------------------------------------------------------------------------
(* close() *)

\* Nobody owns a slot of a pool whose count is zero.
LEMMA NoOwners ==
    ASSUME PoolInv, total = 0
    PROVE  Owners = {} /\ idle_queue = <<>>
  <1>1. Len(idle_queue) = 0 /\ Cardinality(Owners) = 0
    BY SlotTypes, OwnersFinite DEF PoolInv, PoolAccounting
  <1>2. idle_queue \in Seq(Status)
    BY DEF PoolInv, TypeOK
  <1> QED
    BY <1>1, <1>2, OwnersFinite, FS_EmptySet

\* What a client does with the count, the queue and the closing thread.
LEMMA ClientSlots ==
    ASSUME PoolInv, CloseOrder, NEW c \in Clients, ClientStep(c), ~is_running
    PROVE  /\ idle_queue' = idle_queue
           /\ total' = total \/ c \in Owners
  <1>1. idle_queue = <<>>
    BY DEF CloseOrder
  <1>2. idle_queue' = idle_queue
    BY <1>1 DEF ClientStep, GetConnection, WaitForConnection, ThrowTimeout, ThrowClosed, TakeIdle,
       ReserveSlot, AcquireTimePasses, Create, Connected, ConnectedTooLate, ConnectFails,
       NotifyOwed, NotifyAllOwed, BeginTransaction, EndTransaction, Release, ReleaseToQueue,
       ReleasePushFails, ReleaseBroken, ReleaseAfterClose
  <1>3. total' = total \/ pc[c] \in {"creating", "leased"}
    BY DEF ClientStep, GetConnection, WaitForConnection, ThrowTimeout, ThrowClosed, TakeIdle,
       ReserveSlot, AcquireTimePasses, Create, Connected, ConnectedTooLate, ConnectFails,
       NotifyOwed, NotifyAllOwed, BeginTransaction, EndTransaction, Release, ReleaseToQueue,
       ReleasePushFails, ReleaseBroken, ReleaseAfterClose, LeaseEnds
  <1> QED
    BY <1>2, <1>3 DEF Owners

LEMMA CloseOrderKept ==
    ASSUME PoolInv, CloseOrder, Next
    PROVE  CloseOrder'
  <1>0. /\ pc \in [Threads -> ClientStates \cup CloserStates] /\ pc[Closer] \in CloserStates
        /\ Closer \in Threads /\ Closer \notin Clients /\ is_running \in BOOLEAN
    BY ThreadAssumption DEF PoolInv, TypeOK, Threads
  <1>1. ASSUME NEW c \in Clients, ClientStep(c)
        PROVE  CloseOrder'
    <2>1. /\ is_running' = is_running
          /\ pc'[Closer] = pc[Closer] \/ (pc[Closer] = "waiting" /\ pc'[Closer] = "woken")
      BY <1>0, <1>1, ClientFrame
    <2>2. ~is_running => idle_queue' = idle_queue
      BY <1>1, ClientSlots
    <2>3. pc[Closer] \in {"joining", "closed"} => total' = 0
      BY <1>0, <1>1, ClientSlots, NoOwners DEF CloseOrder
    <2> QED
      BY <2>1, <2>2, <2>3 DEF CloseOrder
  <1>2. ASSUME NEW t \in Threads, SpuriousWakeup(t)
        PROVE  CloseOrder'
    BY <1>0, <1>2 DEF SpuriousWakeup, CloseOrder
  <1>3. CASE CloseBegins
    <2>1. /\ pc[Closer] = "open" /\ is_running' = FALSE /\ idle_queue' = <<>>
          /\ pc' = [NotifyAll(pc) EXCEPT ![Closer] = IF AllClosed' THEN "joining" ELSE "waiting"]
      BY <1>3 DEF CloseBegins
    <2>2. NotifyAll(pc) \in [Threads -> ClientStates \cup CloserStates]
      BY <1>0, NotifyAllType
    <2>3. pc'[Closer] = IF AllClosed' THEN "joining" ELSE "waiting"
      BY <1>0, <2>1, <2>2
    <2> QED
      BY <2>1, <2>3 DEF CloseOrder, AllClosed
  <1>4. CASE CloseRechecks \/ CloseJoins
    <2>1. /\ UNCHANGED <<idle_queue, total, is_running>>
          /\ pc[Closer] \in {"woken", "joining"}
          /\ \/ pc'[Closer] = "waiting"
             \/ pc'[Closer] = "joining" /\ total = 0
             \/ pc'[Closer] = "closed" /\ pc[Closer] = "joining"
      BY <1>0, <1>4 DEF CloseRechecks, CloseJoins, AllClosed
    <2> QED
      BY <2>1 DEF CloseOrder
  <1>5. CASE MaintenanceStops \/ MaintenanceThrows \/ Stopped
    BY <1>5 DEF MaintenanceStops, MaintenanceThrows, Stopped, vars, CloseOrder
  <1>6. CASE Maintain
    BY <1>6 DEF Maintain, CloseOrder
  <1> QED
    BY <1>1, <1>2, <1>3, <1>4, <1>5, <1>6 DEF Next, CloserStep, MaintenanceStep

-----------------------------------------------------------------------------
(* Waiters *)

\* While the pool runs, the claims keep up with the slots.
LEMMA ClaimsKept ==
    ASSUME PoolInv, PoolInv', CloseOrder, NoLostWakeup, Next, is_running',
           \E d \in Clients : pc'[d] = "waiting"
    PROVE  Slots' <= Cardinality(Claimants')
  <1>0. /\ Slots \in Nat /\ Cardinality(Claimants) \in Nat /\ Cardinality(Claimants') \in Nat
        /\ IsFiniteSet(Claimants) /\ IsFiniteSet(Claimants')
        /\ pc \in [Threads -> ClientStates \cup CloserStates] /\ Clients \subseteq Threads
    BY SlotTypes, ClaimantsFinite, FS_CardinalityType DEF PoolInv, TypeOK, Threads
  <1>1. is_running /\ (\E d \in Clients : pc[d] = "waiting") => Slots <= Cardinality(Claimants)
    BY DEF NoLostWakeup, Slots
  <1>2. ASSUME NEW c \in Clients, ClientStep(c)
        PROVE  Slots' <= Cardinality(Claimants')
    <2>1. is_running
      BY <1>2, ClientFrame
    <2>2. CASE Slots' = 0
      BY <1>0, <2>2
    <2>3. CASE Slots' # 0
      <3>1. \E d \in Clients : pc[d] = "waiting"
        <4>1. ~WaitForConnection(c)
          <5> SUFFICES ASSUME WaitForConnection(c)
                       PROVE  FALSE
            OBVIOUS
          <5>1. /\ idle_queue = <<>> /\ ~(total < max_connections)
                /\ idle_queue' = idle_queue /\ total' = total
            BY Zenon DEF WaitForConnection, Ready
          <5>2. Len(idle_queue) = 0 /\ total \in Nat /\ max_connections \in Nat
                /\ total <= max_connections
            BY <5>1, SlotTypes DEF PoolInv, CapacityBound
          <5>3. Slots' = 0
            BY <5>1, <5>2 DEF Slots
          <5> QED
            BY <2>3, <5>3
        <4> QED
          BY <1>0, <1>2, <4>1, ClientFrame
      <3>2. Slots <= Cardinality(Claimants)
        BY <1>1, <2>1, <3>1
      <3>3. CASE Slots' = Slots /\ Claimants \subseteq Claimants'
        <4>1. Cardinality(Claimants) <= Cardinality(Claimants')
          BY <1>0, <3>3, FS_Subset
        <4> QED
          BY <1>0, <3>2, <3>3, <4>1
      <3>4. CASE Slots' = Slots - 1 /\ Claimants \ {c} \subseteq Claimants'
        <4>1. Cardinality(Claimants \ {c}) <= Cardinality(Claimants')
          BY <1>0, <3>4, FS_Subset
        <4>2. IsFiniteSet(Claimants \ {c}) /\ Cardinality(Claimants \ {c}) \in Nat
              /\ Cardinality(Claimants \ {c}) >= Cardinality(Claimants) - 1
          <5>1. CASE c \in Claimants
            <6>1. IsFiniteSet(Claimants \ {c})
                  /\ Cardinality(Claimants \ {c}) = Cardinality(Claimants) - 1
              BY <1>0, <5>1, FS_RemoveElement
            <6>2. Cardinality(Claimants \ {c}) \in Nat
              BY <6>1, FS_CardinalityType
            <6> QED
              BY <1>0, <6>1, <6>2
          <5>2. CASE c \notin Claimants
            <6>1. Claimants \ {c} = Claimants
              BY <5>2
            <6> QED
              BY <1>0, <6>1
          <5> QED
            BY <5>1, <5>2
        <4> QED
          BY <1>0, <3>2, <3>4, <4>1, <4>2
      <3>5. ASSUME Slots' = Slots + 1, Claimants \subseteq Claimants', NEW d \in Claimants',
                   d \notin Claimants
            PROVE  Slots' <= Cardinality(Claimants')
        <4>1. Claimants \cup {d} \subseteq Claimants'
          BY <3>5
        <4>2. IsFiniteSet(Claimants \cup {d})
              /\ Cardinality(Claimants \cup {d}) = Cardinality(Claimants) + 1
          BY <1>0, <3>5, FS_AddElement
        <4>3. Cardinality(Claimants \cup {d}) <= Cardinality(Claimants')
          BY <1>0, <4>1, FS_Subset
        <4> QED
          BY <1>0, <3>2, <3>5, <4>2, <4>3
      <3>6. ASSUME Slots' = Slots, c \in Claimants, NEW d \in Clients, d \notin Claimants,
                   Claimants' = (Claimants \ {c}) \cup {d}
            PROVE  Slots' <= Cardinality(Claimants')
        <4>1. IsFiniteSet(Claimants \ {c})
              /\ Cardinality(Claimants \ {c}) = Cardinality(Claimants) - 1
          BY <1>0, <3>6, FS_RemoveElement
        <4>2. d \notin Claimants \ {c}
          BY <3>6
        <4>3. Cardinality((Claimants \ {c}) \cup {d}) = Cardinality(Claimants \ {c}) + 1
          BY <4>1, <4>2, FS_AddElement
        <4> QED
          BY <1>0, <3>2, <3>6, <4>1, <4>3
      <3> QED
        BY <1>2, <2>1, <2>3, <3>3, <3>4, <3>5, <3>6, ClaimSteps
    <2> QED
      BY <2>2, <2>3
  <1>3. ASSUME UNCHANGED <<is_running, total, idle_queue, pc>>
        PROVE  Slots' <= Cardinality(Claimants')
    <2>1. Slots' = Slots /\ Claimants' = Claimants
      BY <1>3 DEF Slots, Claimants
    <2> QED
      BY <1>1, <1>3, <2>1
  <1>4. ASSUME NEW t \in Threads, SpuriousWakeup(t)
        PROVE  Slots' <= Cardinality(Claimants')
    <2>1. Slots' = Slots /\ Claimants \subseteq Claimants'
          /\ is_running /\ \E d \in Clients : pc[d] = "waiting"
      BY <1>0, <1>4 DEF SpuriousWakeup, Slots, Claimants
    <2>2. Cardinality(Claimants) <= Cardinality(Claimants')
      BY <1>0, <2>1, FS_Subset
    <2> QED
      BY <1>0, <1>1, <2>1, <2>2
  <1>5. CASE CloserStep
    BY <1>5 DEF CloserStep, CloseBegins, CloseRechecks, CloseJoins, CloseOrder
  <1>6. CASE MaintenanceStops \/ MaintenanceThrows \/ Stopped
    BY <1>3, <1>6 DEF MaintenanceStops, MaintenanceThrows, Stopped, vars
  <1>7. CASE Maintain
    <2>1. is_running /\ pc' = pc
      BY <1>7 DEF Maintain
    <2>2. Claimants' = Claimants /\ Owners' = Owners
      BY <2>1 DEF Claimants, Owners
    <2>3. /\ total = Len(idle_queue) + Cardinality(Owners)
          /\ total' = Len(idle_queue') + Cardinality(Owners)
      BY <2>2 DEF PoolInv, PoolAccounting
    <2>4. Len(idle_queue') \in Nat /\ total' \in Nat
      BY DEF PoolInv, TypeOK
    <2>5. Slots' = Slots
      BY <2>3, <2>4, SlotTypes, OwnersFinite DEF Slots
    <2> QED
      BY <1>1, <2>1, <2>2, <2>5
  <1> QED
    BY <1>2, <1>4, <1>5, <1>6, <1>7 DEF Next, MaintenanceStep


\* A stopped pool has no waiting client: close() woke them all, and a stopped
\* pool is ready to turn away whoever asks.
LEMMA NobodyWaits ==
    ASSUME PoolInv, NoLostWakeup, Next, ~is_running'
    PROVE  \A d \in Clients : pc'[d] # "waiting"
  <1>0. /\ pc \in [Threads -> ClientStates \cup CloserStates] /\ Clients \subseteq Threads
        /\ Closer \in Threads \ Clients
        /\ ~is_running => \A d \in Clients : pc[d] # "waiting"
    BY ThreadAssumption DEF PoolInv, TypeOK, Threads, NoLostWakeup
  <1>1. ASSUME NEW c \in Clients, ClientStep(c)
        PROVE  \A d \in Clients : pc'[d] # "waiting"
    <2>1. ~is_running /\ ~WaitForConnection(c)
      BY <1>1, ClientFrame DEF WaitForConnection, Ready
    <2> QED
      BY <1>0, <1>1, <2>1, ClientFrame
  <1>2. ASSUME NEW t \in Threads, SpuriousWakeup(t)
        PROVE  \A d \in Clients : pc'[d] # "waiting"
    BY <1>0, <1>2 DEF SpuriousWakeup
  <1>3. CASE CloseBegins
    <2> DEFINE p == NotifyAll(pc)
    <2>1. /\ p \in [Threads -> ClientStates \cup CloserStates]
          /\ \A t \in Threads : p[t] # "waiting"
      BY <1>0, NotifyAllType DEF NotifyAll
    <2>2. PICK s : pc' = [p EXCEPT ![Closer] = s]
      BY <1>3 DEF CloseBegins
    <2> HIDE DEF p
    <2> QED
      BY <1>0, <2>1, <2>2
  <1>4. CASE CloseRechecks \/ CloseJoins
    BY <1>0, <1>4 DEF CloseRechecks, CloseJoins
  <1>5. CASE MaintenanceStep \/ Stopped
    BY <1>0, <1>5 DEF MaintenanceStep, MaintenanceStops, MaintenanceThrows, Maintain, Stopped,
       vars
  <1> QED
    BY <1>1, <1>2, <1>3, <1>4, <1>5 DEF Next, CloserStep

\* Whoever notifies while close() waits wakes it, for nobody else waits.
LEMMA CloserWoken ==
    ASSUME PoolInv, CloseOrder, NoLostWakeup, pc[Closer] = "waiting", NEW c \in Clients,
           NotifyOwed(c) \/ NotifyAllOwed(c) \/ ReleaseAfterClose(c)
    PROVE  pc'[Closer] = "woken"
  <1> DEFINE left == [pc EXCEPT ![c] = "out"]
  <1>0. /\ pc \in [Threads -> ClientStates \cup CloserStates] /\ c \in Threads
        /\ Closer \in Threads /\ Closer # c /\ Threads = Clients \cup {Closer}
        /\ \A d \in Clients : pc[d] # "waiting"
    BY ThreadAssumption DEF PoolInv, TypeOK, Threads, CloseOrder, NoLostWakeup
  <1>1. /\ left \in [Threads -> ClientStates \cup CloserStates]
        /\ left[Closer] = "waiting"
        /\ \A t \in Threads : left[t] = "waiting" <=> t = Closer
    BY <1>0 DEF ClientStates
  <1>2. pc' \in NotifyOne(left) \/ pc' = NotifyAll(left)
    BY DEF NotifyOwed, NotifyAllOwed, ReleaseAfterClose
  <1> HIDE DEF left
  <1>3. Waiting(left) = {Closer}
    BY <1>0, <1>1 DEF Waiting
  <1>4. NotifyOne(left) = {[left EXCEPT ![Closer] = "woken"]}
    BY <1>3 DEF NotifyOne
  <1> QED
    BY <1>0, <1>1, <1>2, <1>4, NotifyAllType

\* close() does not wait for a count that has reached zero unless somebody is
\* about to notify it.
LEMMA CloserTold ==
    ASSUME PoolInv, CloseOrder, NoLostWakeup, Next, pc'[Closer] = "waiting", total' = 0
    PROVE  \E d \in Clients : pc'[d] \in {"owes_one", "owes_all"}
  <1> DEFINE Goal == \E d \in Clients : pc'[d] \in {"owes_one", "owes_all"}
  <1> SUFFICES Goal
    OBVIOUS
  <1>0. /\ pc \in [Threads -> ClientStates \cup CloserStates] /\ Clients \subseteq Threads
        /\ Closer \in Threads \ Clients /\ pc[Closer] \in CloserStates
    BY ThreadAssumption DEF PoolInv, TypeOK, Threads
  <1>1. ASSUME pc[Closer] = "waiting", total = 0, pc' = pc
        PROVE  Goal
    BY <1>1 DEF NoLostWakeup
  <1>2. ASSUME NEW c \in Clients, ClientStep(c)
        PROVE  Goal
    <2>1. /\ pc[Closer] = "waiting" /\ ~is_running
      BY <1>0, <1>2, ClientFrame DEF CloseOrder
    <2>2. ~NotifyOwed(c) /\ ~NotifyAllOwed(c) /\ ~ReleaseAfterClose(c)
      BY <2>1, CloserWoken
    <2>3. CASE ConnectedTooLate(c) \/ ConnectFails(c)
      <3> DEFINE p == NotifyAll(pc)
      <3>1. p \in [Threads -> ClientStates \cup CloserStates]
        BY <1>0, NotifyAllType
      <3>2. pc' = [p EXCEPT ![c] = "owes_one"] \/ pc' = [pc EXCEPT ![c] = "owes_one"]
        BY <2>3 DEF ConnectedTooLate, ConnectFails
      <3> HIDE DEF p
      <3>3. pc'[c] = "owes_one"
        BY <1>0, <3>1, <3>2
      <3> QED
        BY <3>3
    <2>4. CASE ~ConnectedTooLate(c) /\ ~ConnectFails(c)
      <3>1. /\ total' = total /\ pc[c] \notin {"owes_one", "owes_all"}
        <4>1. lease[c] \in {"IDLE", "INTRANS"} => pc[c] = "leased"
          BY DEF PoolInv, TypeOK, Status
        <4> QED
          BY <1>2, <2>1, <2>2, <2>4, <4>1 DEF ClientStep, GetConnection, WaitForConnection,
             ThrowTimeout, ThrowClosed, TakeIdle, ReserveSlot, AcquireTimePasses, Create,
             Connected, BeginTransaction, EndTransaction, Release, ReleaseToQueue,
             ReleasePushFails, ReleaseBroken, AtWait
      <3>2. PICK d \in Clients : pc[d] \in {"owes_one", "owes_all"}
        BY <2>1, <3>1 DEF NoLostWakeup
      <3>3. d \in Threads \ {c} /\ pc'[d] = pc[d]
        BY <1>0, <1>2, <3>1, <3>2, ClientFrame
      <3> QED
        BY <3>2, <3>3
    <2> QED
      BY <2>3, <2>4
  <1>3. ASSUME NEW t \in Threads, SpuriousWakeup(t)
        PROVE  Goal
    <2>1. /\ pc[Closer] = "waiting" /\ total = 0
          /\ \A d \in Clients : pc[d] \in {"owes_one", "owes_all"} => pc'[d] = pc[d]
      BY <1>0, <1>3 DEF SpuriousWakeup
    <2> QED
      BY <2>1 DEF NoLostWakeup
  <1>4. CASE CloseBegins
    <2> DEFINE p == NotifyAll(pc)
    <2>1. p \in [Threads -> ClientStates \cup CloserStates]
      BY <1>0, NotifyAllType
    <2>2. pc' = [p EXCEPT ![Closer] = IF AllClosed' THEN "joining" ELSE "waiting"]
      BY <1>4 DEF CloseBegins
    <2> HIDE DEF p
    <2>3. AllClosed'
      BY DEF AllClosed
    <2> QED
      BY <1>0, <2>1, <2>2, <2>3
  <1>5. CASE CloseRechecks \/ CloseJoins
    BY <1>0, <1>5 DEF CloseRechecks, CloseJoins, AllClosed
  <1>6. CASE MaintenanceStops \/ MaintenanceThrows \/ Stopped
    BY <1>1, <1>6 DEF MaintenanceStops, MaintenanceThrows, Stopped, vars
  <1>7. CASE Maintain
    BY <1>7 DEF Maintain, CloseOrder
  <1> HIDE DEF Goal
  <1> QED
    BY <1>2, <1>3, <1>4, <1>5, <1>6, <1>7 DEF Next, CloserStep, MaintenanceStep

LEMMA NoLostWakeupKept ==
    ASSUME PoolInv, PoolInv', CloseOrder, NoLostWakeup, Next
    PROVE  NoLostWakeup'
  <1>1. is_running' /\ (\E c \in Clients : pc'[c] = "waiting")
           => Slots' <= Cardinality(Claimants')
    BY ClaimsKept
  <1>2. ~is_running' => \A c \in Clients : pc'[c] # "waiting"
    BY NobodyWaits
  <1>3. pc'[Closer] = "waiting" /\ total' = 0
           => \E c \in Clients : pc'[c] \in {"owes_one", "owes_all"}
    BY CloserTold
  <1> QED
    BY <1>1, <1>2, <1>3 DEF NoLostWakeup, Slots

-----------------------------------------------------------------------------

LEMMA InitCloseInv == Init => CloseInv
  <1> SUFFICES ASSUME Init
               PROVE  CloseInv
    OBVIOUS
  <1>1. PoolInv
    BY InitPoolInv
  <1>2. Closer \in Threads /\ Closer \notin Clients /\ Clients \subseteq Threads
    BY ThreadAssumption DEF Threads
  <1>3. CloseOrder /\ NoLostWakeup
    BY <1>2 DEF Init, CloseOrder, NoLostWakeup
  <1>4. QueueClean
    BY ConfigAssumption DEF Init, QueueClean
  <1> QED
    BY <1>1, <1>3, <1>4 DEF CloseInv

LEMMA NextCloseInv == CloseInv /\ [Next]_vars => CloseInv'
  <1> SUFFICES ASSUME CloseInv, [Next]_vars
               PROVE  CloseInv'
    OBVIOUS
  <1>1. PoolInv /\ PoolInv'
    BY NextPoolInv DEF CloseInv
  <1>2. CASE Next
    BY <1>1, <1>2, QueueCleanKept, CloseOrderKept, NoLostWakeupKept DEF CloseInv
  <1>3. CASE UNCHANGED vars
    <2>1. QueueClean' /\ CloseOrder' /\ NoLostWakeup'
      BY <1>3 DEF vars, CloseInv, QueueClean, CloseOrder, NoLostWakeup, Claimants
    <2> QED
      BY <1>1, <2>1 DEF CloseInv
  <1> QED
    BY <1>2, <1>3

LEMMA CloseInvariant == Spec => []CloseInv
  BY InitCloseInv, NextCloseInv, PTL DEF Spec

\* cv_ loses no wakeup, whatever the number of waiting clients: getConnection,
\* releaseReturnedConnections and close() leave a woken thread or an owed
\* notification for every slot a waiter could use.
THEOREM WakeupTheorem == Spec => []NoLostWakeup
  <1>1. CloseInv => NoLostWakeup
    BY DEF CloseInv
  <1> QED
    BY <1>1, CloseInvariant, PTL

\* close() returns only to a pool with no connection, idle, leased or being
\* made, and with none to be had.
THEOREM ClosedTheorem == Spec => []ClosedMeansEmpty
  <1>1. CloseInv => ClosedMeansEmpty
    <2> SUFFICES ASSUME CloseInv, pc[Closer] \in {"joining", "closed"}
                 PROVE  ~is_running /\ total = 0 /\ idle_queue = <<>> /\ Owners = {}
      BY DEF ClosedMeansEmpty
    <2>1. PoolInv /\ total = 0 /\ ~is_running
      BY DEF CloseInv, CloseOrder
    <2> QED
      BY <2>1, NoOwners
  <1> QED
    BY <1>1, CloseInvariant, PTL

\* A client gets a lease from the front of the queue, or by making a connection.
LEMMA LeaseTaken ==
    ASSUME PoolInv, NEW c \in Clients, ClientStep(c), pc[c] # "leased", pc'[c] = "leased"
    PROVE  TakeIdle(c) \/ Connected(c)
  <1>0. pc \in [Threads -> ClientStates \cup CloserStates] /\ Clients \subseteq Threads
    BY DEF PoolInv, TypeOK, Threads
  <1>1. CASE \/ WaitForConnection(c) \/ ThrowTimeout(c) \/ ThrowClosed(c)
             \/ ReserveSlot(c) \/ AcquireTimePasses(c) \/ ConnectFails(c)
             \/ BeginTransaction(c) \/ EndTransaction(c)
    BY <1>0, <1>1 DEF WaitForConnection, ThrowTimeout, ThrowClosed, ReserveSlot,
       AcquireTimePasses, ConnectFails, BeginTransaction, EndTransaction
  <1>2. CASE ConnectedTooLate(c)
    <2> DEFINE p == NotifyAll(pc)
    <2>1. p \in [Threads -> ClientStates \cup CloserStates]
      BY <1>0, NotifyAllType
    <2>2. pc' = [p EXCEPT ![c] = "owes_one"]
      BY <1>2 DEF ConnectedTooLate
    <2> HIDE DEF p
    <2> QED
      BY <1>0, <2>1, <2>2
  <1>3. CASE NotifyOwed(c) \/ NotifyAllOwed(c)
    <2> DEFINE left == [pc EXCEPT ![c] = "out"]
    <2>1. left \in [Threads -> ClientStates \cup CloserStates] /\ left[c] = "out"
      BY <1>0 DEF ClientStates
    <2>2. pc' \in NotifyOne(left) \/ pc' = NotifyAll(left)
      BY <1>3 DEF NotifyOwed, NotifyAllOwed
    <2> HIDE DEF left
    <2> QED
      BY <1>0, <2>1, <2>2, NotifyOneType, NotifyAllType
  <1>4. CASE Release(c)
    BY <1>4 DEF Release, ReleaseToQueue, ReleasePushFails, ReleaseBroken,
       ReleaseAfterClose, LeaseEnds
  <1> QED
    BY <1>1, <1>2, <1>3, <1>4 DEF ClientStep, GetConnection, Create

\* What getConnection hands out, popped or new, has no transaction open and a
\* live connection: reset() in releaseReturnedConnections sees to the popped.
THEOREM HandedOutTheorem == Spec => HandedOutClean
  <1> DEFINE Clean == \A c \in Clients :
                         pc[c] # "leased" /\ pc'[c] = "leased" => lease'[c] = "IDLE"
  <1>1. CloseInv /\ [Next]_vars => [Clean]_vars
    <2> SUFFICES ASSUME CloseInv, Next, NEW d \in Clients, pc[d] # "leased", pc'[d] = "leased"
                 PROVE  lease'[d] = "IDLE"
      OBVIOUS
    <2>0. /\ pc \in [Threads -> ClientStates \cup CloserStates] /\ Clients \subseteq Threads
          /\ lease \in [Clients -> Status \cup {NoLease}] /\ Closer \in Threads \ Clients
          /\ idle_queue \in Seq(Status) /\ PoolInv
      BY ThreadAssumption DEF CloseInv, PoolInv, TypeOK, Threads
    <2>1. ASSUME NEW c \in Clients, ClientStep(c)
          PROVE  lease'[d] = "IDLE"
      <3>1. d = c
        BY <2>0, <2>1, ClientFrame
      <3>2. TakeIdle(d) \/ Connected(d)
        BY <2>0, <2>1, <3>1, LeaseTaken
      <3>3. CASE TakeIdle(d)
        <4>1. idle_queue # <<>> /\ lease'[d] = Head(idle_queue)
          BY <2>0, <3>3 DEF TakeIdle
        <4>2. Len(idle_queue) \in Nat /\ Len(idle_queue) # 0 /\ Head(idle_queue) = idle_queue[1]
          BY <2>0, <4>1
        <4>3. 1 \in 1 .. Len(idle_queue)
          BY <4>2
        <4> QED
          BY <4>1, <4>2, <4>3 DEF CloseInv, QueueClean
      <3>4. CASE Connected(d)
        BY <2>0, <3>4 DEF Connected
      <3> QED
        BY <3>2, <3>3, <3>4
    <2>2. ASSUME NEW t \in Threads, SpuriousWakeup(t)
          PROVE  FALSE
      BY <2>0, <2>2 DEF SpuriousWakeup
    <2>3. CASE CloseBegins
      <3> DEFINE p == NotifyAll(pc)
      <3>1. /\ p \in [Threads -> ClientStates \cup CloserStates] /\ p[d] # "leased"
        BY <2>0, NotifyAllType
      <3>2. PICK s : pc' = [p EXCEPT ![Closer] = s]
        BY <2>3 DEF CloseBegins
      <3> HIDE DEF p
      <3> QED
        BY <2>0, <3>1, <3>2
    <2>4. CASE CloseRechecks \/ CloseJoins \/ MaintenanceStep \/ Stopped
      BY <2>0, <2>4 DEF CloseRechecks, CloseJoins, MaintenanceStep, MaintenanceStops, Maintain,
         MaintenanceThrows, Stopped, vars
    <2> QED
      BY <2>1, <2>2, <2>3, <2>4 DEF Next, CloserStep
  <1> QED
    BY <1>1, CloseInvariant, PTL DEF Spec, HandedOutClean

-----------------------------------------------------------------------------
(* The pool implements a pool of exclusive leases. *)

Holders == {c \in Clients : pc[c] = "leased"}

Phase == IF is_running THEN "open" ELSE IF pc[Closer] = "closed" THEN "closed" ELSE "closing"

\* A lease is granted only while fewer than max_connections are out.
LEMMA RoomToGrant ==
    ASSUME CloseInv, NEW c \in Clients, TakeIdle(c) \/ Connected(c)
    PROVE  Cardinality(Holders) < max_connections
  <1>0. /\ PoolInv /\ idle_queue \in Seq(Status)
        /\ Len(idle_queue) \in Nat /\ total \in Nat /\ max_connections \in Nat
        /\ total = Len(idle_queue) + Cardinality(Owners) /\ total <= max_connections
        /\ Cardinality(Owners) \in Nat /\ IsFiniteSet(Owners)
    BY SlotTypes, OwnersFinite DEF CloseInv, PoolInv, TypeOK, PoolAccounting, CapacityBound
  <1>1. /\ Holders \subseteq Owners /\ IsFiniteSet(Holders) /\ Cardinality(Holders) \in Nat
        /\ Cardinality(Holders) <= Cardinality(Owners)
    <2>1. Holders \subseteq Owners
      BY DEF Holders, Owners
    <2> QED
      BY <1>0, <2>1, FS_Subset, FS_CardinalityType
  <1>2. CASE TakeIdle(c)
    <2>1. Len(idle_queue) # 0
      BY <1>0, <1>2 DEF TakeIdle
    <2> QED
      BY <1>0, <1>1, <2>1
  <1>3. CASE Connected(c)
    <2>1. Holders \cup {c} \subseteq Owners /\ c \notin Holders
      BY <1>1, <1>3 DEF Connected, Holders, Owners
    <2>2. Cardinality(Holders \cup {c}) = Cardinality(Holders) + 1
      BY <1>1, <2>1, FS_AddElement
    <2>3. Cardinality(Holders \cup {c}) <= Cardinality(Owners)
      BY <1>0, <2>1, FS_Subset
    <2> QED
      BY <1>0, <1>1, <2>2, <2>3
  <1> QED
    BY <1>2, <1>3

\* Every step of the pool is a grant, a return, a step of close(), or invisible.
LEMMA LeaseStep ==
    ASSUME CloseInv, Next
    PROVE  \/ \E u \in Clients : /\ Phase = "open" /\ Phase' = "open" /\ u \notin Holders
                                 /\ Cardinality(Holders) < max_connections
                                 /\ Holders' = Holders \cup {u}
           \/ \E u \in Clients : u \in Holders /\ Holders' = Holders \ {u} /\ Phase' = Phase
           \/ Phase = "open" /\ Phase' = "closing" /\ Holders' = Holders
           \/ Phase = "closing" /\ Holders = {} /\ Phase' = "closed" /\ Holders' = Holders
           \/ Holders' = Holders /\ Phase' = Phase
  <1> DEFINE Goal ==
           \/ \E u \in Clients : /\ Phase = "open" /\ Phase' = "open" /\ u \notin Holders
                                 /\ Cardinality(Holders) < max_connections
                                 /\ Holders' = Holders \cup {u}
           \/ \E u \in Clients : u \in Holders /\ Holders' = Holders \ {u} /\ Phase' = Phase
           \/ Phase = "open" /\ Phase' = "closing" /\ Holders' = Holders
           \/ Phase = "closing" /\ Holders = {} /\ Phase' = "closed" /\ Holders' = Holders
           \/ Holders' = Holders /\ Phase' = Phase
  <1> SUFFICES Goal
    OBVIOUS
  <1>0. /\ pc \in [Threads -> ClientStates \cup CloserStates] /\ Clients \subseteq Threads
        /\ Closer \in Threads \ Clients /\ PoolInv /\ CloseOrder
    BY ThreadAssumption DEF CloseInv, PoolInv, TypeOK, Threads
  <1>1. ASSUME NEW c \in Clients, ClientStep(c)
        PROVE  Goal
    <2>1. Phase' = Phase
      BY <1>0, <1>1, ClientFrame DEF Phase
    <2>2. \A d \in Clients \ {c} : d \in Holders <=> d \in Holders'
      BY <1>0, <1>1, ClientFrame DEF Holders
    <2>3. CASE c \in Holders <=> c \in Holders'
      <3>1. Holders' = Holders
        BY <2>2, <2>3 DEF Holders
      <3> QED
        BY <2>1, <3>1
    <2>4. CASE c \notin Holders /\ c \in Holders'
      <3>1. TakeIdle(c) \/ Connected(c)
        BY <1>0, <1>1, <2>4, LeaseTaken DEF Holders
      <3>2. Phase = "open"
        BY <3>1 DEF TakeIdle, Connected, Phase
      <3>3. Holders' = Holders \cup {c}
        BY <2>2, <2>4 DEF Holders
      <3>4. Cardinality(Holders) < max_connections
        BY <3>1, RoomToGrant
      <3> QED
        BY <2>1, <2>4, <3>2, <3>3, <3>4
    <2>5. CASE c \in Holders /\ c \notin Holders'
      <3>1. Holders' = Holders \ {c}
        BY <2>2, <2>5 DEF Holders
      <3> QED
        BY <2>1, <2>5, <3>1
    <2> QED
      BY <2>3, <2>4, <2>5
  <1>2. ASSUME NEW t \in Threads, SpuriousWakeup(t)
        PROVE  Goal
    <2>1. Holders' = Holders /\ Phase' = Phase
      BY <1>0, <1>2 DEF SpuriousWakeup, Holders, Phase
    <2> QED
      BY <2>1
  <1>3. CASE CloseBegins
    <2> DEFINE p == NotifyAll(pc)
    <2>1. /\ p \in [Threads -> ClientStates \cup CloserStates]
          /\ \A t \in Threads : p[t] = "leased" <=> pc[t] = "leased"
      BY <1>0, NotifyAllType
    <2>2. /\ pc' = [p EXCEPT ![Closer] = IF AllClosed' THEN "joining" ELSE "waiting"]
          /\ pc[Closer] = "open" /\ is_running' = FALSE
      BY <1>3 DEF CloseBegins
    <2> HIDE DEF p
    <2>3. Phase = "open" /\ Phase' = "closing"
      BY <1>0, <2>1, <2>2 DEF Phase, CloseOrder
    <2>4. Holders' = Holders
      BY <1>0, <2>1, <2>2 DEF Holders
    <2> QED
      BY <2>3, <2>4
  <1>4. CASE CloseRechecks
    <2>1. Holders' = Holders /\ Phase' = Phase
      BY <1>0, <1>4 DEF CloseRechecks, Holders, Phase
    <2> QED
      BY <2>1
  <1>5. CASE CloseJoins
    <2>1. Holders' = Holders /\ Phase = "closing" /\ Phase' = "closed"
      BY <1>0, <1>5 DEF CloseJoins, Holders, Phase, CloseOrder
    <2>2. Owners = {}
      BY <1>0, <1>5, NoOwners DEF CloseJoins, CloseOrder
    <2>3. Holders = {}
      BY <2>2 DEF Holders, Owners
    <2> QED
      BY <2>1, <2>3
  <1>6. CASE MaintenanceStep \/ Stopped
    <2>1. pc' = pc /\ is_running' = is_running
      BY <1>6 DEF MaintenanceStep, MaintenanceStops, Maintain, MaintenanceThrows, Stopped, vars
    <2>2. Holders' = Holders /\ Phase' = Phase
      BY <2>1 DEF Holders, Phase
    <2> QED
      BY <2>2
  <1> HIDE DEF Goal
  <1> QED
    BY <1>1, <1>2, <1>3, <1>4, <1>5, <1>6 DEF Next, CloserStep

\* DatabasePool implements LeasePool for every set of clients and every limit:
\* at most max_connections leases are out, none is granted once close() has
\* begun, and close() ends when all are back.
THEOREM LeasePoolTheorem == Spec => ImplementsLeasePool
  <1>1. Init => Leases!LInit
    <2> SUFFICES ASSUME Init
                 PROVE  Holders = {} /\ Phase = "open"
      BY Zenon DEF Leases!LInit, Holders, Phase
    <2> QED
      BY ThreadAssumption DEF Init, Holders, Phase, Threads
  <1>2. CloseInv /\ [Next]_vars => [Leases!LNext]_(Leases!leasePoolVars)
    <2>1. ASSUME CloseInv, Next
          PROVE  Leases!LNext \/ UNCHANGED Leases!leasePoolVars
      <3>1. ASSUME NEW u \in Clients, Phase = "open", Phase' = "open", u \notin Holders,
                   Cardinality(Holders) < max_connections, Holders' = Holders \cup {u}
            PROVE  Leases!Grant(u)
        <4>1. Leases!Cardinality(Holders) = Cardinality(Holders)
          BY Zenon DEF Leases!Cardinality, Cardinality, Leases!IsFiniteSet, IsFiniteSet
        <4> QED
          BY <3>1, <4>1 DEF Leases!Grant, Holders, Phase
      <3>2. ASSUME NEW u \in Clients, u \in Holders, Holders' = Holders \ {u}, Phase' = Phase
            PROVE  Leases!GiveBack(u)
        BY <3>2 DEF Leases!GiveBack, Holders, Phase
      <3>3. ASSUME Phase = "open", Phase' = "closing", Holders' = Holders
            PROVE  Leases!BeginClose
        BY <3>3 DEF Leases!BeginClose, Holders, Phase
      <3>4. ASSUME Phase = "closing", Holders = {}, Phase' = "closed", Holders' = Holders
            PROVE  Leases!EndClose
        BY <3>4 DEF Leases!EndClose, Holders, Phase
      <3>5. ASSUME Holders' = Holders, Phase' = Phase
            PROVE  UNCHANGED Leases!leasePoolVars
        BY <3>5 DEF Leases!leasePoolVars, Holders, Phase
      <3> QED
        BY <2>1, <3>1, <3>2, <3>3, <3>4, <3>5, LeaseStep DEF Leases!LNext
    <2>2. ASSUME UNCHANGED vars
          PROVE  UNCHANGED Leases!leasePoolVars
      BY <2>2 DEF vars, Leases!leasePoolVars
    <2> QED
      BY <2>1, <2>2
  <1> QED
    BY <1>1, <1>2, CloseInvariant, PTL DEF Spec, ImplementsLeasePool, Leases!LSpec
=============================================================================
