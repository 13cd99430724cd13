---------------------------- MODULE DatabasePool ----------------------------
(***************************************************************************)
(* The PostgreSQL connection pool: databases/DatabasePool.cpp with the     *)
(* lease of databases/ConnectionLease.h and the parts of                   *)
(* databases/DatabaseConnection.cpp that decide whether a connection may   *)
(* be used again.                                                          *)
(*                                                                         *)
(* One step is one critical section of mutex_, or one thing a thread does  *)
(* outside it: PQconnectdb, a transaction, a notify after unlock().  The   *)
(* condition variable cv_ is the set of threads whose pc is "waiting"; a   *)
(* notified, spuriously woken or timed-out thread leaves that set and      *)
(* evaluates its predicate again when it gets the mutex.                   *)
(***************************************************************************)
EXTENDS Naturals, Sequences, FiniteSets

CONSTANTS
    Clients,         \* the threads that take leases
    Closer,          \* the thread that calls close()
    min_connections, \* DatabasePoolConfig::min_connections_
    max_connections  \* DatabasePoolConfig::max_connections

\* init() rejects every other configuration with invalid_argument.
ASSUME ConfigAssumption ==
    /\ min_connections \in Nat
    /\ max_connections \in Nat \ {0}
    /\ min_connections <= max_connections

ASSUME ThreadAssumption ==
    /\ IsFiniteSet(Clients)
    /\ Closer \notin Clients

VARIABLES
    idle_queue,   \* the status of the idle connections, front first
    total,        \* total_connections_
    is_running,
    pc,           \* where each thread is
    lease,        \* the status of the connection a client holds
    maintenance   \* the maintenance thread: "running", "exited", "aborted"

vars == <<idle_queue, total, is_running, pc, lease, maintenance>>

Threads == Clients \cup {Closer}

\* PQtransactionStatus of a live connection; BAD is a connection that
\* isAlive() refuses (PQstatus is not CONNECTION_OK, or the handle is null).
Status == {"IDLE", "INTRANS", "BAD"}
NoLease == "none"

ClientStates == {"out", "waiting", "woken", "expired", "creating", "leased",
                 "owes_one", "owes_all"}
CloserStates == {"open", "waiting", "woken", "joining", "closed"}

TypeOK ==
    /\ idle_queue \in Seq(Status)
    /\ total \in Nat
    /\ is_running \in BOOLEAN
    /\ pc \in [Threads -> ClientStates \cup CloserStates]
    /\ \A c \in Clients : pc[c] \in ClientStates
    /\ pc[Closer] \in CloserStates
    /\ lease \in [Clients -> Status \cup {NoLease}]
    /\ \A c \in Clients : lease[c] \in Status <=> pc[c] = "leased"
    /\ maintenance \in {"running", "exited", "aborted"}

-----------------------------------------------------------------------------
(* The condition variable *)

Waiting(p) == {t \in Threads : p[t] = "waiting"}

\* The program counters notify_all leaves behind.
NotifyAll(p) ==
    [t \in Threads |-> IF p[t] = "waiting" THEN "woken" ELSE p[t]]

\* The program counters notify_one may leave behind: any waiter is woken, or
\* the notification is lost because nobody waits.
NotifyOne(p) ==
    IF Waiting(p) = {}
    THEN {p}
    ELSE {[p EXCEPT ![t] = "woken"] : t \in Waiting(p)}

SpuriousWakeup(t) ==
    /\ pc[t] = "waiting"
    /\ pc' = [pc EXCEPT ![t] = "woken"]
    /\ UNCHANGED <<idle_queue, total, is_running, lease, maintenance>>

-----------------------------------------------------------------------------
(* init(): min_connections_ fresh connections are idle, the maintenance     *)
(* thread runs.                                                             *)

Init ==
    /\ idle_queue = [i \in 1 .. min_connections |-> "IDLE"]
    /\ total = min_connections
    /\ is_running = TRUE
    /\ pc = [t \in Threads |-> IF t = Closer THEN "open" ELSE "out"]
    /\ lease = [c \in Clients |-> NoLease]
    /\ maintenance = "running"

-----------------------------------------------------------------------------
(* getConnection() *)

\* The predicate of wait_for.
Ready == ~is_running \/ idle_queue # <<>> \/ total < max_connections

\* The client holds the mutex in getConnection: it has just called it, or
\* wait_for has reacquired the mutex for it.
AtWait(c) == pc[c] \in {"out", "woken", "expired"}

WaitForConnection(c) ==
    /\ pc[c] \in {"out", "woken"}
    /\ ~Ready
    /\ pc' = [pc EXCEPT ![c] = "waiting"]
    /\ UNCHANGED <<idle_queue, total, is_running, lease, maintenance>>

\* acquire_time passes while the client waits.
AcquireTimePasses(c) ==
    /\ pc[c] = "waiting"
    /\ pc' = [pc EXCEPT ![c] = "expired"]
    /\ UNCHANGED <<idle_queue, total, is_running, lease, maintenance>>

\* "Timeout acquiring connection"
ThrowTimeout(c) ==
    /\ pc[c] = "expired"
    /\ ~Ready
    /\ pc' = [pc EXCEPT ![c] = "out"]
    /\ UNCHANGED <<idle_queue, total, is_running, lease, maintenance>>

\* "Connection pool is closed"
ThrowClosed(c) ==
    /\ AtWait(c)
    /\ ~is_running
    /\ pc' = [pc EXCEPT ![c] = "out"]
    /\ UNCHANGED <<idle_queue, total, is_running, lease, maintenance>>

TakeIdle(c) ==
    /\ AtWait(c)
    /\ is_running
    /\ idle_queue # <<>>
    /\ idle_queue' = Tail(idle_queue)
    /\ lease' = [lease EXCEPT ![c] = Head(idle_queue)]
    /\ pc' = [pc EXCEPT ![c] = "leased"]
    /\ UNCHANGED <<total, is_running, maintenance>>

\* The slot is reserved under the mutex, the connection made outside it.
ReserveSlot(c) ==
    /\ AtWait(c)
    /\ is_running
    /\ idle_queue = <<>>
    /\ total < max_connections
    /\ total' = total + 1
    /\ pc' = [pc EXCEPT ![c] = "creating"]
    /\ UNCHANGED <<idle_queue, is_running, lease, maintenance>>

\* MUTANT: is_running is not read again once the connection is made.
Connected_NoRecheck(c) ==
    /\ pc[c] = "creating"
    /\ lease' = [lease EXCEPT ![c] = "IDLE"]
    /\ pc' = [pc EXCEPT ![c] = "leased"]
    /\ UNCHANGED <<idle_queue, total, is_running, maintenance>>

\* PQconnectdb succeeds and the pool is still open.
Connected(c) ==
    /\ pc[c] = "creating"
    /\ is_running
    /\ lease' = [lease EXCEPT ![c] = "IDLE"]
    /\ pc' = [pc EXCEPT ![c] = "leased"]
    /\ UNCHANGED <<idle_queue, total, is_running, maintenance>>

\* PQconnectdb succeeds but close() ran meanwhile: notify_all under the mutex,
\* then the catch block gives the slot back and owes a notify_one.
ConnectedTooLate(c) ==
    /\ pc[c] = "creating"
    /\ ~is_running
    /\ total' = total - 1
    /\ pc' = [NotifyAll(pc) EXCEPT ![c] = "owes_one"]
    /\ UNCHANGED <<idle_queue, is_running, lease, maintenance>>

\* MUTANT: the catch block leaks the reserved slot.
ConnectFails_LeaksSlot(c) ==
    /\ pc[c] = "creating"
    /\ pc' = [pc EXCEPT ![c] = "owes_one"]
    /\ UNCHANGED <<idle_queue, total, is_running, lease, maintenance>>

\* PQconnectdb fails: the catch block gives the slot back.
ConnectFails(c) ==
    /\ pc[c] = "creating"
    /\ total' = total - 1
    /\ pc' = [pc EXCEPT ![c] = "owes_one"]
    /\ UNCHANGED <<idle_queue, is_running, lease, maintenance>>

\* MUTANT: nobody is notified after unlock().
NotifyOwed_Forgotten(c) ==
    /\ pc[c] = "owes_one"
    /\ pc' = [pc EXCEPT ![c] = "out"]
    /\ UNCHANGED <<idle_queue, total, is_running, lease, maintenance>>

\* The notify_one that follows unlock(), in getConnection and in
\* releaseReturnedConnections.
NotifyOwed(c) ==
    /\ pc[c] = "owes_one"
    /\ pc' \in NotifyOne([pc EXCEPT ![c] = "out"])
    /\ UNCHANGED <<idle_queue, total, is_running, lease, maintenance>>

NotifyAllOwed(c) ==
    /\ pc[c] = "owes_all"
    /\ pc' = NotifyAll([pc EXCEPT ![c] = "out"])
    /\ UNCHANGED <<idle_queue, total, is_running, lease, maintenance>>

-----------------------------------------------------------------------------
(* What the holder of a lease does with its connection. *)

\* beginTransaction: a BEGIN that fails drops the connection.
BeginTransaction(c) ==
    /\ lease[c] = "IDLE"
    /\ lease' \in {[lease EXCEPT ![c] = s] : s \in {"INTRANS", "BAD"}}
    /\ UNCHANGED <<idle_queue, total, is_running, pc, maintenance>>

\* withTransaction ends in COMMIT or, after any exception, in ROLLBACK; a
\* connection whose ROLLBACK fails is dropped.
EndTransaction(c) ==
    /\ lease[c] = "INTRANS"
    /\ lease' \in {[lease EXCEPT ![c] = s] : s \in {"IDLE", "BAD"}}
    /\ UNCHANGED <<idle_queue, total, is_running, pc, maintenance>>

-----------------------------------------------------------------------------
(* releaseReturnedConnections(), called by ~ConnectionLease *)

\* The status reset() may leave: an open transaction is rolled back, and the
\* ROLLBACK may fail.
AfterReset(s) == IF s = "INTRANS" THEN {"IDLE", "BAD"} ELSE {s}

\* MUTANT: reset() returns true without looking at the connection again.
Reusable_Always(s) == TRUE

\* What reset() returns: the connection is alive and has no transaction.
Reusable(s) == s = "IDLE"

\* The lease ends outside a transaction: the destructor runs after
\* withTransaction has returned or thrown.
LeaseEnds(c) ==
    /\ pc[c] = "leased"
    /\ lease[c] # "INTRANS"
    /\ lease' = [lease EXCEPT ![c] = NoLease]
    /\ UNCHANGED <<is_running, maintenance>>

ReleaseToQueue(c) ==
    /\ LeaseEnds(c)
    /\ is_running
    /\ \E s \in AfterReset(lease[c]) :
        /\ Reusable(s)
        /\ idle_queue' = Append(idle_queue, s)
    /\ pc' = [pc EXCEPT ![c] = "owes_one"]
    /\ UNCHANGED total

\* push() throws: the connection is destroyed and every waiter told.
ReleasePushFails(c) ==
    /\ LeaseEnds(c)
    /\ is_running
    /\ \E s \in AfterReset(lease[c]) : Reusable(s)
    /\ total' = total - 1
    /\ pc' = [pc EXCEPT ![c] = "owes_all"]
    /\ UNCHANGED idle_queue

\* reset() refused the connection: notify_one under the mutex.
ReleaseBroken(c) ==
    /\ LeaseEnds(c)
    /\ is_running
    /\ \E s \in AfterReset(lease[c]) : ~Reusable(s)
    /\ total' = total - 1
    /\ pc' \in NotifyOne([pc EXCEPT ![c] = "out"])
    /\ UNCHANGED idle_queue

\* MUTANT: close() is not told that a connection is gone.
ReleaseAfterClose_Silent(c) ==
    /\ LeaseEnds(c)
    /\ ~is_running
    /\ total' = total - 1
    /\ pc' = [pc EXCEPT ![c] = "out"]
    /\ UNCHANGED idle_queue

ReleaseAfterClose(c) ==
    /\ LeaseEnds(c)
    /\ ~is_running
    /\ total' = total - 1
    /\ pc' = NotifyAll([pc EXCEPT ![c] = "out"])
    /\ UNCHANGED idle_queue

Release(c) ==
    \/ ReleaseToQueue(c)
    \/ ReleasePushFails(c)
    \/ ReleaseBroken(c)
    \/ ReleaseAfterClose(c)

-----------------------------------------------------------------------------
(* The maintenance thread: one iteration is one critical section. *)

\* How many idle connections one pass of the eviction loop can close: the
\* loop's bound idle_queue.size() shrinks with every connection it closes, so
\* it never gets past half of the queue, and never below min_connections_.
Evictable ==
    {k \in 0 .. (Len(idle_queue) + 1) \div 2 :
        k = 0 \/ total >= min_connections + k}

Evict(k) == SubSeq(idle_queue, k + 1, Len(idle_queue))

\* The liveness loop replaces idle connections that isAlive() refuses.
Refreshed(q) == [i \in DOMAIN q |-> IF q[i] = "BAD" THEN "IDLE" ELSE q[i]]

MaintenanceStops ==
    /\ maintenance = "running"
    /\ ~is_running
    /\ maintenance' = "exited"
    /\ UNCHANGED <<idle_queue, total, is_running, pc, lease>>

\* An iteration in which every connection it needed could be made.
Maintain ==
    /\ maintenance = "running"
    /\ is_running
    /\ \E k \in Evictable :
        LET kept == Refreshed(Evict(k))
        IN IF total - k < min_connections
           THEN /\ idle_queue' = Append(kept, "IDLE")
                /\ total' = total - k + 1
           ELSE /\ idle_queue' = kept
                /\ total' = total - k
    /\ UNCHANGED <<is_running, pc, lease, maintenance>>

\* The constructor of DatabaseConnection throws in the maintenance thread,
\* which has no handler: std::terminate ends the process.
MaintenanceThrows ==
    /\ maintenance = "running"
    /\ is_running
    /\ total < min_connections \/ "BAD" \in {idle_queue[i] : i \in DOMAIN idle_queue}
    /\ maintenance' = "aborted"
    /\ UNCHANGED <<idle_queue, total, is_running, pc, lease>>

-----------------------------------------------------------------------------
(* close() *)

\* MUTANT: close() waits for the queue instead of the count.
AllClosed_QueueOnly == idle_queue = <<>>

\* The predicate of the wait in close().
AllClosed == total = 0

\* Everything close() does before it first waits: stop, wake all, drain.
CloseBegins ==
    /\ pc[Closer] = "open"
    /\ is_running' = FALSE
    /\ idle_queue' = <<>>
    /\ total' = total - Len(idle_queue)
    /\ pc' = [NotifyAll(pc) EXCEPT ![Closer] =
                 IF AllClosed' THEN "joining" ELSE "waiting"]
    /\ UNCHANGED <<lease, maintenance>>

CloseRechecks ==
    /\ pc[Closer] = "woken"
    /\ pc' = [pc EXCEPT ![Closer] = IF AllClosed THEN "joining" ELSE "waiting"]
    /\ UNCHANGED <<idle_queue, total, is_running, lease, maintenance>>

CloseJoins ==
    /\ pc[Closer] = "joining"
    /\ maintenance = "exited"
    /\ pc' = [pc EXCEPT ![Closer] = "closed"]
    /\ UNCHANGED <<idle_queue, total, is_running, lease, maintenance>>

\* The process is over, or nothing is left to do: not a deadlock.
Stopped ==
    /\ maintenance = "aborted" \/ pc[Closer] = "closed"
    /\ UNCHANGED vars

-----------------------------------------------------------------------------

GetConnection(c) ==
    \/ WaitForConnection(c)
    \/ ThrowTimeout(c)
    \/ ThrowClosed(c)
    \/ TakeIdle(c)
    \/ ReserveSlot(c)

Create(c) == Connected(c) \/ ConnectedTooLate(c) \/ ConnectFails(c)

ClientStep(c) ==
    \/ GetConnection(c)
    \/ AcquireTimePasses(c)
    \/ Create(c)
    \/ NotifyOwed(c)
    \/ NotifyAllOwed(c)
    \/ BeginTransaction(c)
    \/ EndTransaction(c)
    \/ Release(c)

CloserStep == CloseBegins \/ CloseRechecks \/ CloseJoins

MaintenanceStep == MaintenanceStops \/ Maintain \/ MaintenanceThrows

Next ==
    \/ /\ maintenance # "aborted"
       /\ \/ \E c \in Clients : ClientStep(c)
          \/ \E t \in Threads : SpuriousWakeup(t)
          \/ CloserStep
          \/ MaintenanceStep
    \/ Stopped

Spec == Init /\ [][Next]_vars

\* Threads inside the pool are scheduled, PQconnectdb and transactions end,
\* and a lease is returned: SF, because a holder may run several transactions
\* first.  Nothing obliges a client to call getConnection, the main thread to
\* call close, or a connection to be usable.
Fairness ==
    /\ \A c \in Clients :
        /\ WF_vars(pc[c] # "out" /\ GetConnection(c))
        /\ WF_vars(Create(c))
        /\ WF_vars(NotifyOwed(c) \/ NotifyAllOwed(c))
        /\ WF_vars(EndTransaction(c))
        /\ SF_vars(Release(c))
    /\ WF_vars(CloseRechecks \/ CloseJoins)
    /\ WF_vars(MaintenanceStops)

FairSpec == Spec /\ Fairness

-----------------------------------------------------------------------------
(* Properties *)

\* The clients whose slot total_connections_ counts.
Owners == {c \in Clients : pc[c] \in {"creating", "leased"}}

\* total_connections_ is incremented and decremented in eight places, some
\* after the mutex was given up: it always equals the idle connections plus
\* the slots of the clients that hold or are making one.
PoolAccounting == total = Len(idle_queue) + Cardinality(Owners)

\* getConnection reserves a slot before it creates outside the mutex: the
\* pool never owns more than max_connections.
CapacityBound == total <= max_connections

\* reset() in releaseReturnedConnections keeps broken connections and open
\* transactions out of the queue: a client is handed a connection on which
\* beginTransaction finds PQTRANS_IDLE.
HandedOutClean ==
    [][\A c \in Clients :
        pc[c] # "leased" /\ pc'[c] = "leased" => lease'[c] = "IDLE"]_vars

\* The clients that are about to look for a slot or to wake one that will.
Claimants ==
    {c \in Clients : pc[c] \in {"woken", "expired", "owes_one", "owes_all"}}

\* cv_ wakes one waiter per freed slot and is shared with close(): while a
\* client waits, every slot it could use has a woken client or an
\* outstanding notify to its name; no client waits on a closed pool; and
\* close() is not left waiting for a total that has already reached zero.
NoLostWakeup ==
    /\ is_running /\ (\E c \in Clients : pc[c] = "waiting")
        => Len(idle_queue) + max_connections - total <= Cardinality(Claimants)
    /\ ~is_running => \A c \in Clients : pc[c] # "waiting"
    /\ pc[Closer] = "waiting" /\ total = 0
        => \E c \in Clients : pc[c] \in {"owes_one", "owes_all"}

\* When close() is over every connection has been destroyed, no lease is out
\* and none can be taken.
ClosedMeansEmpty ==
    pc[Closer] \in {"joining", "closed"} =>
        /\ ~is_running
        /\ total = 0
        /\ idle_queue = <<>>
        /\ Owners = {}

\* close() returns once the leases come back, unless the maintenance thread
\* ended the process.
CloseTerminates ==
    pc[Closer] # "open" ~> (pc[Closer] = "closed" \/ maintenance = "aborted")

\* The pool implements a pool of at most max_connections exclusive leases.
Leases == INSTANCE LeasePool WITH
    Users     <- Clients,
    MaxLeases <- max_connections,
    holders   <- {c \in Clients : pc[c] = "leased"},
    phase     <- IF is_running THEN "open"
                 ELSE IF pc[Closer] = "closed" THEN "closed"
                 ELSE "closing"

ImplementsLeasePool == Leases!LSpec
=============================================================================
