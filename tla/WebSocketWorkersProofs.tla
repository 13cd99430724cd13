------------------------ MODULE WebSocketWorkersProofs ------------------------
(***************************************************************************)
(* Proofs about WebSocketWorkers, for every number of workers, devices,    *)
(* descriptors, revocation requests, connections and messages: the         *)
(* directory, the tables keyed by descriptor, the completions, what HTTP   *)
(* 200 promises for a revoked device, and that no frame reaches a session  *)
(* it was not meant for.                                                   *)
(*                                                                         *)
(* Nobody locks a session: the argument is which worker an item is at, and *)
(* that it is there once.  Descriptors are in one place at a time          *)
(* (OneHolder), session ids are never used again (Sids), and a revocation  *)
(* passes each worker exactly once (RevokeOnce, RevokeRan).                *)
(***************************************************************************)
EXTENDS WebSocketWorkers, FiniteSetTheorems, SequenceTheorems, TLAPS

-----------------------------------------------------------------------------
(* The inductive invariant *)

Elems(q) == {q[i] : i \in DOMAIN q}

HandshakeFds == {h.fd : h \in handshakes}
SessionFds == {s.fd : s \in sessions}
FdsIn(q) == {q[i].fd : i \in DOMAIN q}
AcceptsIn(q) == {q[i].fd : i \in {j \in DOMAIN q : q[j].kind = "accept"}}
PendingFds(w) == FdsIn(pending[w])
AcceptFds(w) == AcceptsIn(agenda[w])

\* A sequence names each descriptor once, among its connections or accept items.
FdsOnce(q) == \A i, j \in DOMAIN q : q[i].fd = q[j].fd => i = j
AcceptsOnce(q) ==
    \A i, j \in DOMAIN q :
        q[i].kind = "accept" /\ q[j].kind = "accept" /\ q[i].fd = q[j].fd => i = j

\* An open descriptor is held in one place: by one session, one handshake, one
\* pending connection or one connection being accepted.
OneHolder ==
    /\ \A s, t \in sessions : s.fd = t.fd => s = t
    /\ \A h, g \in handshakes : h.fd = g.fd => h = g
    /\ SessionFds \cap HandshakeFds = {}
    /\ \A w \in Workers :
        /\ FdsOnce(pending[w]) /\ AcceptsOnce(agenda[w])
        /\ (PendingFds(w) \cup AcceptFds(w)) \cap (SessionFds \cup HandshakeFds) = {}
        /\ \A v \in Workers :
            /\ PendingFds(w) \cap AcceptFds(v) = {}
            /\ v # w => /\ PendingFds(w) \cap PendingFds(v) = {}
                        /\ AcceptFds(w) \cap AcceptFds(v) = {}

\* Connections that may still become sessions.
Waiting == HandshakeFds \cup UNION {PendingFds(w) \cup AcceptFds(w) : w \in Workers}

\* A session id is drawn for a connection that was accepted, at most once.
Counted ==
    /\ IsFiniteSet(Waiting)
    /\ nextSessionId + Cardinality(Waiting) <= accepted + 1

\* Session ids are unique and never used again: a reply names the device its session
\* has, if it still exists.
Sids ==
    /\ \A s \in sessions : s.sid < nextSessionId
    /\ \A s, t \in sessions : s.sid = t.sid => s = t

ReplyOf(t) ==
    t.kind = "reply" =>
        /\ t.sid < nextSessionId
        /\ \A s \in sessions : s.sid = t.sid => s.device = t.device

Replies ==
    /\ \A w \in Workers : \A t \in Elems(tasks[w]) \cup Elems(agenda[w]) : ReplyOf(t)
    /\ \A m \in inflight : m.task.kind \in {"reply", "sync"} /\ ReplyOf(m.task)

\* The closure of a revocation is queued at a worker once, by CloseSession.
Revocation(r) == [kind |-> "revoke", request |-> r]

Broadcast(r) == request[r] \notin {"idle", "committed"}

Once(q, x) == \A i, j \in DOMAIN q : q[i] = x /\ q[j] = x => i = j

RevokeOnce ==
    \A r \in Revokes, w \in Workers :
        /\ Once(tasks[w], Revocation(r)) /\ Once(agenda[w], Revocation(r))
        /\ Revocation(r) \notin Elems(tasks[w]) \cap Elems(agenda[w])
        /\ Revocation(r) \in Elems(tasks[w]) \cup Elems(agenda[w]) => Broadcast(r)

Ran(r, w) ==
    Broadcast(r) /\ Revocation(r) \notin Elems(tasks[w]) \cup Elems(agenda[w])

\* Callbacks and completions come from the run of the closure, after which every
\* session of the device that the worker has left has a callback, and the worker has
\* no handshake of it and will have none.
RevokeRan ==
    /\ \A c \in callbacks : Ran(c.request, c.worker)
    /\ \A r \in Revokes, w \in Workers :
        /\ <<r, w>> \in ready => Ran(r, w)
        /\ Ran(r, w) =>
            /\ \A h \in handshakes : h.worker = w => h.device # target[r]
            /\ \A s \in sessions : s.worker = w /\ s.device = target[r] =>
                  [request |-> r, worker |-> w, fd |-> s.fd] \in callbacks
    /\ \A r \in Revokes : request[r] # "idle" => target[r] \notin active
    /\ \A r \in Revokes : request[r] = "confirmed" => AllReady(r)

WorkersInv ==
    /\ TypeOK /\ OneHolder /\ Counted /\ Sids /\ Replies /\ RevokeOnce /\ RevokeRan
    /\ DirectoryNamesLiveSessions /\ ReusedDescriptorIsClean /\ CompletionOnce
    /\ NoMisdelivery

-----------------------------------------------------------------------------
(* Sequences *)

LEMMA HeadAndTail ==
    ASSUME NEW S, NEW q \in Seq(S), q # <<>>
    PROVE  /\ Tail(q) \in Seq(S) /\ Head(q) \in S
           /\ 1 \in DOMAIN q /\ Head(q) = q[1]
           /\ \A i \in DOMAIN Tail(q) : i \in Nat /\ i + 1 \in DOMAIN q
                                        /\ Tail(q)[i] = q[i + 1]
           /\ \A i \in DOMAIN q \ {1} : i \in Nat /\ i - 1 \in DOMAIN Tail(q)
                                        /\ q[i] = Tail(q)[i - 1]
  OBVIOUS

LEMMA Concatenated ==
    ASSUME NEW S, NEW p \in Seq(S), NEW q \in Seq(S)
    PROVE  /\ p \o q \in Seq(S)
           /\ \A i \in DOMAIN p : i \in DOMAIN (p \o q) /\ (p \o q)[i] = p[i]
           /\ \A i \in DOMAIN q : /\ Len(p) + i \in DOMAIN (p \o q)
                                  /\ (p \o q)[Len(p) + i] = q[i]
           /\ \A i \in DOMAIN (p \o q) :
                 \/ i \in DOMAIN p
                 \/ i - Len(p) \in DOMAIN q /\ i = Len(p) + (i - Len(p))
           /\ \A i \in DOMAIN p, j \in DOMAIN q : i # Len(p) + j
           /\ \A i, j \in DOMAIN q : Len(p) + i = Len(p) + j => i = j
  OBVIOUS

LEMMA Appended ==
    ASSUME NEW S, NEW q \in Seq(S), NEW x \in S
    PROVE  /\ Append(q, x) \in Seq(S)
           /\ Len(q) + 1 \in DOMAIN Append(q, x)
           /\ Append(q, x)[Len(q) + 1] = x
           /\ DOMAIN Append(q, x) = DOMAIN q \cup {Len(q) + 1}
           /\ \A i \in DOMAIN q : Append(q, x)[i] = q[i]
           /\ Len(q) + 1 \notin DOMAIN q
  OBVIOUS

\* Handling the first item of an agenda.
LEMMA TailFacts ==
    ASSUME NEW S, NEW q \in Seq(S), q # <<>>
    PROVE  /\ Elems(q) = {Head(q)} \cup Elems(Tail(q))
           /\ AcceptsIn(Tail(q)) \subseteq AcceptsIn(q)
           /\ Head(q).kind = "accept" => Head(q).fd \in AcceptsIn(q)
           /\ AcceptsOnce(q) =>
                /\ AcceptsOnce(Tail(q))
                /\ Head(q).kind = "accept" => Head(q).fd \notin AcceptsIn(Tail(q))
           /\ \A x : Once(q, x) =>
                Once(Tail(q), x) /\ (x = Head(q) => x \notin Elems(Tail(q)))
  <1> USE HeadAndTail
  <1>1. Elems(q) = {Head(q)} \cup Elems(Tail(q))
    <2>1. ASSUME NEW i \in DOMAIN q, i # 1
          PROVE  \E j \in DOMAIN Tail(q) : q[i] = Tail(q)[j]
      <3>1. i - 1 \in DOMAIN Tail(q) /\ q[i] = Tail(q)[i - 1]
        BY <2>1
      <3> QED
        BY <3>1
    <2>2. Elems(Tail(q)) \subseteq Elems(q) /\ Head(q) \in Elems(q)
      BY DEF Elems
    <2> QED
      BY <2>1, <2>2 DEF Elems
  <1>2. /\ AcceptsIn(Tail(q)) \subseteq AcceptsIn(q)
        /\ Head(q).kind = "accept" => Head(q).fd \in AcceptsIn(q)
    BY DEF AcceptsIn
  <1>3. ASSUME AcceptsOnce(q)
        PROVE  /\ AcceptsOnce(Tail(q))
               /\ Head(q).kind = "accept" => Head(q).fd \notin AcceptsIn(Tail(q))
    BY <1>3 DEF AcceptsOnce, AcceptsIn
  <1>4. ASSUME NEW x, Once(q, x)
        PROVE  Once(Tail(q), x) /\ (x = Head(q) => x \notin Elems(Tail(q)))
    BY <1>4 DEF Once, Elems
  <1> QED
    BY <1>1, <1>2, <1>3, <1>4

\* Items that were swapped out of a queue are put in front of an agenda.
LEMMA ConcatFacts ==
    ASSUME NEW S, NEW p \in Seq(S), NEW q \in Seq(S)
    PROVE  /\ Elems(p \o q) = Elems(p) \cup Elems(q)
           /\ AcceptsIn(p \o q) = AcceptsIn(p) \cup AcceptsIn(q)
           /\ AcceptsOnce(p) /\ AcceptsOnce(q) /\ AcceptsIn(p) \cap AcceptsIn(q) = {}
                => AcceptsOnce(p \o q)
           /\ \A x : Once(p, x) /\ Once(q, x) /\ x \notin Elems(p) \cap Elems(q)
                => Once(p \o q, x)
  <1> DEFINE c == p \o q
  <1>1. \A i \in DOMAIN c :
           \/ i \in DOMAIN p /\ c[i] = p[i]
           \/ \E j \in DOMAIN q : i = Len(p) + j /\ c[i] = q[j]
    BY Concatenated
  <1>0. /\ \A i \in DOMAIN p : \E k \in DOMAIN c : c[k] = p[i]
        /\ \A i \in DOMAIN q : \E k \in DOMAIN c : c[k] = q[i]
    <2>1. \A i \in DOMAIN p : i \in DOMAIN c /\ c[i] = p[i]
      BY Concatenated
    <2>2. \A i \in DOMAIN q : Len(p) + i \in DOMAIN c /\ c[Len(p) + i] = q[i]
      BY Concatenated
    <2> HIDE DEF c
    <2> QED
      BY <2>1, <2>2
  <1>2. Elems(c) = Elems(p) \cup Elems(q)
    <2>1. Elems(c) \subseteq Elems(p) \cup Elems(q)
      BY <1>1 DEF Elems
    <2>2. Elems(p) \cup Elems(q) \subseteq Elems(c)
      <3> HIDE DEF c
      <3> QED
        BY <1>0 DEF Elems
    <2> QED
      BY <2>1, <2>2
  <1>3. AcceptsIn(c) = AcceptsIn(p) \cup AcceptsIn(q)
    <2>1. AcceptsIn(c) \subseteq AcceptsIn(p) \cup AcceptsIn(q)
      BY <1>1 DEF AcceptsIn
    <2>2. AcceptsIn(p) \cup AcceptsIn(q) \subseteq AcceptsIn(c)
      <3> HIDE DEF c
      <3> QED
        BY <1>0 DEF AcceptsIn
    <2> QED
      BY <2>1, <2>2
  <1>4. ASSUME AcceptsOnce(p), AcceptsOnce(q), AcceptsIn(p) \cap AcceptsIn(q) = {}
        PROVE  AcceptsOnce(c)
    <2> SUFFICES ASSUME NEW i \in DOMAIN c, NEW j \in DOMAIN c, c[i].kind = "accept",
                        c[j].kind = "accept", c[i].fd = c[j].fd
                 PROVE  i = j
      BY DEF AcceptsOnce
    <2> HIDE DEF c
    <2>1. CASE i \in DOMAIN p /\ c[i] = p[i] /\ j \in DOMAIN p /\ c[j] = p[j]
      BY <1>4, <2>1 DEF AcceptsOnce
    <2>2. ASSUME NEW k \in DOMAIN q, NEW l \in DOMAIN q, i = Len(p) + k, c[i] = q[k],
                 j = Len(p) + l, c[j] = q[l]
          PROVE  i = j
      BY <1>4, <2>2 DEF AcceptsOnce
    <2>3. ASSUME NEW k \in DOMAIN p, NEW l \in DOMAIN q, p[k].kind = "accept",
                 q[l].kind = "accept", p[k].fd = q[l].fd
          PROVE  FALSE
      BY <1>4, <2>3 DEF AcceptsIn
    <2> QED
      BY <1>1, <2>1, <2>2, <2>3
  <1>5. ASSUME NEW x, Once(p, x), Once(q, x), x \notin Elems(p) \cap Elems(q)
        PROVE  Once(c, x)
    <2> SUFFICES ASSUME NEW i \in DOMAIN c, NEW j \in DOMAIN c, c[i] = x, c[j] = x
                 PROVE  i = j
      BY DEF Once
    <2> HIDE DEF c
    <2>1. CASE i \in DOMAIN p /\ c[i] = p[i] /\ j \in DOMAIN p /\ c[j] = p[j]
      BY <1>5, <2>1 DEF Once
    <2>2. ASSUME NEW k \in DOMAIN q, NEW l \in DOMAIN q, i = Len(p) + k, c[i] = q[k],
                 j = Len(p) + l, c[j] = q[l]
          PROVE  i = j
      BY <1>5, <2>2 DEF Once
    <2>3. ASSUME NEW k \in DOMAIN p, NEW l \in DOMAIN q, p[k] = x, q[l] = x
          PROVE  FALSE
      BY <1>5, <2>3 DEF Elems
    <2> QED
      BY <1>1, <2>1, <2>2, <2>3
  <1> QED
    BY <1>2, <1>3, <1>4, <1>5

LEMMA AppendFacts ==
    ASSUME NEW S, NEW q \in Seq(S), NEW x \in S
    PROVE  /\ Elems(Append(q, x)) = Elems(q) \cup {x}
           /\ FdsIn(Append(q, x)) = FdsIn(q) \cup {x.fd}
           /\ FdsOnce(q) /\ x.fd \notin FdsIn(q) => FdsOnce(Append(q, x))
           /\ \A y : Once(q, y) /\ (y = x => x \notin Elems(q)) => Once(Append(q, x), y)
  <1> USE Appended
  <1>1. Elems(Append(q, x)) = Elems(q) \cup {x}
    BY DEF Elems
  <1>2. FdsIn(Append(q, x)) = FdsIn(q) \cup {x.fd}
    BY DEF FdsIn
  <1>3. FdsOnce(q) /\ x.fd \notin FdsIn(q) => FdsOnce(Append(q, x))
    BY DEF FdsOnce, FdsIn
  <1>4. \A y : Once(q, y) /\ (y = x => x \notin Elems(q)) => Once(Append(q, x), y)
    BY DEF Once, Elems
  <1> QED
    BY <1>1, <1>2, <1>3, <1>4

LEMMA EmptyFacts ==
    /\ Elems(<<>>) = {} /\ FdsIn(<<>>) = {} /\ AcceptsIn(<<>>) = {}
    /\ FdsOnce(<<>>) /\ AcceptsOnce(<<>>) /\ \A x : Once(<<>>, x)
  BY DEF Elems, FdsIn, AcceptsIn, FdsOnce, AcceptsOnce, Once

-----------------------------------------------------------------------------
(* Items *)

LEMMA Kinds ==
    ASSUME NEW x \in Item
    PROVE  /\ x.kind \in {"in", "out", "rdhup", "hup"} => x.fd \in Fds
           /\ x.kind = "accept" => x.fd \in Fds /\ x.device \in Devices
           /\ x.kind \in {"reply", "push"} =>
                 x.fd \in Fds /\ x.sid \in SessionIds /\ x.device \in Devices
           /\ x.kind = "sync" => x.device \in Devices
           /\ x.kind = "revoke" => x.request \in Revokes /\ x = Revocation(x.request)
  BY DEF Item, Event, SocketEvent, Task, Revocation

\* Neither an event nor an accept item is a reply or a revocation.
LEMMA EventKinds ==
    ASSUME NEW x \in Event
    PROVE  x.kind \notin {"accept", "reply", "revoke"}
  BY DEF Event, SocketEvent

LEMMA TaskKinds ==
    ASSUME NEW x \in Task
    PROVE  x \in Item /\ x.kind # "accept"
  BY DEF Task, Item

LEMMA RevocationKind ==
    ASSUME NEW r
    PROVE  Revocation(r).kind = "revoke" /\ Revocation(r).request = r
  BY DEF Revocation

LEMMA EventsFinite == IsFiniteSet(SocketEvent)
  <1> DEFINE K == {"in", "out", "rdhup", "hup"}
             P == K \X (Fds \X SessionIds)
             f == [x \in P |-> [kind |-> x[1], fd |-> x[2][1], of |-> x[2][2]]]
  <1>1. IsFiniteSet(K)
    <2>1. IsFiniteSet({"in"})
      BY FS_Singleton
    <2>2. IsFiniteSet({"in"} \cup {"out"})
      BY <2>1, FS_AddElement
    <2>3. IsFiniteSet({"in"} \cup {"out"} \cup {"rdhup"})
      BY <2>2, FS_AddElement
    <2>4. IsFiniteSet({"in"} \cup {"out"} \cup {"rdhup"} \cup {"hup"})
      BY <2>3, FS_AddElement
    <2>5. K = {"in"} \cup {"out"} \cup {"rdhup"} \cup {"hup"}
      OBVIOUS
    <2> QED
      BY <2>4, <2>5
  <1>2. IsFiniteSet(SessionIds)
    BY FS_Interval, SizeAssumption DEF SessionIds
  <1>3. IsFiniteSet(P)
    BY <1>1, <1>2, DescriptorAssumption, FS_Product
  <1>4. f \in Surjection(P, SocketEvent)
    <2>1. f \in [P -> SocketEvent]
      BY DEF SocketEvent
    <2>2. ASSUME NEW e \in SocketEvent
          PROVE  \E x \in P : f[x] = e
      <3>1. <<e.kind, <<e.fd, e.of>>>> \in P
        BY DEF SocketEvent
      <3>2. f[<<e.kind, <<e.fd, e.of>>>>] = e
        BY <3>1 DEF SocketEvent
      <3> QED
        BY <3>1, <3>2
    <2> QED
      BY <2>1, <2>2 DEF Surjection
  <1> QED
    BY <1>3, <1>4, FS_Surjection

\* epoll_wait returns a list of events.
LEMMA EventList ==
    ASSUME NEW w \in Workers, EpollWait(w)
    PROVE  \E q \in Seq(Event) : agenda' = [agenda EXCEPT ![w] = q]
  <1>1. PICK timer \in SUBSET {[kind |-> "timer"]}, sockets \in SUBSET SocketEventsOf(w) :
          LET wakeup == {[kind |-> "wakeup"] : p \in {q \in {pending[w]} : q # <<>>}}
              task   == {[kind |-> "task"] : t \in {q \in {tasks[w]} : q # <<>>}}
              events == wakeup \cup task \cup timer \cup sockets
          IN \E order \in Orderings(events) : agenda' = [agenda EXCEPT ![w] = order]
    BY DEF EpollWait
  <1> DEFINE wakeup == {[kind |-> "wakeup"] : p \in {q \in {pending[w]} : q # <<>>}}
             task   == {[kind |-> "task"] : t \in {q \in {tasks[w]} : q # <<>>}}
             E == wakeup \cup task \cup timer \cup sockets
  <1>2. PICK order \in Orderings(E) : agenda' = [agenda EXCEPT ![w] = order]
    BY <1>1
  <1>3. wakeup \subseteq {[kind |-> "wakeup"]} /\ task \subseteq {[kind |-> "task"]}
    OBVIOUS
  <1>4. IsFiniteSet(wakeup) /\ IsFiniteSet(task) /\ IsFiniteSet(timer)
    <2>1. /\ IsFiniteSet({[kind |-> "wakeup"]}) /\ IsFiniteSet({[kind |-> "task"]})
          /\ IsFiniteSet({[kind |-> "timer"]})
      BY FS_Singleton
    <2> HIDE DEF wakeup, task
    <2> QED
      BY <1>3, <2>1, FS_Subset
  <1>5. sockets \subseteq SocketEvent
    BY DEF SocketEventsOf
  <1>6. IsFiniteSet(sockets)
    BY <1>5, EventsFinite, FS_Subset
  <1>7. IsFiniteSet(E)
    <2>1. IsFiniteSet(wakeup \cup task)
      BY <1>4, FS_Union
    <2>2. IsFiniteSet((wakeup \cup task) \cup timer)
      BY <1>4, <2>1, FS_Union
    <2> QED
      BY <1>6, <2>2, FS_Union
  <1>8. Cardinality(E) \in Nat
    BY <1>7, FS_CardinalityType
  <1>9. E \subseteq Event
    BY <1>3, <1>5 DEF Event
  <1> HIDE DEF E
  <1>10. order \in [1 .. Cardinality(E) -> E]
    BY DEF Orderings
  <1>11. order \in Seq(Event)
    BY <1>8, <1>9, <1>10
  <1> QED
    BY <1>2, <1>11

\* A list of events, of tasks, or of connections to accept, as part of an agenda.
LEMMA EventsAsAgenda ==
    ASSUME NEW q \in Seq(Event)
    PROVE  /\ q \in Seq(Item) /\ AcceptsIn(q) = {} /\ AcceptsOnce(q)
           /\ \A x \in Elems(q) : x.kind \notin {"reply", "revoke"}
  <1>1. \A i \in DOMAIN q : q[i] \in Event /\ q[i].kind \notin {"accept", "reply", "revoke"}
    BY EventKinds
  <1>2. q \in Seq(Item)
    BY DEF Item
  <1> QED
    BY <1>1, <1>2 DEF AcceptsIn, AcceptsOnce, Elems

LEMMA TasksAsAgenda ==
    ASSUME NEW q \in Seq(Task)
    PROVE  q \in Seq(Item) /\ AcceptsIn(q) = {} /\ AcceptsOnce(q)
  <1>1. \A i \in DOMAIN q : q[i] \in Task /\ q[i].kind # "accept"
    BY TaskKinds
  <1>2. q \in Seq(Item)
    BY DEF Item
  <1> QED
    BY <1>1, <1>2 DEF AcceptsIn, AcceptsOnce

LEMMA ConnectionsAsAgenda ==
    ASSUME NEW p \in Seq(Connection), NEW q,
           q = [i \in DOMAIN p |-> [kind |-> "accept", fd |-> p[i].fd, device |-> p[i].device]]
    PROVE  /\ q \in Seq(Item) /\ AcceptsIn(q) = FdsIn(p)
           /\ FdsOnce(p) => AcceptsOnce(q)
           /\ \A x \in Elems(q) : x.kind \notin {"reply", "revoke"}
  <1>1. \A i \in DOMAIN p : p[i] \in Connection
    OBVIOUS
  <1>2. \A i \in DOMAIN p : p[i].fd \in Fds /\ p[i].device \in Devices
    BY <1>1 DEF Connection
  <1>3. \A i \in DOMAIN p : q[i] \in Item
    BY <1>2 DEF Item
  <1>4. DOMAIN q = DOMAIN p /\ Len(p) \in Nat /\ DOMAIN p = 1 .. Len(p)
    OBVIOUS
  <1>5. q \in [1 .. Len(p) -> Item]
    BY <1>3, <1>4
  <1>6. q \in Seq(Item)
    BY <1>4, <1>5
  <1>7. \A i \in DOMAIN q : q[i].kind = "accept" /\ q[i].fd = p[i].fd
    OBVIOUS
  <1>8. AcceptsIn(q) = FdsIn(p)
    BY <1>4, <1>7 DEF AcceptsIn, FdsIn
  <1>9. FdsOnce(p) => AcceptsOnce(q)
    BY <1>4, <1>7 DEF FdsOnce, AcceptsOnce
  <1>10. \A x \in Elems(q) : x.kind \notin {"reply", "revoke"}
    BY <1>7 DEF Elems
  <1> QED
    BY <1>6, <1>8, <1>9, <1>10

-----------------------------------------------------------------------------
(* The steps *)

\* The steps that move no descriptor: sessions may be removed, and one worker may have
\* handled one item.
Quiet ==
    /\ UNCHANGED <<accepted, pending, handshakes, nextSessionId>>
    /\ sessions' \subseteq sessions
    /\ \/ UNCHANGED agenda
       \/ \E w \in Workers : agenda[w] # <<>> /\ Done(w)

\* The handlers of a socket event, the timer or a task, which leave the connections
\* that wait and the other threads alone.
Handler(w) ==
    \/ RejectHandshake(w) \/ ReadNothing(w) \/ ReadMessage(w) \/ ReadControl(w)
    \/ ReadEnds(w) \/ HandleWritable(w) \/ HandleHangup(w) \/ HandlePeerShutdown(w)
    \/ HandleTimer(w) \/ RunRevoke(w) \/ RunDelivery(w) \/ DropDelivery(w)
    \/ RunSync(w)

OtherThread == BusinessReply \/ \E r \in Revokes : Request(r)

LEMMA NextSteps ==
    Next => \/ \E fd \in Fds, d \in Devices : ForwardConnection(fd, d)
            \/ \E w \in Workers : \/ EpollWait(w) \/ HandleWakeup(w) \/ HandleTask(w)
                                  \/ VerifyIdentity(w) \/ RegisterSession(w)
                                  \/ AbandonHandshake(w) \/ Handler(w)
            \/ OtherThread
  BY DEF Next, Handle, Handler, OtherThread

LEMMA RemovalShrinks ==
    ASSUME NEW K, NEW cl, NEW rv, NEW ov, NEW ww, NEW cb,
           RemoveSessions(K, cl, rv, ov, ww, cb)
    PROVE  sessions' \subseteq sessions
  BY DEF RemoveSessions

LEMMA HandlerFrame ==
    ASSUME NEW w \in Workers, Handler(w)
    PROVE  /\ UNCHANGED <<accepted, pending, handshakes, nextSessionId, active,
                          request, target>>
           /\ sessions' \subseteq sessions
           /\ agenda[w] # <<>> /\ ~Busy(w) /\ Done(w)
  <1> USE DEF requestVars, workerVars, At
  <1>1. CASE RejectHandshake(w) \/ ReadNothing(w) \/ ReadMessage(w) \/ ReadControl(w)
             \/ DropDelivery(w) \/ RunSync(w)
    BY <1>1 DEF RejectHandshake, ReadNothing, ReadMessage, ReadControl, DropDelivery,
                RunSync
  <1>2. CASE ReadEnds(w) \/ HandleWritable(w) \/ HandleHangup(w) \/ HandlePeerShutdown(w)
    BY <1>2, RemovalShrinks DEF ReadEnds, HandleWritable, HandleHangup,
                                HandlePeerShutdown, Remove
  <1>3. CASE HandleTimer(w)
    BY <1>3, RemovalShrinks DEF HandleTimer
  <1>4. CASE RunRevoke(w)
    BY <1>4, RemovalShrinks DEF RunRevoke
  <1>5. CASE RunDelivery(w)
    BY <1>5, RemovalShrinks DEF RunDelivery, Remove
  <1> QED
    BY <1>1, <1>2, <1>3, <1>4, <1>5 DEF Handler

LEMMA OtherThreadFrame ==
    ASSUME OtherThread
    PROVE  UNCHANGED <<accepted, pending, agenda, handshakes, nextSessionId, workerVars,
                       target, messages, delivered>>
  BY DEF OtherThread, BusinessReply, Request, RevokeCommit, CloseSession, Confirm,
         GiveUp, requestVars

LEMMA QuietSteps ==
    /\ \A w \in Workers : Handler(w) => Quiet
    /\ OtherThread => Quiet
  BY HandlerFrame, OtherThreadFrame DEF Quiet, workerVars

-----------------------------------------------------------------------------
(* Types of the queues *)

\* forward_connections takes one of the workers.
LEMMA RoundRobin == TypeOK => accepted % NumWorkers \in Workers
  <1>1. TypeOK => accepted \in Nat
    BY SizeAssumption DEF TypeOK
  <1> QED
    BY <1>1, SizeAssumption DEF Workers

LEMMA QueueTypes ==
    ASSUME TypeOK, Replies, Next
    PROVE  /\ pending' \in [Workers -> Seq(Connection)]
           /\ tasks' \in [Workers -> Seq(Task)]
           /\ agenda' \in [Workers -> Seq(Item)]
  <1>0. /\ pending \in [Workers -> Seq(Connection)]
        /\ tasks \in [Workers -> Seq(Task)]
        /\ agenda \in [Workers -> Seq(Item)]
    BY DEF TypeOK
  <1>1. ASSUME NEW fd \in Fds, NEW d \in Devices, ForwardConnection(fd, d)
        PROVE  pending' \in [Workers -> Seq(Connection)] /\ UNCHANGED <<tasks, agenda>>
    <2>1. [fd |-> fd, device |-> d] \in Connection
      BY DEF Connection
    <2>2. PICK w \in Workers : pending' = [pending EXCEPT ![w] = Append(@, [fd |-> fd, device |-> d])]
      BY <1>1, RoundRobin DEF ForwardConnection
    <2>3. Append(pending[w], [fd |-> fd, device |-> d]) \in Seq(Connection)
      BY <1>0, <2>1, Appended
    <2> QED
      BY <1>0, <1>1, <2>2, <2>3 DEF ForwardConnection
  <1>2. ASSUME NEW w \in Workers, EpollWait(w)
        PROVE  agenda' \in [Workers -> Seq(Item)] /\ UNCHANGED <<pending, tasks>>
    BY <1>0, <1>2, EventList, EventsAsAgenda DEF EpollWait
  <1>3. ASSUME NEW w \in Workers, HandleWakeup(w)
        PROVE  /\ pending' \in [Workers -> Seq(Connection)]
               /\ agenda' \in [Workers -> Seq(Item)] /\ UNCHANGED tasks
    <2> DEFINE q == [i \in DOMAIN pending[w] |->
                       [kind |-> "accept", fd |-> pending[w][i].fd,
                        device |-> pending[w][i].device]]
    <2>1. q \in Seq(Item)
      BY <1>0, ConnectionsAsAgenda
    <2>2. Tail(agenda[w]) \in Seq(Item)
      BY <1>0, <1>3, HeadAndTail DEF HandleWakeup, At
    <2>3. agenda' = [agenda EXCEPT ![w] = q \o Tail(agenda[w])]
      BY <1>3 DEF HandleWakeup
    <2> HIDE DEF q
    <2>4. q \o Tail(agenda[w]) \in Seq(Item)
      BY <2>1, <2>2, Concatenated
    <2>5. agenda' \in [Workers -> Seq(Item)]
      BY <1>0, <2>3, <2>4
    <2>6. pending' = [pending EXCEPT ![w] = <<>>] /\ UNCHANGED tasks
      BY <1>3 DEF HandleWakeup
    <2> QED
      BY <1>0, <2>5, <2>6
  <1>4. ASSUME NEW w \in Workers, HandleTask(w)
        PROVE  /\ tasks' \in [Workers -> Seq(Task)]
               /\ agenda' \in [Workers -> Seq(Item)] /\ UNCHANGED pending
    <2>1. tasks[w] \in Seq(Item)
      BY <1>0, TasksAsAgenda
    <2>2. Tail(agenda[w]) \in Seq(Item)
      BY <1>0, <1>4, HeadAndTail DEF HandleTask, At
    <2>3. tasks[w] \o Tail(agenda[w]) \in Seq(Item)
      BY <2>1, <2>2, Concatenated
    <2> QED
      BY <1>0, <1>4, <2>3 DEF HandleTask
  <1>5. ASSUME NEW w \in Workers, agenda[w] # <<>>, Done(w)
        PROVE  agenda' \in [Workers -> Seq(Item)]
    BY <1>0, <1>5, HeadAndTail DEF Done
  <1>6. ASSUME NEW w \in Workers, VerifyIdentity(w)
        PROVE  agenda' \in [Workers -> Seq(Item)] /\ UNCHANGED <<pending, tasks>>
    BY <1>5, <1>6 DEF VerifyIdentity, At
  <1>7. ASSUME NEW w \in Workers, RegisterSession(w) \/ AbandonHandshake(w)
        PROVE  UNCHANGED <<pending, tasks, agenda>>
    BY <1>7 DEF RegisterSession, AbandonHandshake
  <1>8. ASSUME NEW w \in Workers, RunSync(w)
        PROVE  tasks' \in [Workers -> Seq(Task)]
    <2>1. ASSUME NEW e \in index
          PROVE  /\ e.worker \in Workers
                 /\ [kind |-> "push", fd |-> e.fd, sid |-> e.sid, device |-> e.device] \in Task
      BY DEF TypeOK, Session, Task
    <2>2. CASE UNCHANGED tasks
      BY <1>0, <2>2
    <2>3. ASSUME NEW e \in index,
                 tasks' = [tasks EXCEPT ![e.worker] =
                    Append(@, [kind |-> "push", fd |-> e.fd, sid |-> e.sid,
                               device |-> e.device])]
          PROVE  tasks' \in [Workers -> Seq(Task)]
      <3>1. Append(tasks[e.worker], [kind |-> "push", fd |-> e.fd, sid |-> e.sid,
                                     device |-> e.device]) \in Seq(Task)
        BY <1>0, <2>1, Appended
      <3> QED
        BY <1>0, <2>1, <2>3, <3>1
    <2> QED
      BY <1>8, <2>2, <2>3 DEF RunSync
  <1>9. ASSUME NEW w \in Workers, Handler(w)
        PROVE  /\ tasks' \in [Workers -> Seq(Task)]
               /\ agenda' \in [Workers -> Seq(Item)] /\ UNCHANGED pending
    <2>1. CASE RunSync(w)
      BY <1>5, <1>8, <1>9, <2>1, HandlerFrame
    <2>2. CASE ~RunSync(w)
      <3>1. UNCHANGED tasks
        BY <1>9, <2>2 DEF Handler, RejectHandshake, ReadNothing, ReadMessage,
           ReadControl, ReadEnds, HandleWritable, HandleHangup, HandlePeerShutdown,
           HandleTimer, RunRevoke, RunDelivery, DropDelivery
      <3> QED
        BY <1>0, <1>5, <1>9, <3>1, HandlerFrame
    <2> QED
      BY <2>1, <2>2
  <1>10. CASE OtherThread
    <2>1. CASE BusinessReply
      <3>1. PICK m \in inflight : tasks' = [tasks EXCEPT ![m.worker] = Append(@, m.task)]
        BY <2>1 DEF BusinessReply
      <3>2. m.worker \in Workers /\ m.task \in Task
        BY DEF TypeOK
      <3> QED
        BY <1>0, <1>10, <3>1, <3>2, OtherThreadFrame
    <2>2. ASSUME NEW r \in Revokes, CloseSession(r)
          PROVE  tasks' \in [Workers -> Seq(Task)]
      <3>1. [kind |-> "revoke", request |-> r] \in Task
        BY DEF Task
      <3> QED
        BY <1>0, <2>2, <3>1 DEF CloseSession
    <2>3. ASSUME NEW r \in Revokes, RevokeCommit(r) \/ Confirm(r) \/ GiveUp(r)
          PROVE  UNCHANGED tasks
      BY <2>3 DEF RevokeCommit, Confirm, GiveUp
    <2> QED
      BY <1>0, <1>10, <2>1, <2>2, <2>3, OtherThreadFrame DEF OtherThread, Request
  <1> QED
    BY <1>0, <1>1, <1>2, <1>3, <1>4, <1>6, <1>7, <1>9, <1>10, NextSteps

-----------------------------------------------------------------------------
(* Descriptors *)

LEMMA OpenFdsAre ==
    OpenFds = SessionFds \cup HandshakeFds
              \cup UNION {PendingFds(w) \cup AcceptFds(w) : w \in Workers}
  <1>1. OpenFds = SessionFds \cup HandshakeFds
                  \cup (UNION {PendingFds(w) : w \in Workers})
                  \cup (UNION {AcceptFds(w) : w \in Workers})
    BY Zenon DEF OpenFds, SessionFds, HandshakeFds, PendingFds, AcceptFds, FdsIn,
                 AcceptsIn
  <1>2. UNION {PendingFds(w) \cup AcceptFds(w) : w \in Workers} =
           (UNION {PendingFds(w) : w \in Workers}) \cup (UNION {AcceptFds(w) : w \in Workers})
    OBVIOUS
  <1> QED
    BY <1>1, <1>2

\* Handling the first item of an agenda.
LEMMA DoneAccepts ==
    ASSUME TypeOK, OneHolder, NEW w \in Workers, agenda[w] # <<>>, Done(w)
    PROVE  /\ \A v \in Workers : /\ AcceptsOnce(agenda'[v])
                                 /\ AcceptFds(v)' \subseteq AcceptFds(v)
           /\ \A v \in Workers \ {w} : AcceptFds(v)' = AcceptFds(v)
           /\ Head(agenda[w]).kind = "accept" =>
                 /\ Head(agenda[w]).fd \in AcceptFds(w)
                 /\ Head(agenda[w]).fd \notin AcceptFds(w)'
  <1>1. agenda \in [Workers -> Seq(Item)] /\ \A v \in Workers : AcceptsOnce(agenda[v])
    BY DEF TypeOK, OneHolder
  <1>2. agenda'[w] = Tail(agenda[w]) /\ \A v \in Workers \ {w} : agenda'[v] = agenda[v]
    BY <1>1 DEF Done
  <1> QED
    BY <1>1, <1>2, TailFacts DEF AcceptFds

LEMMA HolderQuiet ==
    ASSUME TypeOK, OneHolder, Quiet
    PROVE  OneHolder' /\ Waiting' \subseteq Waiting
  <1>1. /\ \A v \in Workers : AcceptsOnce(agenda'[v]) /\ AcceptFds(v)' \subseteq AcceptFds(v)
    <2>1. CASE UNCHANGED agenda
      BY <2>1 DEF OneHolder, AcceptFds
    <2> QED
      BY <2>1, DoneAccepts DEF Quiet
  <1>2. /\ \A v \in Workers : FdsOnce(pending'[v]) /\ PendingFds(v)' = PendingFds(v)
        /\ HandshakeFds' = HandshakeFds /\ SessionFds' \subseteq SessionFds
        /\ handshakes' = handshakes /\ sessions' \subseteq sessions
    BY DEF Quiet, OneHolder, PendingFds, HandshakeFds, SessionFds
  <1> QED
    BY <1>1, <1>2 DEF OneHolder, Waiting

LEMMA HolderForward ==
    ASSUME TypeOK, OneHolder, NEW fd \in Fds, NEW d \in Devices, ForwardConnection(fd, d)
    PROVE  OneHolder' /\ Waiting' = Waiting \cup {fd} /\ fd \notin Waiting
  <1>1. PICK w \in Workers :
          pending' = [pending EXCEPT ![w] = Append(@, [fd |-> fd, device |-> d])]
    BY RoundRobin DEF ForwardConnection
  <1>2. fd \notin SessionFds \cup HandshakeFds
                  \cup UNION {PendingFds(v) \cup AcceptFds(v) : v \in Workers}
    BY OpenFdsAre DEF ForwardConnection
  <1>3. /\ FdsOnce(pending'[w]) /\ PendingFds(w)' = PendingFds(w) \cup {fd}
        /\ \A v \in Workers \ {w} : FdsOnce(pending'[v]) /\ PendingFds(v)' = PendingFds(v)
    <2>1. pending \in [Workers -> Seq(Connection)]
      BY DEF TypeOK
    <2>2. /\ pending'[w] = Append(pending[w], [fd |-> fd, device |-> d])
          /\ \A v \in Workers \ {w} : pending'[v] = pending[v]
      BY <1>1, <2>1
    <2>3. [fd |-> fd, device |-> d] \in Connection /\ [fd |-> fd, device |-> d].fd = fd
      BY DEF Connection
    <2>4. FdsOnce(pending[w]) /\ fd \notin FdsIn(pending[w]) /\ pending[w] \in Seq(Connection)
      BY <1>2, <2>1 DEF OneHolder, PendingFds
    <2>5. /\ FdsOnce(pending'[w])
          /\ FdsIn(pending'[w]) = FdsIn(pending[w]) \cup {fd}
      BY <2>2, <2>3, <2>4, AppendFacts
    <2> QED
      BY <2>2, <2>5 DEF OneHolder, PendingFds
  <1>4. /\ \A v \in Workers : agenda'[v] = agenda[v] /\ AcceptFds(v)' = AcceptFds(v)
        /\ HandshakeFds' = HandshakeFds /\ SessionFds' = SessionFds
        /\ handshakes' = handshakes /\ sessions' = sessions
    BY DEF ForwardConnection, workerVars, AcceptFds, HandshakeFds, SessionFds
  <1>5. OneHolder'
    BY <1>2, <1>3, <1>4 DEF OneHolder
  <1> QED
    BY <1>2, <1>3, <1>4, <1>5 DEF Waiting

LEMMA HolderEpollWait ==
    ASSUME TypeOK, OneHolder, NEW w \in Workers, EpollWait(w)
    PROVE  OneHolder' /\ Waiting' \subseteq Waiting
  <1>1. PICK q \in Seq(Event) : agenda' = [agenda EXCEPT ![w] = q]
    BY EventList
  <1>2. /\ agenda'[w] = q /\ \A v \in Workers \ {w} : agenda'[v] = agenda[v]
    BY <1>1 DEF TypeOK
  <1>3. \A v \in Workers : AcceptsOnce(agenda'[v]) /\ AcceptFds(v)' \subseteq AcceptFds(v)
    BY <1>2, EventsAsAgenda DEF OneHolder, AcceptFds
  <1>4. UNCHANGED <<pending, handshakes, sessions>>
    BY DEF EpollWait, workerVars
  <1>5. /\ \A v \in Workers : FdsOnce(pending'[v]) /\ PendingFds(v)' = PendingFds(v)
        /\ HandshakeFds' = HandshakeFds /\ SessionFds' = SessionFds
    BY <1>4 DEF OneHolder, PendingFds, HandshakeFds, SessionFds
  <1> QED
    BY <1>3, <1>4, <1>5 DEF OneHolder, Waiting

\* The pending connections of a worker become accept items.
LEMMA HolderWakeup ==
    ASSUME TypeOK, OneHolder, NEW w \in Workers, HandleWakeup(w)
    PROVE  OneHolder' /\ Waiting' \subseteq Waiting
  <1> DEFINE q == [i \in DOMAIN pending[w] |->
                     [kind |-> "accept", fd |-> pending[w][i].fd,
                      device |-> pending[w][i].device]]
             t == Tail(agenda[w])
  <1>1. pending[w] \in Seq(Connection) /\ agenda[w] \in Seq(Item) /\ agenda[w] # <<>>
    BY DEF TypeOK, HandleWakeup, At
  <1>2. /\ q \in Seq(Item) /\ AcceptsIn(q) = PendingFds(w) /\ AcceptsOnce(q)
    BY <1>1, ConnectionsAsAgenda DEF OneHolder, PendingFds
  <1>3. /\ t \in Seq(Item) /\ AcceptsIn(t) \subseteq AcceptFds(w) /\ AcceptsOnce(t)
    BY <1>1, HeadAndTail, TailFacts DEF OneHolder, AcceptFds
  <1>4. /\ agenda'[w] = q \o t /\ pending'[w] = <<>>
        /\ \A v \in Workers \ {w} : agenda'[v] = agenda[v] /\ pending'[v] = pending[v]
    BY DEF HandleWakeup, TypeOK
  <1> HIDE DEF q, t
  <1>5. /\ AcceptsOnce(agenda'[w])
        /\ AcceptFds(w)' \subseteq PendingFds(w) \cup AcceptFds(w)
    <2>1. AcceptsIn(q) \cap AcceptsIn(t) = {}
      BY <1>2, <1>3 DEF OneHolder
    <2> QED
      BY <1>2, <1>3, <1>4, <2>1, ConcatFacts DEF AcceptFds
  <1>6. FdsOnce(pending'[w]) /\ PendingFds(w)' = {}
    BY <1>4, EmptyFacts DEF PendingFds
  <1>7. \A v \in Workers \ {w} :
          /\ FdsOnce(pending'[v]) /\ PendingFds(v)' = PendingFds(v)
          /\ AcceptsOnce(agenda'[v]) /\ AcceptFds(v)' = AcceptFds(v)
    BY <1>4 DEF OneHolder, PendingFds, AcceptFds
  <1>8. /\ handshakes' = handshakes /\ sessions' = sessions
        /\ HandshakeFds' = HandshakeFds /\ SessionFds' = SessionFds
    BY DEF HandleWakeup, workerVars, HandshakeFds, SessionFds
  <1>9. OneHolder'
    BY <1>5, <1>6, <1>7, <1>8 DEF OneHolder
  <1> QED
    BY <1>5, <1>6, <1>7, <1>8, <1>9 DEF Waiting

LEMMA HolderTask ==
    ASSUME TypeOK, OneHolder, NEW w \in Workers, HandleTask(w)
    PROVE  OneHolder' /\ Waiting' \subseteq Waiting
  <1> DEFINE t == Tail(agenda[w])
  <1>1. tasks[w] \in Seq(Task) /\ agenda[w] \in Seq(Item) /\ agenda[w] # <<>>
    BY DEF TypeOK, HandleTask, At
  <1>2. tasks[w] \in Seq(Item) /\ AcceptsIn(tasks[w]) = {} /\ AcceptsOnce(tasks[w])
    BY <1>1, TasksAsAgenda
  <1>3. /\ t \in Seq(Item) /\ AcceptsIn(t) \subseteq AcceptFds(w) /\ AcceptsOnce(t)
    BY <1>1, HeadAndTail, TailFacts DEF OneHolder, AcceptFds
  <1>4. /\ agenda'[w] = tasks[w] \o t
        /\ \A v \in Workers \ {w} : agenda'[v] = agenda[v]
    BY DEF HandleTask, TypeOK
  <1> HIDE DEF t
  <1>5. \A v \in Workers : AcceptsOnce(agenda'[v]) /\ AcceptFds(v)' \subseteq AcceptFds(v)
    <2>1. AcceptsOnce(tasks[w] \o t) /\ AcceptsIn(tasks[w] \o t) = AcceptsIn(t)
      <3>1. PICK p : p = tasks[w]
        OBVIOUS
      <3>2. p \in Seq(Item) /\ AcceptsIn(p) = {} /\ AcceptsOnce(p)
        BY <1>2, <3>1
      <3>3. AcceptsIn(p) \cap AcceptsIn(t) = {}
        BY <3>2
      <3>4. p \in Seq(Item) /\ AcceptsOnce(p) /\ t \in Seq(Item) /\ AcceptsOnce(t)
        BY <1>3, <3>2
      <3>5. AcceptsIn(p \o t) = AcceptsIn(p) \cup AcceptsIn(t) /\ AcceptsOnce(p \o t)
        BY <3>3, <3>4, ConcatFacts
      <3> QED
        BY <3>1, <3>2, <3>5
    <2> QED
      BY <1>3, <1>4, <2>1 DEF OneHolder, AcceptFds
  <1>6. UNCHANGED <<pending, handshakes, sessions>>
    BY DEF HandleTask, workerVars
  <1>7. /\ \A v \in Workers : FdsOnce(pending'[v]) /\ PendingFds(v)' = PendingFds(v)
        /\ HandshakeFds' = HandshakeFds /\ SessionFds' = SessionFds
    BY <1>6 DEF OneHolder, PendingFds, HandshakeFds, SessionFds
  <1> QED
    BY <1>5, <1>6, <1>7 DEF OneHolder, Waiting

LEMMA HolderVerify ==
    ASSUME TypeOK, OneHolder, NEW w \in Workers, VerifyIdentity(w)
    PROVE  OneHolder' /\ Waiting' \subseteq Waiting
  <1> DEFINE fd == Head(agenda[w]).fd
  <1>1. agenda[w] # <<>> /\ Head(agenda[w]).kind = "accept" /\ Done(w)
    BY DEF VerifyIdentity, At
  <1>2. /\ \A v \in Workers : AcceptsOnce(agenda'[v]) /\ AcceptFds(v)' \subseteq AcceptFds(v)
        /\ fd \in AcceptFds(w) /\ fd \notin AcceptFds(w)'
    BY <1>1, DoneAccepts
  <1>3. PICK h : /\ h.fd = fd
                 /\ handshakes' = handshakes \cup {h}
    BY DEF VerifyIdentity
  <1>4. UNCHANGED <<pending, sessions>>
    BY DEF VerifyIdentity, workerVars
  <1> HIDE DEF fd
  <1>5. /\ \A v \in Workers : FdsOnce(pending'[v]) /\ PendingFds(v)' = PendingFds(v)
        /\ HandshakeFds' = HandshakeFds \cup {fd} /\ SessionFds' = SessionFds
    BY <1>3, <1>4 DEF OneHolder, PendingFds, HandshakeFds, SessionFds
  <1>6. fd \notin HandshakeFds \cup SessionFds
    BY <1>2 DEF OneHolder
  <1>7. \A g, k \in handshakes' : g.fd = k.fd => g = k
    BY <1>3, <1>6 DEF OneHolder, HandshakeFds
  <1>8. /\ \A v \in Workers : fd \notin PendingFds(v)
        /\ \A v \in Workers : fd \notin AcceptFds(v)'
    BY <1>2 DEF OneHolder
  <1>9. OneHolder'
    BY <1>2, <1>4, <1>5, <1>6, <1>7, <1>8 DEF OneHolder
  <1> QED
    BY <1>2, <1>5, <1>9 DEF Waiting

\* A handshake ends, and its descriptor is a session's or nobody's.
LEMMA HolderHandshake ==
    ASSUME TypeOK, OneHolder, NEW w \in Workers, RegisterSession(w) \/ AbandonHandshake(w)
    PROVE  OneHolder' /\ \E fd \in Waiting : Waiting' \subseteq Waiting \ {fd}
  <1>1. PICK h \in handshakes :
          /\ handshakes' = handshakes \ {h}
          /\ \/ UNCHANGED sessions
             \/ \E s : s.fd = h.fd /\ sessions' = sessions \cup {s}
    BY DEF RegisterSession, AbandonHandshake, workerVars
  <1>2. UNCHANGED <<pending, agenda>>
    BY DEF RegisterSession, AbandonHandshake
  <1>3. \A v \in Workers :
          /\ FdsOnce(pending'[v]) /\ PendingFds(v)' = PendingFds(v)
          /\ AcceptsOnce(agenda'[v]) /\ AcceptFds(v)' = AcceptFds(v)
          /\ h.fd \notin PendingFds(v) \cup AcceptFds(v)
    BY <1>2 DEF OneHolder, PendingFds, AcceptFds, HandshakeFds
  <1>4. HandshakeFds' = HandshakeFds \ {h.fd} /\ h.fd \in HandshakeFds
    BY <1>1 DEF OneHolder, HandshakeFds
  <1>5. SessionFds' \subseteq SessionFds \cup {h.fd} /\ h.fd \notin SessionFds
    BY <1>1 DEF OneHolder, HandshakeFds, SessionFds
  <1>6. \A s, t \in sessions' : s.fd = t.fd => s = t
    BY <1>1, <1>5 DEF OneHolder, SessionFds
  <1>7. OneHolder'
    BY <1>1, <1>3, <1>4, <1>5, <1>6 DEF OneHolder
  <1>8. h.fd \in Waiting /\ Waiting' \subseteq Waiting \ {h.fd}
    BY <1>3, <1>4 DEF Waiting
  <1> QED
    BY <1>7, <1>8

LEMMA OneHolderKept ==
    ASSUME TypeOK, OneHolder, Next
    PROVE  OneHolder'
  BY NextSteps, QuietSteps, HolderQuiet, HolderForward, HolderEpollWait, HolderWakeup,
     HolderTask, HolderVerify, HolderHandshake

-----------------------------------------------------------------------------
(* Session ids *)

\* Who draws session ids and who accepts connections.
LEMMA CounterSteps ==
    ASSUME TypeOK, OneHolder, Next
    PROVE  \/ /\ UNCHANGED <<accepted, nextSessionId>>
              /\ Waiting' \subseteq Waiting
           \/ \E fd \in Fds : /\ accepted < MaxAccepts /\ accepted' = accepted + 1
                              /\ UNCHANGED nextSessionId
                              /\ Waiting' = Waiting \cup {fd} /\ fd \notin Waiting
           \/ /\ UNCHANGED accepted
              /\ nextSessionId' \in {nextSessionId, nextSessionId + 1}
              /\ \E fd \in Waiting : Waiting' \subseteq Waiting \ {fd}
  <1>1. CASE Quiet
    BY <1>1, HolderQuiet DEF Quiet
  <1>2. ASSUME NEW fd \in Fds, NEW d \in Devices, ForwardConnection(fd, d)
        PROVE  /\ accepted < MaxAccepts /\ accepted' = accepted + 1
               /\ UNCHANGED nextSessionId
               /\ Waiting' = Waiting \cup {fd} /\ fd \notin Waiting
    BY <1>2, HolderForward DEF ForwardConnection
  <1>3. ASSUME NEW w \in Workers,
               EpollWait(w) \/ HandleWakeup(w) \/ HandleTask(w) \/ VerifyIdentity(w)
        PROVE  UNCHANGED <<accepted, nextSessionId>> /\ Waiting' \subseteq Waiting
    <2>1. UNCHANGED <<accepted, nextSessionId>>
      BY <1>3 DEF EpollWait, HandleWakeup, HandleTask, VerifyIdentity
    <2> QED
      BY <1>3, <2>1, HolderEpollWait, HolderWakeup, HolderTask, HolderVerify
  <1>4. ASSUME NEW w \in Workers, RegisterSession(w) \/ AbandonHandshake(w)
        PROVE  /\ UNCHANGED accepted
               /\ nextSessionId' \in {nextSessionId, nextSessionId + 1}
               /\ \E fd \in Waiting : Waiting' \subseteq Waiting \ {fd}
    <2>1. UNCHANGED accepted /\ nextSessionId' \in {nextSessionId, nextSessionId + 1}
      BY <1>4 DEF RegisterSession, AbandonHandshake
    <2> QED
      BY <1>4, <2>1, HolderHandshake
  <1> QED
    BY <1>1, <1>2, <1>3, <1>4, NextSteps, QuietSteps

LEMMA CountedKept ==
    ASSUME TypeOK, OneHolder, Counted, Next
    PROVE  /\ Counted'
           /\ accepted' \in 0 .. MaxAccepts
           /\ nextSessionId' \in 1 .. MaxAccepts + 1
  <1>0. /\ accepted \in Nat /\ nextSessionId \in Nat /\ nextSessionId >= 1
        /\ accepted <= MaxAccepts /\ MaxAccepts \in Nat
        /\ IsFiniteSet(Waiting) /\ Cardinality(Waiting) \in Nat
        /\ nextSessionId + Cardinality(Waiting) <= accepted + 1
    BY SizeAssumption, FS_CardinalityType DEF TypeOK, Counted
  <1>1. CASE UNCHANGED <<accepted, nextSessionId>> /\ Waiting' \subseteq Waiting
    <2>1. /\ IsFiniteSet(Waiting') /\ Cardinality(Waiting') <= Cardinality(Waiting)
          /\ Cardinality(Waiting') \in Nat
      BY <1>0, <1>1, FS_Subset, FS_CardinalityType
    <2> QED
      BY <1>0, <1>1, <2>1 DEF Counted
  <1>2. ASSUME NEW fd \in Fds, accepted < MaxAccepts, accepted' = accepted + 1,
               UNCHANGED nextSessionId, Waiting' = Waiting \cup {fd}, fd \notin Waiting
        PROVE  /\ Counted' /\ accepted' \in 0 .. MaxAccepts
               /\ nextSessionId' \in 1 .. MaxAccepts + 1
    <2>1. IsFiniteSet(Waiting') /\ Cardinality(Waiting') = Cardinality(Waiting) + 1
      BY <1>0, <1>2, FS_AddElement
    <2> QED
      BY <1>0, <1>2, <2>1 DEF Counted
  <1>3. ASSUME UNCHANGED accepted, nextSessionId' \in {nextSessionId, nextSessionId + 1},
               NEW fd \in Waiting, Waiting' \subseteq Waiting \ {fd}
        PROVE  /\ Counted' /\ accepted' \in 0 .. MaxAccepts
               /\ nextSessionId' \in 1 .. MaxAccepts + 1
    <2>1. /\ IsFiniteSet(Waiting \ {fd})
          /\ Cardinality(Waiting \ {fd}) = Cardinality(Waiting) - 1
      BY <1>0, <1>3, FS_RemoveElement
    <2>2. /\ IsFiniteSet(Waiting') /\ Cardinality(Waiting') \in Nat
          /\ Cardinality(Waiting') <= Cardinality(Waiting \ {fd})
      BY <1>3, <2>1, FS_Subset, FS_CardinalityType
    <2>3. nextSessionId' + Cardinality(Waiting') <= accepted' + 1
      BY <1>0, <1>3, <2>1, <2>2
    <2> QED
      BY <1>0, <1>3, <2>2, <2>3 DEF Counted
  <1> QED
    BY <1>1, <1>2, <1>3, CounterSteps

\* Sessions are only added by RegisterSession, with the next id.
LEMMA SessionSteps ==
    ASSUME TypeOK, Next
    PROVE  \/ /\ sessions' \subseteq sessions
              /\ nextSessionId' \in {nextSessionId, nextSessionId + 1}
           \/ \E w \in Workers, h \in handshakes :
                /\ h.worker = w /\ RegisterSession(w)
                /\ nextSessionId' = nextSessionId + 1
                /\ sessions' = sessions \cup {[worker |-> w, fd |-> h.fd,
                                  sid |-> nextSessionId, device |-> h.device]}
                /\ index' = {e \in index : e.device # h.device} \cup
                               {[worker |-> w, fd |-> h.fd,
                                 sid |-> nextSessionId, device |-> h.device]}
                /\ handshakes' = handshakes \ {h}
  <1>1. CASE Quiet
    BY <1>1 DEF Quiet
  <1>2. ASSUME NEW fd \in Fds, NEW d \in Devices, ForwardConnection(fd, d)
        PROVE  UNCHANGED <<sessions, nextSessionId>>
    BY <1>2 DEF ForwardConnection, workerVars
  <1>3. ASSUME NEW w \in Workers,
               EpollWait(w) \/ HandleWakeup(w) \/ HandleTask(w) \/ VerifyIdentity(w)
        PROVE  UNCHANGED <<sessions, nextSessionId>>
    BY <1>3 DEF EpollWait, HandleWakeup, HandleTask, VerifyIdentity, workerVars
  <1>4. ASSUME NEW w \in Workers, AbandonHandshake(w)
        PROVE  UNCHANGED sessions /\ nextSessionId' \in {nextSessionId, nextSessionId + 1}
    BY <1>4 DEF AbandonHandshake, workerVars
  <1>5. ASSUME NEW w \in Workers, RegisterSession(w)
        PROVE  \E h \in handshakes :
                /\ h.worker = w
                /\ nextSessionId' = nextSessionId + 1
                /\ sessions' = sessions \cup {[worker |-> w, fd |-> h.fd,
                                  sid |-> nextSessionId, device |-> h.device]}
                /\ index' = {e \in index : e.device # h.device} \cup
                               {[worker |-> w, fd |-> h.fd,
                                 sid |-> nextSessionId, device |-> h.device]}
                /\ handshakes' = handshakes \ {h}
    BY <1>5 DEF RegisterSession
  <1> QED
    BY <1>1, <1>2, <1>3, <1>4, <1>5, NextSteps, QuietSteps

LEMMA SidsKept ==
    ASSUME TypeOK, Sids, Next
    PROVE  Sids'
  <1>0. nextSessionId \in Nat /\ \A s \in sessions : s.sid \in Nat
    BY SizeAssumption DEF TypeOK, Session, SessionIds
  <1>1. CASE sessions' \subseteq sessions /\ nextSessionId' \in {nextSessionId, nextSessionId + 1}
    BY <1>0, <1>1 DEF Sids
  <1>2. ASSUME NEW s, s.sid = nextSessionId, nextSessionId' = nextSessionId + 1,
               sessions' = sessions \cup {s}
        PROVE  Sids'
    BY <1>0, <1>2 DEF Sids
  <1>3. ASSUME NEW w \in Workers, NEW h \in handshakes, nextSessionId' = nextSessionId + 1,
               sessions' = sessions \cup {[worker |-> w, fd |-> h.fd,
                                  sid |-> nextSessionId, device |-> h.device]}
        PROVE  Sids'
    BY <1>2, <1>3
  <1> QED
    BY <1>1, <1>3, SessionSteps

-----------------------------------------------------------------------------
(* What is queued *)

\* A handler is the one for the kind of the first item.
LEMMA RevokeHandler ==
    ASSUME NEW w \in Workers, Handler(w)
    PROVE  RunRevoke(w) <=> Head(agenda[w]).kind = "revoke"
  BY DEF Handler, RejectHandshake, ReadNothing, ReadMessage, ReadControl, ReadEnds,
         HandleWritable, HandleHangup, HandlePeerShutdown, HandleTimer, RunRevoke,
         RunDelivery, DropDelivery, RunSync, At

\* What each step appends to the queues of tasks.
LEMMA TaskSteps ==
    ASSUME TypeOK, Replies, Next
    PROVE  \/ UNCHANGED tasks
           \/ \E v \in Workers, x \in Task :
                /\ tasks' = [tasks EXCEPT ![v] = Append(@, x)]
                /\ x.kind # "revoke"
                /\ x.kind = "push" \/ \E m \in inflight : x = m.task
                /\ OtherThread \/ \E w \in Workers : Handler(w)
                /\ UNCHANGED request
           \/ \E w \in Workers : HandleTask(w)
           \/ \E r \in Revokes : CloseSession(r)
  <1>1. ASSUME NEW w \in Workers, RunSync(w), tasks' # tasks
        PROVE  \E v \in Workers, x \in Task :
                /\ tasks' = [tasks EXCEPT ![v] = Append(@, x)]
                /\ x.kind = "push"
                /\ UNCHANGED request
    <2>1. PICK e \in index :
             tasks' = [tasks EXCEPT ![e.worker] =
                    Append(@, [kind |-> "push", fd |-> e.fd, sid |-> e.sid,
                               device |-> e.device])]
      BY <1>1 DEF RunSync
    <2>2. /\ e.worker \in Workers
          /\ [kind |-> "push", fd |-> e.fd, sid |-> e.sid, device |-> e.device] \in Task
      BY DEF TypeOK, Session, Task
    <2>3. PICK x : x = [kind |-> "push", fd |-> e.fd, sid |-> e.sid, device |-> e.device]
      OBVIOUS
    <2>4. x \in Task /\ x.kind = "push" /\ tasks' = [tasks EXCEPT ![e.worker] = Append(@, x)]
      BY <2>1, <2>2, <2>3
    <2>5. UNCHANGED request
      BY <1>1 DEF RunSync, requestVars
    <2> QED
      BY <2>2, <2>4, <2>5
  <1>2. ASSUME BusinessReply
        PROVE  \E v \in Workers, x \in Task :
                /\ tasks' = [tasks EXCEPT ![v] = Append(@, x)]
                /\ x.kind # "revoke" /\ \E m \in inflight : x = m.task
                /\ UNCHANGED request
    <2>1. PICK m \in inflight : tasks' = [tasks EXCEPT ![m.worker] = Append(@, m.task)]
      BY <1>2 DEF BusinessReply
    <2>2. m.worker \in Workers /\ m.task \in Task /\ m.task.kind # "revoke"
      BY DEF TypeOK, Replies
    <2>3. UNCHANGED request
      BY <1>2 DEF BusinessReply, requestVars
    <2> QED
      BY <2>1, <2>2, <2>3
  <1>3. ASSUME NEW w \in Workers, Handler(w), ~RunSync(w)
        PROVE  UNCHANGED tasks
    BY <1>3 DEF Handler, RejectHandshake, ReadNothing, ReadMessage,
       ReadControl, ReadEnds, HandleWritable, HandleHangup, HandlePeerShutdown,
       HandleTimer, RunRevoke, RunDelivery, DropDelivery
  <1>4. ASSUME NEW r \in Revokes, Request(r), ~CloseSession(r)
        PROVE  UNCHANGED tasks
    BY <1>4 DEF Request, RevokeCommit, Confirm, GiveUp
  <1>5. ASSUME NEW fd \in Fds, NEW d \in Devices, ForwardConnection(fd, d)
        PROVE  UNCHANGED tasks
    BY <1>5 DEF ForwardConnection
  <1>6. ASSUME NEW w \in Workers, EpollWait(w) \/ HandleWakeup(w) \/ VerifyIdentity(w)
                                  \/ RegisterSession(w) \/ AbandonHandshake(w)
        PROVE  UNCHANGED tasks
    BY <1>6 DEF EpollWait, HandleWakeup, VerifyIdentity, RegisterSession, AbandonHandshake
  <1>7. CASE OtherThread
    BY <1>2, <1>4, <1>7 DEF OtherThread
  <1>8. ASSUME NEW w \in Workers, Handler(w)
        PROVE  \/ UNCHANGED tasks
               \/ \E v \in Workers, x \in Task :
                    /\ tasks' = [tasks EXCEPT ![v] = Append(@, x)]
                    /\ x.kind = "push" /\ UNCHANGED request
    BY <1>1, <1>3, <1>8
  <1> QED
    BY <1>5, <1>6, <1>7, <1>8, NextSteps

\* What each step does to an agenda.
LEMMA AgendaSteps ==
    ASSUME TypeOK, OneHolder, Next, NEW v \in Workers
    PROVE  \/ agenda'[v] = agenda[v]
           \/ \E q \in Seq(Event) : agenda[v] = <<>> /\ agenda'[v] = q /\ EpollWait(v)
           \/ \E p \in Seq(Item) :
                /\ agenda[v] # <<>> /\ Head(agenda[v]).kind # "revoke"
                /\ HandleWakeup(v) \/ HandleTask(v)
                /\ agenda'[v] = p \o Tail(agenda[v])
                /\ \/ p = tasks[v] /\ tasks'[v] = <<>>
                   \/ /\ \A x \in Elems(p) : x.kind \notin {"reply", "revoke"}
                      /\ UNCHANGED tasks
           \/ /\ agenda[v] # <<>> /\ agenda'[v] = Tail(agenda[v])
              /\ RunRevoke(v) <=> Head(agenda[v]).kind = "revoke"
  <1>0. /\ agenda \in [Workers -> Seq(Item)] /\ tasks \in [Workers -> Seq(Task)]
        /\ pending \in [Workers -> Seq(Connection)]
    BY DEF TypeOK
  <1>1. ASSUME NEW w \in Workers, EpollWait(w), agenda'[v] # agenda[v]
        PROVE  \E q \in Seq(Event) : agenda[v] = <<>> /\ agenda'[v] = q /\ EpollWait(v)
    <2>1. PICK q \in Seq(Event) : agenda' = [agenda EXCEPT ![w] = q]
      BY <1>1, EventList
    <2>2. w = v /\ agenda'[v] = q
      BY <1>0, <1>1, <2>1
    <2>3. agenda[v] = <<>>
      BY <1>1, <2>2 DEF EpollWait
    <2> QED
      BY <1>1, <2>2, <2>3
  <1>2. ASSUME NEW w \in Workers, HandleWakeup(w), agenda'[v] # agenda[v]
        PROVE  \E p \in Seq(Item) :
                /\ agenda[v] # <<>> /\ Head(agenda[v]).kind # "revoke"
                /\ HandleWakeup(v) \/ HandleTask(v)
                /\ agenda'[v] = p \o Tail(agenda[v])
                /\ \A x \in Elems(p) : x.kind \notin {"reply", "revoke"}
                /\ UNCHANGED tasks
    <2>1. w = v
      BY <1>0, <1>2 DEF HandleWakeup
    <2>2. PICK p : p = [i \in DOMAIN pending[v] |->
                     [kind |-> "accept", fd |-> pending[v][i].fd,
                      device |-> pending[v][i].device]]
      OBVIOUS
    <2>3. p \in Seq(Item) /\ \A x \in Elems(p) : x.kind \notin {"reply", "revoke"}
      BY <1>0, <2>2, ConnectionsAsAgenda
    <2>4. agenda'[v] = p \o Tail(agenda[v])
      BY <1>0, <1>2, <2>1, <2>2 DEF HandleWakeup
    <2>5. /\ agenda[v] # <<>> /\ Head(agenda[v]).kind # "revoke" /\ UNCHANGED tasks
      BY <1>2, <2>1 DEF HandleWakeup, At
    <2> QED
      BY <1>2, <2>1, <2>3, <2>4, <2>5
  <1>3. ASSUME NEW w \in Workers, HandleTask(w), agenda'[v] # agenda[v]
        PROVE  /\ agenda[v] # <<>> /\ Head(agenda[v]).kind # "revoke"
               /\ HandleTask(v)
               /\ agenda'[v] = tasks[v] \o Tail(agenda[v])
               /\ tasks[v] \in Seq(Item) /\ tasks'[v] = <<>>
    <2>1. w = v
      BY <1>0, <1>3 DEF HandleTask
    <2>2. tasks[v] \in Seq(Item)
      BY <1>0, TasksAsAgenda
    <2> QED
      BY <1>0, <1>3, <2>1, <2>2 DEF HandleTask, At
  <1>4. ASSUME NEW w \in Workers, VerifyIdentity(w), agenda'[v] # agenda[v]
        PROVE  /\ agenda[v] # <<>> /\ agenda'[v] = Tail(agenda[v])
               /\ RunRevoke(v) <=> Head(agenda[v]).kind = "revoke"
    BY <1>0, <1>4 DEF VerifyIdentity, Done, At, RunRevoke
  <1>5. ASSUME NEW w \in Workers, Handler(w), agenda'[v] # agenda[v]
        PROVE  /\ agenda[v] # <<>> /\ agenda'[v] = Tail(agenda[v])
               /\ RunRevoke(v) <=> Head(agenda[v]).kind = "revoke"
    <2>1. w = v /\ agenda[v] # <<>> /\ agenda'[v] = Tail(agenda[v])
      BY <1>0, <1>5, HandlerFrame DEF Done
    <2> QED
      BY <1>5, <2>1, RevokeHandler
  <1>6. ASSUME NEW w \in Workers, RegisterSession(w) \/ AbandonHandshake(w)
        PROVE  UNCHANGED agenda
    BY <1>6 DEF RegisterSession, AbandonHandshake
  <1>7. ASSUME NEW fd \in Fds, NEW d \in Devices, ForwardConnection(fd, d)
        PROVE  UNCHANGED agenda
    BY <1>7 DEF ForwardConnection
  <1>8. OtherThread => UNCHANGED agenda
    BY OtherThreadFrame
  <1> QED
    BY <1>1, <1>2, <1>3, <1>4, <1>5, <1>6, <1>7, <1>8, NextSteps

\* A reply, a push or a closure at a worker was there before, or comes from a business
\* thread, from push_To_Device or from CloseSession.
LEMMA NewItems ==
    ASSUME TypeOK, OneHolder, Replies, Next, NEW v \in Workers,
           NEW t \in Elems(tasks'[v]) \cup Elems(agenda'[v])
    PROVE  \/ t \in Elems(tasks[v]) \cup Elems(agenda[v])
           \/ t.kind # "reply"
           \/ \E m \in inflight : t = m.task
  <1>0. agenda[v] \in Seq(Item) /\ tasks[v] \in Seq(Task) /\ tasks \in [Workers -> Seq(Task)]
    BY DEF TypeOK
  <1>1. ASSUME t \in Elems(tasks'[v]), t \notin Elems(tasks[v])
        PROVE  t.kind # "reply" \/ \E m \in inflight : t = m.task
    <2>1. ASSUME NEW u \in Workers, NEW x \in Task,
                 tasks' = [tasks EXCEPT ![u] = Append(@, x)]
          PROVE  t = x
      <3>1. u = v /\ tasks'[v] = Append(tasks[v], x)
        BY <1>0, <1>1, <2>1
      <3> QED
        BY <1>0, <1>1, <3>1, AppendFacts
    <2>2. ASSUME NEW u \in Workers, HandleTask(u)
          PROVE  FALSE
      BY <1>0, <1>1, <2>2, EmptyFacts DEF HandleTask
    <2>3. ASSUME NEW r \in Revokes, CloseSession(r)
          PROVE  t.kind # "reply"
      <3>1. tasks'[v] = Append(tasks[v], Revocation(r)) /\ Revocation(r) \in Task
        BY <1>0, <2>3 DEF CloseSession, Revocation, Task
      <3>2. t = Revocation(r)
        BY <1>0, <1>1, <3>1, AppendFacts
      <3> QED
        BY <3>2, RevocationKind
    <2> QED
      BY <1>1, <2>1, <2>2, <2>3, TaskSteps
  <1>2. ASSUME t \in Elems(agenda'[v]), t \notin Elems(tasks[v]) \cup Elems(agenda[v])
        PROVE  t.kind # "reply"
    <2>1. ASSUME NEW q \in Seq(Event), agenda'[v] = q
          PROVE  t.kind # "reply"
      BY <1>2, <2>1, EventsAsAgenda
    <2>2. agenda[v] # <<>> => Elems(Tail(agenda[v])) \subseteq Elems(agenda[v])
                              /\ Tail(agenda[v]) \in Seq(Item)
      BY <1>0, TailFacts, HeadAndTail
    <2>3. ASSUME NEW p \in Seq(Item), agenda[v] # <<>>,
                 agenda'[v] = p \o Tail(agenda[v])
          PROVE  t \in Elems(p)
      <3>1. PICK q : q = Tail(agenda[v])
        OBVIOUS
      <3>2. q \in Seq(Item) /\ Elems(q) \subseteq Elems(agenda[v])
        BY <2>2, <2>3, <3>1
      <3>3. Elems(p \o q) = Elems(p) \cup Elems(q)
        BY <3>2, ConcatFacts
      <3> QED
        BY <1>2, <2>3, <3>1, <3>2, <3>3
    <2> QED
      BY <1>2, <2>1, <2>2, <2>3, AgendaSteps
  <1> QED
    BY <1>1, <1>2

LEMMA InflightSteps ==
    ASSUME TypeOK, Next
    PROVE  \/ inflight' \subseteq inflight
           \/ \E w \in Workers : ReadMessage(w)
  <1>1. ASSUME NEW fd \in Fds, NEW d \in Devices, ForwardConnection(fd, d)
        PROVE  UNCHANGED inflight
    BY <1>1 DEF ForwardConnection
  <1>2. ASSUME NEW w \in Workers, EpollWait(w) \/ HandleWakeup(w) \/ HandleTask(w)
                   \/ VerifyIdentity(w) \/ RegisterSession(w) \/ AbandonHandshake(w)
        PROVE  UNCHANGED inflight
    BY <1>2 DEF EpollWait, HandleWakeup, HandleTask, VerifyIdentity, RegisterSession,
                AbandonHandshake
  <1>3. ASSUME NEW w \in Workers, Handler(w), ~ReadMessage(w)
        PROVE  UNCHANGED inflight
    BY <1>3 DEF Handler, RejectHandshake, ReadNothing,
       ReadControl, ReadEnds, HandleWritable, HandleHangup, HandlePeerShutdown,
       HandleTimer, RunRevoke, RunDelivery, DropDelivery, RunSync
  <1>4. OtherThread => inflight' \subseteq inflight
    BY DEF OtherThread, BusinessReply, Request, RevokeCommit, CloseSession, Confirm, GiveUp
  <1> QED
    BY <1>1, <1>2, <1>3, <1>4, NextSteps

\* A message that is read names the one session of its descriptor.
LEMMA SessionFound ==
    ASSUME OneHolder, NEW s \in sessions
    PROVE  SessionAt(Key(s)) = s
  <1>1. \A t \in sessions : Key(t) = Key(s) => t = s
    BY DEF OneHolder, Key
  <1> QED
    BY <1>1 DEF SessionAt

LEMMA NewTask ==
    ASSUME TypeOK, OneHolder, Sids, NEW w \in Workers, ReadMessage(w)
    PROVE  \E t \in Task :
             /\ inflight' = inflight \cup {[worker |-> w, task |-> t]}
             /\ t.kind \in {"reply", "sync"} /\ ReplyOf(t)
             /\ UNCHANGED <<sessions, nextSessionId>>
  <1> DEFINE k == <<w, Head(agenda[w]).fd>>
             s == SessionAt(k)
             reply == [kind |-> "reply", fd |-> s.fd, sid |-> s.sid, device |-> s.device]
  <1>1. PICK x \in sessions : Key(x) = k
    BY DEF ReadMessage, LiveKeys
  <1>2. s = x
    BY <1>1, SessionFound
  <1>3. PICK t \in {reply} \cup {[kind |-> "sync", device |-> d] : d \in Devices} :
          inflight' = inflight \cup {[worker |-> w, task |-> t]}
    BY DEF ReadMessage
  <1>4. x \in Session
    BY DEF TypeOK
  <1> HIDE DEF s
  <1>5. reply \in Task /\ reply.kind = "reply" /\ ReplyOf(reply)
    BY <1>2, <1>4 DEF Sids, ReplyOf, Task, Session
  <1>6. ASSUME NEW d \in Devices
        PROVE  [kind |-> "sync", device |-> d] \in Task
               /\ ReplyOf([kind |-> "sync", device |-> d])
    BY DEF ReplyOf, Task
  <1>7. UNCHANGED <<sessions, nextSessionId>>
    BY DEF ReadMessage, workerVars
  <1> HIDE DEF reply
  <1>8. t \in Task /\ t.kind \in {"reply", "sync"} /\ ReplyOf(t)
    BY <1>3, <1>5, <1>6
  <1> QED
    BY <1>3, <1>7, <1>8

\* A session that is new has an id no reply carries.
LEMMA ReplyKept ==
    ASSUME TypeOK, Next, NEW t, ReplyOf(t), t.kind = "reply" => t.sid \in Nat
    PROVE  ReplyOf(t)'
  <1>0. nextSessionId \in Nat
    BY SizeAssumption DEF TypeOK
  <1>1. CASE sessions' \subseteq sessions /\ nextSessionId' \in {nextSessionId, nextSessionId + 1}
    BY <1>0, <1>1 DEF ReplyOf
  <1>2. ASSUME NEW s, s.sid = nextSessionId, nextSessionId' = nextSessionId + 1,
               sessions' = sessions \cup {s}
        PROVE  ReplyOf(t)'
    BY <1>0, <1>2 DEF ReplyOf
  <1>3. ASSUME NEW w \in Workers, NEW h \in handshakes, nextSessionId' = nextSessionId + 1,
               sessions' = sessions \cup {[worker |-> w, fd |-> h.fd,
                                  sid |-> nextSessionId, device |-> h.device]}
        PROVE  ReplyOf(t)'
    BY <1>2, <1>3
  <1> QED
    BY <1>1, <1>3, SessionSteps

LEMMA RepliesKept ==
    ASSUME TypeOK, OneHolder, Sids, Replies, Next
    PROVE  Replies' /\ inflight' \subseteq [worker : Workers, task : Task]
  <1>0. SessionIds \subseteq Nat
    BY SizeAssumption DEF SessionIds
  <1>1. ASSUME NEW m \in inflight
        PROVE  m.task.kind \in {"reply", "sync"} /\ ReplyOf(m.task)'
    <2>1. m.task \in Item /\ ReplyOf(m.task) /\ m.task.kind \in {"reply", "sync"}
      BY TaskKinds DEF TypeOK, Replies
    <2> QED
      BY <1>0, <2>1, Kinds, ReplyKept
  <1>2. /\ \A m \in inflight' : m.task.kind \in {"reply", "sync"} /\ ReplyOf(m.task)'
        /\ inflight' \subseteq [worker : Workers, task : Task]
    <2>1. CASE inflight' \subseteq inflight
      BY <1>1, <2>1 DEF TypeOK
    <2>2. ASSUME NEW w \in Workers, ReadMessage(w)
          PROVE  /\ \A m \in inflight' : m.task.kind \in {"reply", "sync"} /\ ReplyOf(m.task)'
                 /\ inflight' \subseteq [worker : Workers, task : Task]
      <3>1. PICK t \in Task :
             /\ inflight' = inflight \cup {[worker |-> w, task |-> t]}
             /\ t.kind \in {"reply", "sync"} /\ ReplyOf(t)
             /\ UNCHANGED <<sessions, nextSessionId>>
        BY <2>2, NewTask
      <3>2. ReplyOf(t)'
        BY <3>1 DEF ReplyOf
      <3> QED
        BY <1>1, <3>1, <3>2 DEF TypeOK
    <2> QED
      BY <2>1, <2>2, InflightSteps
  <1>3. ASSUME NEW v \in Workers, NEW t \in Elems(tasks'[v]) \cup Elems(agenda'[v])
        PROVE  ReplyOf(t)'
    <2>1. CASE t \in Elems(tasks[v]) \cup Elems(agenda[v])
      <3>1. t \in Item
        BY <2>1, TaskKinds DEF TypeOK, Elems
      <3> QED
        BY <1>0, <2>1, <3>1, Kinds, ReplyKept DEF Replies
    <2>2. CASE t.kind # "reply"
      BY <2>2 DEF ReplyOf
    <2> QED
      BY <1>1, <2>1, <2>2, NewItems
  <1> QED
    BY <1>2, <1>3 DEF Replies

-----------------------------------------------------------------------------
(* Revocations pass a worker once *)

\* Outstanding at a worker: queued or about to be run.
Outstanding(r, w) == Revocation(r) \in Elems(tasks[w]) \cup Elems(agenda[w])

LEMMA RequestSteps ==
    ASSUME TypeOK, Next, NEW r \in Revokes
    PROVE  /\ Broadcast(r)' <=> Broadcast(r) \/ CloseSession(r)
           /\ request'[r] = "confirmed" => request[r] = "confirmed" \/ Confirm(r)
           /\ request'[r] # "idle" => request[r] # "idle" \/ RevokeCommit(r)
           /\ UNCHANGED target /\ active' \subseteq active
           /\ RevokeCommit(r) => active' = active \ {target[r]}
           /\ ~(\E q \in Revokes : Request(q)) => UNCHANGED <<request, active>>
  <1> USE DEF Broadcast
  <1>1. ASSUME NEW q \in Revokes, Request(q)
        PROVE  /\ Broadcast(r)' <=> Broadcast(r) \/ CloseSession(r)
               /\ request'[r] = "confirmed" => request[r] = "confirmed" \/ Confirm(r)
               /\ request'[r] # "idle" => request[r] # "idle" \/ RevokeCommit(r)
               /\ UNCHANGED target /\ active' \subseteq active
               /\ RevokeCommit(r) => active' = active \ {target[r]}
    <2>0. request \in [Revokes -> {"idle", "committed", "waiting", "confirmed",
                                   "unconfirmed"}]
      BY DEF TypeOK
    <2>1. CASE q # r
      BY <1>1, <2>0, <2>1 DEF Request, RevokeCommit, CloseSession, Confirm, GiveUp
    <2>2. CASE q = r
      BY <1>1, <2>0, <2>2 DEF Request, RevokeCommit, CloseSession, Confirm, GiveUp
    <2> QED
      BY <2>1, <2>2
  <1>2. ASSUME ~(\E q \in Revokes : Request(q))
        PROVE  UNCHANGED <<request, active, target>>
    <2>1. ASSUME NEW fd \in Fds, NEW d \in Devices, ForwardConnection(fd, d)
          PROVE  UNCHANGED <<request, active, target>>
      BY <2>1 DEF ForwardConnection, requestVars
    <2>2. ASSUME NEW w \in Workers, EpollWait(w) \/ HandleWakeup(w) \/ HandleTask(w)
                     \/ VerifyIdentity(w) \/ RegisterSession(w) \/ AbandonHandshake(w)
          PROVE  UNCHANGED <<request, active, target>>
      BY <2>2 DEF EpollWait, HandleWakeup, HandleTask, VerifyIdentity, RegisterSession,
                  AbandonHandshake, requestVars
    <2>3. BusinessReply => UNCHANGED <<request, active, target>>
      BY DEF BusinessReply, requestVars
    <2> QED
      BY <1>2, <2>1, <2>2, <2>3, HandlerFrame, NextSteps DEF OtherThread
  <1>3. RevokeCommit(r) \/ CloseSession(r) => \E q \in Revokes : Request(q)
    BY DEF Request
  <1> QED
    BY <1>1, <1>2, <1>3

\* The worker is about to run the closure of r.
Running(r, w) == RunRevoke(w) /\ Head(agenda[w]) = Revocation(r)

\* The queues of one worker, by the kind of step.
LEMMA RevocationMoves ==
    ASSUME TypeOK, OneHolder, Replies, RevokeOnce, Next, NEW r \in Revokes, NEW v \in Workers
    PROVE  /\ Once(tasks'[v], Revocation(r)) /\ Once(agenda'[v], Revocation(r))
           /\ Revocation(r) \notin Elems(tasks'[v]) \cap Elems(agenda'[v])
           /\ Outstanding(r, v)' <=> \/ Outstanding(r, v) /\ ~Running(r, v)
                                     \/ CloseSession(r)
  <1> DEFINE x == Revocation(r)
  <1>0. /\ agenda \in [Workers -> Seq(Item)] /\ tasks \in [Workers -> Seq(Task)]
        /\ agenda[v] \in Seq(Item) /\ tasks[v] \in Seq(Task)
    BY DEF TypeOK
  <1>1. /\ Once(tasks[v], x) /\ Once(agenda[v], x)
        /\ ~(x \in Elems(tasks[v]) /\ x \in Elems(agenda[v]))
        /\ Outstanding(r, v) => Broadcast(r)
        /\ x.kind = "revoke"
    BY RevocationKind DEF RevokeOnce, Outstanding
  <1>2. CloseSession(r) => ~Outstanding(r, v) /\ ~Running(r, v)
    <2>1. CloseSession(r) => ~Broadcast(r)
      BY DEF CloseSession, Broadcast
    <2>2. Running(r, v) => Outstanding(r, v)
      BY <1>0, TailFacts DEF Running, Outstanding, RunRevoke, At
    <2> QED
      BY <1>1, <2>1, <2>2
  <1> HIDE DEF x
  <1>3. CASE Running(r, v)
    <2>1. agenda[v] # <<>> /\ agenda'[v] = Tail(agenda[v]) /\ UNCHANGED tasks
      BY <1>0, <1>3 DEF Running, RunRevoke, At, Done
    <2>2. Head(agenda[v]) = x
      BY <1>3 DEF Running, x
    <2>3. Once(agenda'[v], x) /\ x \notin Elems(agenda'[v]) /\ x \in Elems(agenda[v])
      BY <1>0, <1>1, <2>1, <2>2, TailFacts
    <2> QED
      BY <1>1, <1>2, <1>3, <2>1, <2>3 DEF Outstanding, x
  <1>4. ASSUME NEW w \in Workers, HandleTask(w)
        PROVE  /\ Once(tasks'[v], x) /\ Once(agenda'[v], x)
               /\ ~(x \in Elems(tasks'[v]) /\ x \in Elems(agenda'[v]))
               /\ Outstanding(r, v)' <=> Outstanding(r, v)
    <2>1. CASE w # v
      <3>1. tasks'[v] = tasks[v] /\ agenda'[v] = agenda[v]
        BY <1>0, <1>4, <2>1 DEF HandleTask
      <3> QED
        BY <1>1, <3>1 DEF Outstanding
    <2>2. CASE w = v
      <3>1. /\ tasks'[v] = <<>> /\ agenda'[v] = tasks[v] \o Tail(agenda[v])
            /\ agenda[v] # <<>> /\ Head(agenda[v]).kind = "task"
        BY <1>0, <1>4, <2>2 DEF HandleTask, At
      <3>2. Head(agenda[v]) # x
        BY <1>1, <3>1
      <3>3. /\ Tail(agenda[v]) \in Seq(Item) /\ Once(Tail(agenda[v]), x)
            /\ x \in Elems(Tail(agenda[v])) <=> x \in Elems(agenda[v])
        BY <1>0, <1>1, <3>1, <3>2, TailFacts, HeadAndTail
      <3>4. tasks[v] \in Seq(Item)
        BY <1>0, TasksAsAgenda
      <3>5. PICK p, q : p = tasks[v] /\ q = Tail(agenda[v])
        OBVIOUS
      <3>6. /\ p \in Seq(Item) /\ q \in Seq(Item) /\ Once(p, x) /\ Once(q, x)
            /\ x \notin Elems(p) \cap Elems(q)
        BY <1>1, <3>3, <3>4, <3>5
      <3>7. Once(p \o q, x) /\ Elems(p \o q) = Elems(p) \cup Elems(q)
        BY <3>6, ConcatFacts
      <3>8. Elems(tasks'[v]) = {} /\ Once(tasks'[v], x)
        BY <3>1, EmptyFacts
      <3> QED
        BY <3>1, <3>3, <3>5, <3>7, <3>8 DEF Outstanding, x
    <2> QED
      BY <2>1, <2>2
  <1>5. ASSUME NEW q \in Revokes, CloseSession(q)
        PROVE  /\ Once(tasks'[v], x) /\ Once(agenda'[v], x)
               /\ ~(x \in Elems(tasks'[v]) /\ x \in Elems(agenda'[v]))
               /\ Outstanding(r, v)' <=> Outstanding(r, v) \/ q = r
    <2>1. /\ tasks'[v] = Append(tasks[v], Revocation(q)) /\ Revocation(q) \in Task
          /\ agenda' = agenda
      BY <1>5 DEF CloseSession, Revocation, Task
    <2>2. q = r <=> Revocation(q) = x
      BY RevocationKind DEF x
    <2>3. q = r => ~Outstanding(r, v)
      BY <1>2, <1>5
    <2>4. x = Revocation(q) => x \notin Elems(tasks[v]) \cup Elems(agenda[v])
      BY <2>2, <2>3 DEF Outstanding, x
    <2>5. Once(tasks'[v], x) /\ Elems(tasks'[v]) = Elems(tasks[v]) \cup {Revocation(q)}
      BY <1>0, <1>1, <2>1, <2>4, AppendFacts
    <2> QED
      BY <1>1, <2>1, <2>2, <2>4, <2>5 DEF Outstanding, x
  <1>6. ASSUME ~Running(r, v), ~(\E w \in Workers : HandleTask(w)),
               ~(\E q \in Revokes : CloseSession(q))
        PROVE  /\ Once(tasks'[v], x) /\ Once(agenda'[v], x)
               /\ ~(x \in Elems(tasks'[v]) /\ x \in Elems(agenda'[v]))
               /\ Outstanding(r, v)' <=> Outstanding(r, v)
    <2>1. Once(tasks'[v], x) /\ (x \in Elems(tasks'[v]) <=> x \in Elems(tasks[v]))
      <3>1. CASE tasks'[v] = tasks[v]
        BY <1>1, <3>1
      <3>2. ASSUME NEW u \in Workers, NEW y \in Task,
                   tasks' = [tasks EXCEPT ![u] = Append(@, y)], y.kind # "revoke",
                   tasks'[v] # tasks[v]
            PROVE  Once(tasks'[v], x) /\ (x \in Elems(tasks'[v]) <=> x \in Elems(tasks[v]))
        <4>1. tasks'[v] = Append(tasks[v], y) /\ y # x
          BY <1>0, <1>1, <3>2
        <4> QED
          BY <1>0, <1>1, <4>1, AppendFacts
      <3> QED
        BY <1>6, <3>1, <3>2, TaskSteps
    <2>2. Once(agenda'[v], x) /\ (x \in Elems(agenda'[v]) <=> x \in Elems(agenda[v]))
      <3>1. CASE agenda'[v] = agenda[v]
        BY <1>1, <3>1
      <3>2. ASSUME NEW q \in Seq(Event), agenda[v] = <<>>, agenda'[v] = q
            PROVE  Once(agenda'[v], x) /\ (x \in Elems(agenda'[v]) <=> x \in Elems(agenda[v]))
        <4>1. x \notin Elems(q)
          BY <1>1, EventsAsAgenda
        <4> QED
          BY <3>2, <4>1, EmptyFacts DEF Once, Elems
      <3>3. ASSUME agenda[v] # <<>>, Head(agenda[v]) # x
            PROVE  /\ Tail(agenda[v]) \in Seq(Item) /\ Once(Tail(agenda[v]), x)
                   /\ x \in Elems(Tail(agenda[v])) <=> x \in Elems(agenda[v])
        BY <1>0, <1>1, <3>3, TailFacts, HeadAndTail
      <3>4. ASSUME NEW p \in Seq(Item), agenda[v] # <<>>, Head(agenda[v]).kind # "revoke",
                   agenda'[v] = p \o Tail(agenda[v]),
                   \A y \in Elems(p) : y.kind \notin {"reply", "revoke"}
            PROVE  Once(agenda'[v], x) /\ (x \in Elems(agenda'[v]) <=> x \in Elems(agenda[v]))
        <4>1. Head(agenda[v]) # x /\ x \notin Elems(p)
          BY <1>1, <3>4
        <4>2. Once(p, x)
          BY <4>1 DEF Once, Elems
        <4>3. PICK q : q = Tail(agenda[v])
          OBVIOUS
        <4>4. /\ q \in Seq(Item) /\ Once(q, x) /\ x \notin Elems(p) \cap Elems(q)
              /\ x \in Elems(q) <=> x \in Elems(agenda[v])
          BY <3>3, <3>4, <4>1, <4>3
        <4>5. Once(p \o q, x) /\ Elems(p \o q) = Elems(p) \cup Elems(q)
          BY <4>2, <4>4, ConcatFacts
        <4> QED
          BY <3>4, <4>1, <4>3, <4>4, <4>5
      <3>5. ASSUME agenda[v] # <<>>, agenda'[v] = Tail(agenda[v]),
                   RunRevoke(v) <=> Head(agenda[v]).kind = "revoke"
            PROVE  Once(agenda'[v], x) /\ (x \in Elems(agenda'[v]) <=> x \in Elems(agenda[v]))
        <4>1. Head(agenda[v]) # x
          BY <1>1, <1>6, <3>5 DEF Running, x
        <4> QED
          BY <3>3, <3>5, <4>1
      <3>6. ASSUME HandleWakeup(v) PROVE tasks'[v] = tasks[v]
        BY <3>6 DEF HandleWakeup
      <3>7. ASSUME NEW p \in Seq(Item), agenda[v] # <<>>, Head(agenda[v]).kind # "revoke",
                   HandleWakeup(v), agenda'[v] = p \o Tail(agenda[v]),
                   p = tasks[v], tasks'[v] = <<>>
            PROVE  Once(agenda'[v], x) /\ (x \in Elems(agenda'[v]) <=> x \in Elems(agenda[v]))
        <4>1. Elems(p) = {}
          BY <3>6, <3>7, EmptyFacts
        <4> QED
          BY <3>4, <3>7, <4>1
      <3> QED
        BY <1>6, <3>1, <3>2, <3>4, <3>5, <3>7, AgendaSteps
    <2> QED
      BY <1>1, <2>1, <2>2 DEF Outstanding, x
  <1>7. CASE CloseSession(r)
    BY <1>2, <1>5, <1>7 DEF x
  <1>8. CASE ~Running(r, v) /\ ~CloseSession(r)
    BY <1>4, <1>5, <1>6, <1>8 DEF x
  <1> QED
    BY <1>3, <1>7, <1>8

LEMMA RevokeOnceKept ==
    ASSUME TypeOK, OneHolder, Replies, RevokeOnce, Next
    PROVE  RevokeOnce'
  <1> SUFFICES ASSUME NEW r \in Revokes, NEW w \in Workers
               PROVE  /\ Once(tasks'[w], Revocation(r)) /\ Once(agenda'[w], Revocation(r))
                      /\ Revocation(r) \notin Elems(tasks'[w]) \cap Elems(agenda'[w])
                      /\ Outstanding(r, w)' => Broadcast(r)'
    BY DEF RevokeOnce, Outstanding, Revocation
  <1>1. Outstanding(r, w) => Broadcast(r)
    BY DEF RevokeOnce, Outstanding
  <1> QED
    BY <1>1, RevocationMoves, RequestSteps

\* A closure has run at a worker once it is no longer there, which only its run brings
\* about and nothing undoes.
LEMMA RanSteps ==
    ASSUME TypeOK, OneHolder, Replies, RevokeOnce, Next, NEW r \in Revokes, NEW w \in Workers
    PROVE  /\ Ran(r, w) => Ran(r, w)'
           /\ Ran(r, w)' => Ran(r, w) \/ Running(r, w)
           /\ Running(r, w) => ~Ran(r, w) /\ Ran(r, w)'
  <1>1. /\ Ran(r, w) <=> Broadcast(r) /\ ~Outstanding(r, w)
        /\ Ran(r, w)' <=> Broadcast(r)' /\ ~Outstanding(r, w)'
    BY DEF Ran, Outstanding
  <1>2. CloseSession(r) => ~Broadcast(r)
    BY DEF CloseSession, Broadcast
  <1>3. Outstanding(r, w) => Broadcast(r)
    BY DEF RevokeOnce, Outstanding
  <1>4. Running(r, w) => Outstanding(r, w)
    <2>1. agenda[w] \in Seq(Item)
      BY DEF TypeOK
    <2> QED
      BY <2>1, TailFacts DEF Running, Outstanding, RunRevoke, At
  <1> QED
    BY <1>1, <1>2, <1>3, <1>4, RevocationMoves, RequestSteps

-----------------------------------------------------------------------------
(* The tables of the workers *)

\* The callbacks that the closure of r adds at w: one for every session of its device.
NewCallbacks(r, w) ==
    {[request |-> r, worker |-> w, fd |-> s.fd] :
        s \in {x \in sessions : x.worker = w /\ x.device = target[r]}}

\* A handler that may remove the sessions K; it flags live sessions only.
Removes(K, cb) ==
    \E cl \in SUBSET (closing \cup LiveKeys), rv \in SUBSET (revoking \cup LiveKeys),
       ww \in SUBSET (wantWrite \cup LiveKeys) :
          \E ov \in SUBSET rv : RemoveSessions(K, cl, rv, ov, ww, cb)

\* A handler that only flags live sessions.
Flags ==
    /\ UNCHANGED <<sessions, index, revoking, overdue, callbacks, ready>>
    /\ closing' \subseteq closing \cup LiveKeys
    /\ wantWrite' \subseteq wantWrite \cup LiveKeys

LEMMA RevokeStep ==
    ASSUME TypeOK, NEW w \in Workers, RunRevoke(w)
    PROVE  \E r \in Revokes :
             /\ Running(r, w)
             /\ \/ /\ NewCallbacks(r, w) = {} /\ ready' = ready \cup {<<r, w>>}
                   /\ UNCHANGED <<sessions, index, closing, revoking, overdue, wantWrite,
                                  callbacks>>
                \/ /\ NewCallbacks(r, w) # {}
                   /\ \E K : Removes(K, callbacks \cup NewCallbacks(r, w))
  <1> DEFINE r == Head(agenda[w]).request
             targets == {Key(s) : s \in {x \in sessions :
                                           x.worker = w /\ x.device = target[r]}}
             fresh   == targets \ revoking
             new == {[request |-> r, worker |-> w, fd |-> k[2]] : k \in targets}
  <1>1. r \in Revokes /\ Running(r, w)
    <2>1. agenda[w] \in Seq(Item) /\ agenda[w] # <<>> /\ Head(agenda[w]).kind = "revoke"
      BY DEF TypeOK, RunRevoke, At
    <2>2. Head(agenda[w]) \in Item
      BY <2>1, HeadAndTail
    <2> QED
      BY <2>1, <2>2, Kinds DEF Running
  <1>2. new = NewCallbacks(r, w)
    <2>1. \A s : Key(s)[2] = s.fd
      BY DEF Key
    <2> DEFINE S == {x \in sessions : x.worker = w /\ x.device = target[r]}
    <2> HIDE DEF r, S
    <2>2. {[request |-> r, worker |-> w, fd |-> k[2]] : k \in {Key(s) : s \in S}} =
             {[request |-> r, worker |-> w, fd |-> s.fd] : s \in S}
      BY <2>1
    <2> QED
      BY <2>2 DEF NewCallbacks, S
  <1>3. targets = {} <=> NewCallbacks(r, w) = {}
    BY DEF NewCallbacks
  <1>4. targets \subseteq LiveKeys
    BY DEF LiveKeys
  <1>5. \/ /\ targets = {} /\ ready' = ready \cup {<<r, w>>}
           /\ UNCHANGED <<sessions, index, closing, revoking, overdue, wantWrite, callbacks>>
        \/ /\ targets # {}
           /\ \E drained \in SUBSET fresh :
                RemoveSessions(drained, closing \cup fresh, revoking \cup fresh, overdue,
                               wantWrite \cup fresh, callbacks \cup new)
    BY Zenon DEF RunRevoke
  <1> HIDE DEF targets, new, r
  <1>6. ASSUME NEW drained,
               RemoveSessions(drained, closing \cup fresh, revoking \cup fresh, overdue,
                              wantWrite \cup fresh, callbacks \cup new)
        PROVE  Removes(drained, callbacks \cup new)
    <2>1. /\ closing \cup fresh \in SUBSET (closing \cup LiveKeys)
          /\ revoking \cup fresh \in SUBSET (revoking \cup LiveKeys)
          /\ wantWrite \cup fresh \in SUBSET (wantWrite \cup LiveKeys)
      BY <1>4
    <2>2. overdue \in SUBSET (revoking \cup fresh)
      BY DEF TypeOK
    <2> QED
      BY <1>6, <2>1, <2>2 DEF Removes
  <1> QED
    BY <1>1, <1>2, <1>3, <1>5, <1>6

LEMMA RemoveStep ==
    ASSUME TypeOK, NEW K, Remove(K)
    PROVE  Removes(K, callbacks)
  BY DEF TypeOK, Remove, Removes

\* Every handler but the closure of a revocation flags or removes.
LEMMA HandlerTables ==
    ASSUME TypeOK, NEW w \in Workers, Handler(w), ~RunRevoke(w)
    PROVE  UNCHANGED workerVars \/ Flags \/ \E K : Removes(K, callbacks)
  <1>1. CASE RejectHandshake(w) \/ ReadNothing(w) \/ ReadMessage(w) \/ DropDelivery(w)
             \/ RunSync(w)
    BY <1>1 DEF RejectHandshake, ReadNothing, ReadMessage, DropDelivery, RunSync
  <1>2. CASE ReadControl(w)
    BY <1>2 DEF ReadControl, Flags
  <1>3. CASE ReadEnds(w) \/ HandleHangup(w) \/ HandlePeerShutdown(w)
    BY <1>3, RemoveStep DEF ReadEnds, HandleHangup, HandlePeerShutdown
  <1>4. CASE HandleWritable(w)
    <2>1. \/ UNCHANGED workerVars \/ Flags \/ \E K : Remove(K)
      BY <1>4 DEF HandleWritable, Flags
    <2> QED
      BY <2>1, RemoveStep
  <1>5. CASE RunDelivery(w)
    <2>1. <<w, Head(agenda[w]).fd>> \in LiveKeys
      BY <1>5 DEF RunDelivery, FindsSession, LiveKeys, Key
    <2>2. Flags \/ \E K : Remove(K)
      BY <1>5, <2>1 DEF RunDelivery, Flags
    <2> QED
      BY <2>2, RemoveStep
  <1>6. CASE HandleTimer(w)
    <2> DEFINE mine == {k \in LiveKeys : k[1] = w}
    <2>0. PICK passed \in DeadlinePassed(mine), late \in SUBSET (mine \ revoking) :
            \E p \in SUBSET (mine \ (revoking \cup late)) :
              RemoveSessions(passed \cup late, closing, revoking,
                             overdue \cup (mine \cap revoking), wantWrite \cup p,
                             callbacks)
      BY <1>6 DEF HandleTimer
    <2>1. PICK K : \E p \in SUBSET mine :
             RemoveSessions(K, closing, revoking, overdue \cup (mine \cap revoking),
                            wantWrite \cup p, callbacks)
      BY <2>0
    <2>3. PICK pinged \in SUBSET mine :
             RemoveSessions(K, closing, revoking, overdue \cup (mine \cap revoking),
                            wantWrite \cup pinged, callbacks)
      BY <2>1
    <2>2. /\ closing \in SUBSET (closing \cup LiveKeys)
          /\ revoking \in SUBSET (revoking \cup LiveKeys)
          /\ wantWrite \cup pinged \in SUBSET (wantWrite \cup LiveKeys)
          /\ overdue \cup (mine \cap revoking) \in SUBSET revoking
      BY DEF TypeOK
    <2> QED
      BY <2>2, <2>3 DEF Removes
  <1> QED
    BY <1>1, <1>2, <1>3, <1>4, <1>5, <1>6 DEF Handler

LEMMA TableSteps ==
    ASSUME TypeOK, Next
    PROVE  \/ UNCHANGED workerVars
           \/ Flags
           \/ \E w \in Workers : RegisterSession(w)
           \/ (\E K : Removes(K, callbacks)) /\ \E w \in Workers : Handler(w)
           \/ \E w \in Workers : RunRevoke(w)
  <1>1. ASSUME NEW fd \in Fds, NEW d \in Devices, ForwardConnection(fd, d)
        PROVE  UNCHANGED workerVars
    BY <1>1 DEF ForwardConnection
  <1>2. ASSUME NEW w \in Workers, EpollWait(w) \/ HandleWakeup(w) \/ HandleTask(w)
                                  \/ VerifyIdentity(w) \/ AbandonHandshake(w)
        PROVE  UNCHANGED workerVars
    BY <1>2 DEF EpollWait, HandleWakeup, HandleTask, VerifyIdentity, AbandonHandshake
  <1> QED
    BY <1>1, <1>2, HandlerTables, OtherThreadFrame, NextSteps

\* What a removal leaves.
LEMMA AfterRemoval ==
    ASSUME ReusedDescriptorIsClean, NEW K, NEW cb, Removes(K, cb),
           \A c \in cb : Key(c) \in LiveKeys
    PROVE  /\ sessions' = {s \in sessions : Key(s) \notin K}
           /\ LiveKeys' = LiveKeys \ K
           /\ index' = {e \in index : ~(e \in sessions /\ Key(e) \in K)}
           /\ closing' \cup revoking' \cup wantWrite' \subseteq LiveKeys'
           /\ overdue' \subseteq revoking'
           /\ callbacks' = {c \in cb : Key(c) \notin K}
           /\ ready' = ready \cup Completed({c \in cb : Key(c) \in K}, callbacks')
  <1>1. PICK cl \in SUBSET (closing \cup LiveKeys), rv \in SUBSET (revoking \cup LiveKeys),
             ww \in SUBSET (wantWrite \cup LiveKeys) :
          \E ov \in SUBSET rv : RemoveSessions(K, cl, rv, ov, ww, cb)
    BY DEF Removes
  <1>2. PICK ov \in SUBSET rv : RemoveSessions(K, cl, rv, ov, ww, cb)
    BY <1>1
  <1>3. /\ sessions' = {s \in sessions : Key(s) \notin K}
        /\ index' = {e \in index : ~(e \in sessions /\ Key(e) \in K)}
        /\ closing' = cl \ K /\ revoking' = rv \ K /\ overdue' = ov \ K
        /\ wantWrite' = ww \ K
        /\ callbacks' = {c \in cb : Key(c) \notin K}
        /\ ready' = ready \cup Completed({c \in cb : Key(c) \in K}, callbacks')
    BY <1>2 DEF RemoveSessions, Unindexed, Erased
  <1>4. cl \subseteq LiveKeys /\ rv \subseteq LiveKeys /\ ww \subseteq LiveKeys
    BY DEF ReusedDescriptorIsClean
  <1>5. LiveKeys' = LiveKeys \ K
    <2>1. LiveKeys' = {Key(s) : s \in sessions'}
      BY DEF LiveKeys, Key
    <2> QED
      BY <1>3, <2>1 DEF LiveKeys
  <1> QED
    BY <1>3, <1>4, <1>5

LEMMA CallbackKeys ==
    ASSUME TypeOK, ReusedDescriptorIsClean, NEW r \in Revokes, NEW w \in Workers
    PROVE  /\ \A c \in callbacks : Key(c) \in LiveKeys
           /\ \A c \in NewCallbacks(r, w) : Key(c) \in LiveKeys
           /\ callbacks \cup NewCallbacks(r, w) \subseteq Callback
           /\ LiveKeys \subseteq Keys
  <1>1. \A c \in callbacks : Key(c) \in LiveKeys
    BY DEF ReusedDescriptorIsClean
  <1>2. ASSUME NEW s \in sessions, s.worker = w
        PROVE  /\ Key([request |-> r, worker |-> w, fd |-> s.fd]) \in LiveKeys
               /\ [request |-> r, worker |-> w, fd |-> s.fd] \in Callback
    BY <1>2 DEF Key, LiveKeys, Callback, TypeOK, Session
  <1>3. \A s \in sessions : Key(s) \in Keys
    BY DEF TypeOK, Session, Key, Keys
  <1>4. LiveKeys \subseteq Keys
    BY <1>3 DEF LiveKeys
  <1>5. \A c \in NewCallbacks(r, w) : Key(c) \in LiveKeys /\ c \in Callback
    BY <1>2 DEF NewCallbacks
  <1> QED
    BY <1>1, <1>4, <1>5 DEF TypeOK

\* The completions of a removal: none of the same request is left at the worker.
LEMMA CompletedFacts ==
    ASSUME NEW ran, NEW left, NEW r, NEW w
    PROVE  <<r, w>> \in Completed(ran, left) =>
             /\ \E c \in ran : c.request = r /\ c.worker = w
             /\ ~\E c \in left : c.request = r /\ c.worker = w
  BY DEF Completed

\* The tables name live sessions, and the directory too.
LEMMA TablesKept ==
    ASSUME TypeOK, DirectoryNamesLiveSessions, ReusedDescriptorIsClean, Next
    PROVE  /\ DirectoryNamesLiveSessions' /\ ReusedDescriptorIsClean'
           /\ sessions' \subseteq Session \/ \E w \in Workers : RegisterSession(w)
           /\ closing' \subseteq Keys /\ revoking' \subseteq Keys /\ wantWrite' \subseteq Keys
           /\ overdue' \subseteq revoking'
           /\ callbacks' \subseteq Callback
           /\ ready' \subseteq Revokes \X Workers
  <1> DEFINE Good ==
           /\ DirectoryNamesLiveSessions' /\ ReusedDescriptorIsClean'
           /\ sessions' \subseteq Session \/ \E w \in Workers : RegisterSession(w)
           /\ closing' \subseteq Keys /\ revoking' \subseteq Keys /\ wantWrite' \subseteq Keys
           /\ overdue' \subseteq revoking'
           /\ callbacks' \subseteq Callback
           /\ ready' \subseteq Revokes \X Workers
  <1> SUFFICES Good
    OBVIOUS
  <1>0. /\ sessions \subseteq Session /\ index \subseteq sessions
        /\ \A e, f \in index : e.device = f.device => e = f
        /\ closing \subseteq LiveKeys /\ revoking \subseteq LiveKeys
        /\ wantWrite \subseteq LiveKeys /\ {Key(c) : c \in callbacks} \subseteq LiveKeys
        /\ overdue \subseteq revoking /\ callbacks \subseteq Callback
        /\ ready \subseteq Revokes \X Workers
    BY DEF TypeOK, DirectoryNamesLiveSessions, ReusedDescriptorIsClean
  <1>00. LiveKeys \subseteq Keys
    BY DEF TypeOK, LiveKeys, Session, Key, Keys
  <1>1. ASSUME UNCHANGED workerVars
        PROVE  Good
    BY <1>0, <1>00, <1>1 DEF workerVars, DirectoryNamesLiveSessions,
                       ReusedDescriptorIsClean, LiveKeys, Key
  <1>2. ASSUME Flags
        PROVE  Good
    <2>1. LiveKeys' = LiveKeys /\ {Key(c) : c \in callbacks}' = {Key(c) : c \in callbacks}
      BY <1>2 DEF Flags, LiveKeys, Key
    <2>2. ReusedDescriptorIsClean'
      BY <1>0, <1>2, <2>1 DEF Flags, ReusedDescriptorIsClean
    <2> QED
      BY <1>0, <1>00, <1>2, <2>2 DEF Flags, DirectoryNamesLiveSessions
  <1>3. ASSUME NEW w \in Workers, RegisterSession(w)
        PROVE  Good
    <2>1. PICK h, s :
             /\ h \in handshakes
             /\ s.device = h.device
             /\ sessions' = sessions \cup {s}
             /\ index' = {e \in index : e.device # h.device} \cup {s}
             /\ UNCHANGED <<closing, revoking, overdue, wantWrite, callbacks, ready>>
      BY <1>3 DEF RegisterSession
    <2>2. LiveKeys \subseteq LiveKeys' /\ {Key(c) : c \in callbacks}' = {Key(c) : c \in callbacks}
      BY <2>1 DEF LiveKeys, Key
    <2>3. DirectoryNamesLiveSessions'
      BY <1>0, <2>1 DEF DirectoryNamesLiveSessions
    <2>4. ReusedDescriptorIsClean'
      BY <1>0, <2>1, <2>2 DEF ReusedDescriptorIsClean
    <2> QED
      BY <1>0, <1>00, <1>3, <2>1, <2>3, <2>4
  <1>4. ASSUME NEW K, NEW cb, Removes(K, cb), cb \subseteq Callback,
               \A c \in cb : Key(c) \in LiveKeys
        PROVE  Good
    <2>1. /\ sessions' = {s \in sessions : Key(s) \notin K}
          /\ LiveKeys' = LiveKeys \ K
          /\ index' = {e \in index : ~(e \in sessions /\ Key(e) \in K)}
          /\ closing' \cup revoking' \cup wantWrite' \subseteq LiveKeys'
          /\ overdue' \subseteq revoking'
          /\ callbacks' = {c \in cb : Key(c) \notin K}
          /\ ready' = ready \cup Completed({c \in cb : Key(c) \in K}, callbacks')
      BY <1>4, AfterRemoval
    <2>2. {Key(c) : c \in callbacks}' = {Key(c) : c \in callbacks'}
      BY DEF Key
    <2>3. ReusedDescriptorIsClean'
      BY <1>4, <2>1, <2>2 DEF ReusedDescriptorIsClean
    <2>4. DirectoryNamesLiveSessions'
      BY <1>0, <2>1 DEF DirectoryNamesLiveSessions
    <2>5. ready' \subseteq Revokes \X Workers
      BY <1>0, <1>4, <2>1 DEF Completed, Callback
    <2> QED
      BY <1>0, <1>00, <1>4, <2>1, <2>3, <2>4, <2>5
  <1>5. ASSUME NEW w \in Workers, RunRevoke(w)
        PROVE  Good
    <2>1. PICK r \in Revokes :
             \/ /\ ready' = ready \cup {<<r, w>>}
                /\ UNCHANGED <<sessions, index, closing, revoking, overdue, wantWrite,
                               callbacks>>
             \/ \E K : Removes(K, callbacks \cup NewCallbacks(r, w))
      BY <1>5, RevokeStep
    <2>2. CASE /\ ready' = ready \cup {<<r, w>>}
               /\ UNCHANGED <<sessions, index, closing, revoking, overdue, wantWrite,
                              callbacks>>
      BY <1>0, <1>00, <2>2 DEF DirectoryNamesLiveSessions, ReusedDescriptorIsClean,
                               LiveKeys, Key
    <2>3. \A c \in callbacks \cup NewCallbacks(r, w) : Key(c) \in LiveKeys /\ c \in Callback
      BY CallbackKeys
    <2> QED
      BY <1>4, <2>1, <2>2, <2>3
  <1> HIDE DEF Good
  <1>6. \A c \in callbacks : Key(c) \in LiveKeys
    BY <1>0
  <1>7. ASSUME NEW K, Removes(K, callbacks)
        PROVE  Good
    BY <1>0, <1>4, <1>6, <1>7
  <1> QED
    BY <1>1, <1>2, <1>3, <1>5, <1>7, TableSteps

-----------------------------------------------------------------------------
(* Completions *)

\* Where callbacks and completions come from: a removal, or the run of a closure.
LEMMA CompletionSteps ==
    ASSUME TypeOK, ReusedDescriptorIsClean, Next
    PROVE  \/ UNCHANGED <<callbacks, ready>>
           \/ \E K : /\ sessions' = {s \in sessions : Key(s) \notin K}
                     /\ callbacks' = {c \in callbacks : Key(c) \notin K}
                     /\ ready' = ready \cup Completed({c \in callbacks : Key(c) \in K}, callbacks')
           \/ \E w \in Workers, r \in Revokes :
                /\ Running(r, w) /\ NewCallbacks(r, w) = {}
                /\ ready' = ready \cup {<<r, w>>} /\ UNCHANGED <<sessions, callbacks>>
           \/ \E K : \E w \in Workers, r \in Revokes :
                LET cb == callbacks \cup NewCallbacks(r, w)
                IN /\ Running(r, w)
                   /\ sessions' = {s \in sessions : Key(s) \notin K}
                   /\ callbacks' = {c \in cb : Key(c) \notin K}
                   /\ ready' = ready \cup Completed({c \in cb : Key(c) \in K}, callbacks')
  <1> DEFINE Goal ==
           \/ UNCHANGED <<callbacks, ready>>
           \/ \E K : /\ sessions' = {s \in sessions : Key(s) \notin K}
                     /\ callbacks' = {c \in callbacks : Key(c) \notin K}
                     /\ ready' = ready \cup Completed({c \in callbacks : Key(c) \in K}, callbacks')
           \/ \E w \in Workers, r \in Revokes :
                /\ Running(r, w) /\ NewCallbacks(r, w) = {}
                /\ ready' = ready \cup {<<r, w>>} /\ UNCHANGED <<sessions, callbacks>>
           \/ \E K : \E w \in Workers, r \in Revokes :
                LET cb == callbacks \cup NewCallbacks(r, w)
                IN /\ Running(r, w)
                   /\ sessions' = {s \in sessions : Key(s) \notin K}
                   /\ callbacks' = {c \in cb : Key(c) \notin K}
                   /\ ready' = ready \cup Completed({c \in cb : Key(c) \in K}, callbacks')
  <1> SUFFICES Goal
    OBVIOUS
  <1>1. ASSUME UNCHANGED <<callbacks, ready>>
        PROVE  Goal
    BY <1>1
  <1>2. ASSUME NEW K, Removes(K, callbacks)
        PROVE  Goal
    <2>1. \A c \in callbacks : Key(c) \in LiveKeys
      BY DEF ReusedDescriptorIsClean
    <2>2. /\ sessions' = {s \in sessions : Key(s) \notin K}
          /\ callbacks' = {c \in callbacks : Key(c) \notin K}
          /\ ready' = ready \cup Completed({c \in callbacks : Key(c) \in K}, callbacks')
      BY <1>2, <2>1, AfterRemoval
    <2> QED
      BY <2>2
  <1>3. ASSUME NEW w \in Workers, RunRevoke(w)
        PROVE  Goal
    <2>1. PICK r \in Revokes :
             /\ Running(r, w)
             /\ \/ /\ NewCallbacks(r, w) = {} /\ ready' = ready \cup {<<r, w>>}
                   /\ UNCHANGED <<sessions, callbacks>>
                \/ \E K : Removes(K, callbacks \cup NewCallbacks(r, w))
      BY <1>3, RevokeStep
    <2>2. CASE /\ NewCallbacks(r, w) = {} /\ ready' = ready \cup {<<r, w>>}
               /\ UNCHANGED <<sessions, callbacks>>
      BY <2>1, <2>2
    <2>3. ASSUME NEW K, Removes(K, callbacks \cup NewCallbacks(r, w))
          PROVE  Goal
      <3> DEFINE cb == callbacks \cup NewCallbacks(r, w)
      <3>1. \A c \in cb : Key(c) \in LiveKeys
        BY CallbackKeys
      <3>2. Removes(K, cb)
        BY <2>3
      <3> HIDE DEF cb
      <3>3. /\ sessions' = {s \in sessions : Key(s) \notin K}
            /\ callbacks' = {c \in cb : Key(c) \notin K}
            /\ ready' = ready \cup Completed({c \in cb : Key(c) \in K}, callbacks')
        BY <3>1, <3>2, AfterRemoval
      <3> QED
        BY <2>1, <3>3 DEF cb
    <2> QED
      BY <2>1, <2>2, <2>3
  <1> HIDE DEF Goal
  <1>4. Flags \/ UNCHANGED workerVars \/ (\E w \in Workers : RegisterSession(w)) => Goal
    BY <1>1 DEF Flags, workerVars, RegisterSession
  <1> QED
    BY <1>2, <1>3, <1>4, TableSteps

LEMMA NewCallbackFacts ==
    ASSUME NEW r, NEW w, NEW c \in NewCallbacks(r, w)
    PROVE  c.request = r /\ c.worker = w
  BY DEF NewCallbacks

\* A worker reports a closure once.
LEMMA CompletionKept ==
    ASSUME TypeOK, OneHolder, Replies, RevokeOnce, RevokeRan, ReusedDescriptorIsClean,
           CompletionOnce, Next
    PROVE  CompletionOnce'
  <1> SUFFICES ASSUME NEW c \in callbacks', <<c.request, c.worker>> \in ready'
               PROVE  FALSE
    BY DEF CompletionOnce
  <1>1. \A d \in callbacks : <<d.request, d.worker>> \notin ready
    BY DEF CompletionOnce
  <1>2. ASSUME NEW w \in Workers, NEW r \in Revokes, Running(r, w)
        PROVE  /\ <<r, w>> \notin ready
               /\ \A d \in callbacks : ~(d.request = r /\ d.worker = w)
    BY <1>2, RanSteps DEF RevokeRan
  <1>3. CASE UNCHANGED <<callbacks, ready>>
    BY <1>1, <1>3
  <1>4. ASSUME NEW K, callbacks' = {d \in callbacks : Key(d) \notin K},
               ready' = ready \cup Completed({d \in callbacks : Key(d) \in K}, callbacks')
        PROVE  FALSE
    <2>1. <<c.request, c.worker>> \in Completed({d \in callbacks : Key(d) \in K}, callbacks')
      BY <1>1, <1>4
    <2> QED
      BY <2>1, CompletedFacts
  <1>5. ASSUME NEW w \in Workers, NEW r \in Revokes, Running(r, w),
               ready' = ready \cup {<<r, w>>}, UNCHANGED callbacks
        PROVE  FALSE
    BY <1>1, <1>2, <1>5
  <1>6. ASSUME NEW K, NEW w \in Workers, NEW r \in Revokes, Running(r, w),
               callbacks' = {d \in callbacks \cup NewCallbacks(r, w) : Key(d) \notin K},
               ready' = ready \cup Completed({d \in callbacks \cup NewCallbacks(r, w) :
                                                Key(d) \in K}, callbacks')
        PROVE  FALSE
    <2>1. <<c.request, c.worker>> \notin ready
      BY <1>1, <1>2, <1>6, NewCallbackFacts
    <2>2. <<c.request, c.worker>> \in
              Completed({d \in callbacks \cup NewCallbacks(r, w) : Key(d) \in K}, callbacks')
      BY <1>6, <2>1
    <2> QED
      BY <2>2, CompletedFacts
  <1> QED
    BY <1>3, <1>4, <1>5, <1>6, CompletionSteps

\* A handshake begins only for a device that is active.
LEMMA HandshakeSteps ==
    ASSUME TypeOK, Next, NEW h \in handshakes'
    PROVE  h \in handshakes \/ (h \in Handshake /\ h.device \in active)
  <1>1. ASSUME NEW fd \in Fds, NEW d \in Devices, ForwardConnection(fd, d)
        PROVE  UNCHANGED handshakes
    BY <1>1 DEF ForwardConnection
  <1>2. ASSUME NEW w \in Workers, EpollWait(w) \/ HandleWakeup(w) \/ HandleTask(w)
        PROVE  UNCHANGED handshakes
    BY <1>2 DEF EpollWait, HandleWakeup, HandleTask
  <1>3. ASSUME NEW w \in Workers, RegisterSession(w) \/ AbandonHandshake(w)
        PROVE  handshakes' \subseteq handshakes
    BY <1>3 DEF RegisterSession, AbandonHandshake
  <1>4. ASSUME NEW w \in Workers, VerifyIdentity(w)
        PROVE  h \in handshakes \/ (h \in Handshake /\ h.device \in active)
    <2>1. /\ agenda[w] \in Seq(Item) /\ agenda[w] # <<>>
          /\ Head(agenda[w]).kind = "accept" /\ Head(agenda[w]).device \in active
          /\ handshakes' = handshakes \cup
              {[worker |-> w, fd |-> Head(agenda[w]).fd, device |-> Head(agenda[w]).device]}
      BY <1>4 DEF VerifyIdentity, At, TypeOK
    <2>2. Head(agenda[w]) \in Item
      BY <2>1, HeadAndTail
    <2>3. Head(agenda[w]).fd \in Fds /\ Head(agenda[w]).device \in Devices
      BY <2>1, <2>2, Kinds
    <2> QED
      BY <2>1, <2>3 DEF Handshake
  <1> QED
    BY <1>1, <1>2, <1>3, <1>4, NextSteps, HandlerFrame, OtherThreadFrame

\* Callbacks and completions come from a closure that has run or is running.
LEMMA CompletionOrigins ==
    ASSUME TypeOK, ReusedDescriptorIsClean, Next
    PROVE  /\ ready \subseteq ready'
           /\ \A c \in callbacks' :
                c \in callbacks \/ (c \in Callback /\ Running(c.request, c.worker))
           /\ \A r, w : <<r, w>> \in ready' =>
                \/ <<r, w>> \in ready
                \/ \E c \in callbacks : c.request = r /\ c.worker = w
                \/ Running(r, w)
  <1> DEFINE Goal ==
           /\ ready \subseteq ready'
           /\ \A c \in callbacks' :
                c \in callbacks \/ (c \in Callback /\ Running(c.request, c.worker))
           /\ \A r, w : <<r, w>> \in ready' =>
                \/ <<r, w>> \in ready
                \/ \E c \in callbacks : c.request = r /\ c.worker = w
                \/ Running(r, w)
  <1> SUFFICES Goal
    OBVIOUS
  <1>1. ASSUME UNCHANGED <<callbacks, ready>>
        PROVE  Goal
    BY <1>1
  <1>2. ASSUME NEW K, callbacks' = {d \in callbacks : Key(d) \notin K},
               ready' = ready \cup Completed({d \in callbacks : Key(d) \in K}, callbacks')
        PROVE  Goal
    BY <1>2, CompletedFacts
  <1>3. ASSUME NEW w \in Workers, NEW r \in Revokes, Running(r, w),
               ready' = ready \cup {<<r, w>>}, UNCHANGED callbacks
        PROVE  Goal
    BY <1>3
  <1>4. ASSUME NEW K, NEW w \in Workers, NEW r \in Revokes, Running(r, w),
               callbacks' = {d \in callbacks \cup NewCallbacks(r, w) : Key(d) \notin K},
               ready' = ready \cup Completed({d \in callbacks \cup NewCallbacks(r, w) :
                                                Key(d) \in K}, callbacks')
        PROVE  Goal
    <2>1. \A c \in NewCallbacks(r, w) : c \in Callback /\ Running(c.request, c.worker)
      BY <1>4, NewCallbackFacts, CallbackKeys
    <2>2. ASSUME NEW p, NEW v, <<p, v>> \in ready', <<p, v>> \notin ready
          PROVE  (\E c \in callbacks : c.request = p /\ c.worker = v) \/ Running(p, v)
      <3>1. <<p, v>> \in Completed({d \in callbacks \cup NewCallbacks(r, w) : Key(d) \in K},
                                   callbacks')
        BY <1>4, <2>2
      <3>2. \E c \in callbacks \cup NewCallbacks(r, w) : c.request = p /\ c.worker = v
        BY <3>1, CompletedFacts
      <3> QED
        BY <2>1, <3>2
    <2> QED
      BY <1>4, <2>1, <2>2
  <1> HIDE DEF Goal
  <1> QED
    BY <1>1, <1>2, <1>3, <1>4, CompletionSteps

\* The sessions of the device that the closure left at the worker have a callback.
LEMMA CallbackSteps ==
    ASSUME TypeOK, OneHolder, Replies, RevokeOnce, RevokeRan, ReusedDescriptorIsClean, Next,
           NEW r \in Revokes, NEW w \in Workers, Ran(r, w)',
           NEW s \in sessions', s.worker = w, s.device = target[r]
    PROVE  [request |-> r, worker |-> w, fd |-> s.fd] \in callbacks'
  <1> DEFINE c == [request |-> r, worker |-> w, fd |-> s.fd]
  <1> SUFFICES c \in callbacks'
    OBVIOUS
  <1>1. Key(c) = Key(s)
    BY DEF Key
  <1>2. CASE Running(r, w)
    <2>1. PICK q \in Revokes :
             /\ Running(q, w)
             /\ \/ NewCallbacks(q, w) = {} /\ UNCHANGED sessions
                \/ \E K : Removes(K, callbacks \cup NewCallbacks(q, w))
      BY <1>2, RevokeStep DEF Running
    <2>2. q = r
      BY <1>2, <2>1, RevocationKind DEF Running
    <2>3. s \in sessions => c \in NewCallbacks(r, w)
      BY DEF NewCallbacks
    <2>4. ASSUME NEW K, Removes(K, callbacks \cup NewCallbacks(r, w))
          PROVE  c \in callbacks'
      <3> DEFINE cb == callbacks \cup NewCallbacks(r, w)
      <3>1. \A d \in cb : Key(d) \in LiveKeys
        BY CallbackKeys
      <3>2. Removes(K, cb) /\ (s \in sessions => c \in cb)
        BY <2>3, <2>4
      <3> HIDE DEF cb
      <3>3. /\ sessions' = {t \in sessions : Key(t) \notin K}
            /\ callbacks' = {d \in cb : Key(d) \notin K}
        BY <3>1, <3>2, AfterRemoval
      <3> QED
        BY <1>1, <3>2, <3>3
    <2> QED
      BY <2>1, <2>2, <2>3, <2>4
  <1>3. CASE ~Running(r, w)
    <2>1. Ran(r, w)
      BY <1>3, RanSteps
    <2>2. /\ \A h \in handshakes : h.worker = w => h.device # target[r]
          /\ s \in sessions => c \in callbacks
      BY <2>1 DEF RevokeRan
    <2>3. s \in sessions
      <3>1. ASSUME NEW v \in Workers, NEW h \in handshakes, h.worker = v,
                   sessions' = sessions \cup {[worker |-> v, fd |-> h.fd,
                                  sid |-> nextSessionId, device |-> h.device]}
            PROVE  s \in sessions
        BY <2>2, <3>1
      <3> QED
        BY <3>1, SessionSteps
    <2>4. ASSUME NEW K, NEW cb, callbacks \subseteq cb,
                 sessions' = {t \in sessions : Key(t) \notin K},
                 callbacks' = {d \in cb : Key(d) \notin K}
          PROVE  c \in callbacks'
      BY <1>1, <2>2, <2>3, <2>4
    <2>5. ASSUME NEW K, NEW v \in Workers, NEW q \in Revokes,
                 sessions' = {t \in sessions : Key(t) \notin K},
                 callbacks' = {d \in callbacks \cup NewCallbacks(q, v) : Key(d) \notin K}
          PROVE  c \in callbacks'
      BY <2>4, <2>5
    <2> HIDE DEF c
    <2> QED
      BY <2>2, <2>3, <2>4, <2>5, CompletionSteps
  <1> QED
    BY <1>2, <1>3

LEMMA RevokeRanKept ==
    ASSUME TypeOK, OneHolder, Replies, RevokeOnce, RevokeRan, ReusedDescriptorIsClean, Next
    PROVE  RevokeRan'
  <1>1. target' = target /\ active' \subseteq active
    BY RequestSteps, NextSteps, HandlerFrame, OtherThreadFrame
        DEF ForwardConnection, EpollWait, HandleWakeup, HandleTask, VerifyIdentity,
            RegisterSession, AbandonHandshake, requestVars, OtherThread, BusinessReply,
            Request, RevokeCommit, CloseSession, Confirm, GiveUp
  <1>2. \A c \in callbacks : c \in Callback /\ Ran(c.request, c.worker)
    BY DEF RevokeRan, TypeOK
  <1>3. \A c \in Callback : c.request \in Revokes /\ c.worker \in Workers
    BY DEF Callback
  <1>4. \A c \in callbacks' : Ran(c.request, c.worker)'
    BY <1>2, <1>3, CompletionOrigins, RanSteps
  <1>5. ASSUME NEW r \in Revokes, NEW w \in Workers, <<r, w>> \in ready'
        PROVE  Ran(r, w)'
    <2>1. <<r, w>> \in ready => Ran(r, w)
      BY DEF RevokeRan
    <2>2. (\E c \in callbacks : c.request = r /\ c.worker = w) => Ran(r, w)
      BY <1>2
    <2> QED
      BY <1>5, <2>1, <2>2, CompletionOrigins, RanSteps
  <1>6. ASSUME NEW r \in Revokes, NEW w \in Workers, Ran(r, w)',
               NEW h \in handshakes', h.worker = w
        PROVE  h.device # target'[r]
    <2>1. CASE Running(r, w)
      <3>1. Handler(w)
        BY <2>1 DEF Running, Handler
      <3>2. handshakes' = handshakes /\ ~Busy(w)
        BY <3>1, HandlerFrame
      <3> QED
        BY <1>6, <3>2 DEF Busy
    <2>2. CASE Ran(r, w)
      <3>1. request[r] # "idle"
        BY <2>2 DEF Ran, Broadcast
      <3>2. target[r] \notin active
        BY <3>1 DEF RevokeRan
      <3>3. h \in handshakes => h.device # target[r]
        BY <1>6, <2>2 DEF RevokeRan
      <3>4. h \in handshakes \/ h.device \in active
        BY HandshakeSteps
      <3> QED
        BY <1>1, <3>2, <3>3, <3>4
    <2> QED
      BY <1>6, <2>1, <2>2, RanSteps
  <1>7. ASSUME NEW r \in Revokes, NEW w \in Workers, Ran(r, w)',
               NEW s \in sessions', s.worker = w, s.device = target'[r]
        PROVE  [request |-> r, worker |-> w, fd |-> s.fd] \in callbacks'
    BY <1>1, <1>7, CallbackSteps
  <1>8. ASSUME NEW r \in Revokes, request'[r] # "idle"
        PROVE  target'[r] \notin active'
    <2>1. request[r] # "idle" => target[r] \notin active
      BY DEF RevokeRan
    <2> QED
      BY <1>1, <1>8, <2>1, RequestSteps
  <1>9. ASSUME NEW r \in Revokes, request'[r] = "confirmed"
        PROVE  AllReady(r)'
    <2>1. request[r] = "confirmed" => AllReady(r)
      BY DEF RevokeRan
    <2>2. AllReady(r)
      BY <1>9, <2>1, RequestSteps DEF Confirm
    <2>3. ready \subseteq ready'
      BY CompletionOrigins
    <2> QED
      BY <2>2, <2>3 DEF AllReady
  <1> QED
    BY <1>4, <1>5, <1>6, <1>7, <1>8, <1>9 DEF RevokeRan

-----------------------------------------------------------------------------
(* Deliveries *)

LEMMA DeliverySteps ==
    ASSUME TypeOK, Next
    PROVE  /\ UNCHANGED delivered \/ \E w \in Workers : RunDelivery(w)
           /\ messages' \in 0 .. MaxMessages
  <1>0. messages \in 0 .. MaxMessages /\ MaxMessages \in Nat
    BY SizeAssumption DEF TypeOK
  <1>1. ASSUME NEW fd \in Fds, NEW d \in Devices, ForwardConnection(fd, d)
        PROVE  UNCHANGED <<delivered, messages>>
    BY <1>1 DEF ForwardConnection
  <1>2. ASSUME NEW w \in Workers,
               \/ EpollWait(w) \/ HandleWakeup(w) \/ HandleTask(w) \/ VerifyIdentity(w)
               \/ RegisterSession(w) \/ AbandonHandshake(w)
        PROVE  UNCHANGED <<delivered, messages>>
    BY <1>2 DEF EpollWait, HandleWakeup, HandleTask, VerifyIdentity, RegisterSession,
                AbandonHandshake
  <1>3. ASSUME NEW w \in Workers, Handler(w), ~ReadMessage(w)
        PROVE  (UNCHANGED delivered \/ RunDelivery(w)) /\ UNCHANGED messages
    BY <1>3 DEF Handler, RejectHandshake, ReadNothing, ReadControl, ReadEnds,
                HandleWritable, HandleHangup, HandlePeerShutdown, HandleTimer, RunRevoke,
                RunDelivery, DropDelivery, RunSync
  <1>4. ASSUME NEW w \in Workers, ReadMessage(w)
        PROVE  UNCHANGED delivered /\ messages < MaxMessages /\ messages' = messages + 1
    BY <1>4 DEF ReadMessage
  <1>5. UNCHANGED delivered \/ \E w \in Workers : RunDelivery(w)
    BY <1>1, <1>2, <1>3, <1>4, NextSteps, OtherThreadFrame
  <1>6. \/ UNCHANGED messages
        \/ messages < MaxMessages /\ messages' = messages + 1
    BY <1>1, <1>2, <1>3, <1>4, NextSteps, OtherThreadFrame
  <1> QED
    BY <1>0, <1>5, <1>6

\* The session that is found has the session id and the device of the frame.
LEMMA DeliveriesKept ==
    ASSUME TypeOK, OneHolder, Replies, NoMisdelivery, Next
    PROVE  NoMisdelivery' /\ delivered' \subseteq Delivery
  <1>0. delivered \subseteq Delivery
    BY DEF TypeOK
  <1>1. CASE UNCHANGED delivered
    BY <1>0, <1>1 DEF NoMisdelivery
  <1>2. ASSUME NEW w \in Workers, RunDelivery(w)
        PROVE  NoMisdelivery' /\ delivered' \subseteq Delivery
    <2> DEFINE t == Head(agenda[w])
               m == [kind |-> t.kind, to |-> SessionAt(<<w, t.fd>>), sid |-> t.sid,
                     device |-> t.device]
    <2>1. /\ t.kind \in {"reply", "push"} /\ FindsSession(w, t)
          /\ delivered' = delivered \cup {m}
          /\ agenda[w] # <<>>
      BY <1>2 DEF RunDelivery, At
    <2>2. agenda[w] \in Seq(Item)
      BY DEF TypeOK
    <2>3. t \in Item /\ t \in Elems(agenda[w])
      BY <2>1, <2>2, HeadAndTail, TailFacts
    <2>4. t.sid \in SessionIds /\ t.device \in Devices
      BY <2>1, <2>3, Kinds
    <2>5. PICK s \in sessions : /\ s.worker = w /\ s.fd = t.fd /\ s.sid = t.sid
                                /\ t.kind = "push" => s.device = t.device
      BY <2>1 DEF FindsSession
    <2>6. SessionAt(<<w, t.fd>>) = s
      <3>1. Key(s) = <<w, t.fd>>
        BY <2>5 DEF Key
      <3> QED
        BY <3>1, SessionFound
    <2>7. t.kind = "reply" => s.device = t.device
      BY <2>3, <2>5 DEF Replies, ReplyOf
    <2>8. s \in Session
      BY DEF TypeOK
    <2> HIDE DEF t
    <2>9. m \in Delivery /\ m.to.sid = m.sid /\ m.to.device = m.device
      BY <2>1, <2>4, <2>5, <2>6, <2>7, <2>8 DEF Delivery
    <2> HIDE DEF m
    <2> QED
      BY <1>0, <2>1, <2>9 DEF NoMisdelivery
  <1> QED
    BY <1>1, <1>2, DeliverySteps

-----------------------------------------------------------------------------
(* Types *)

\* Requests move along their five states.
LEMMA RequestTypes ==
    ASSUME TypeOK, Next
    PROVE  /\ active' \subseteq Devices
           /\ request' \in [Revokes -> {"idle", "committed", "waiting", "confirmed",
                                        "unconfirmed"}]
           /\ target' \in [Revokes -> Devices]
  <1>0. /\ active \subseteq Devices /\ target \in [Revokes -> Devices]
        /\ request \in [Revokes -> {"idle", "committed", "waiting", "confirmed",
                                    "unconfirmed"}]
    BY DEF TypeOK
  <1>1. ASSUME NEW fd \in Fds, NEW d \in Devices, ForwardConnection(fd, d)
        PROVE  UNCHANGED requestVars
    BY <1>1 DEF ForwardConnection
  <1>2. ASSUME NEW w \in Workers,
               \/ EpollWait(w) \/ HandleWakeup(w) \/ HandleTask(w) \/ VerifyIdentity(w)
               \/ RegisterSession(w) \/ AbandonHandshake(w)
        PROVE  UNCHANGED requestVars
    BY <1>2 DEF EpollWait, HandleWakeup, HandleTask, VerifyIdentity, RegisterSession,
                AbandonHandshake
  <1>3. ASSUME NEW w \in Workers, Handler(w)
        PROVE  UNCHANGED requestVars
    BY <1>3, HandlerFrame DEF requestVars
  <1>4. ASSUME BusinessReply
        PROVE  UNCHANGED requestVars
    BY <1>4 DEF BusinessReply
  <1>5. ASSUME NEW r \in Revokes, Request(r)
        PROVE  /\ active' \subseteq active /\ target' = target
               /\ \E x \in {"committed", "waiting", "confirmed", "unconfirmed"} :
                     request' = [request EXCEPT ![r] = x]
    BY <1>5 DEF Request, RevokeCommit, CloseSession, Confirm, GiveUp
  <1>6. \/ UNCHANGED requestVars
        \/ \E r \in Revokes : Request(r)
    BY <1>1, <1>2, <1>3, <1>4, NextSteps DEF OtherThread
  <1> QED
    BY <1>0, <1>5, <1>6 DEF requestVars

\* A session id that is drawn is within the bound, because a connection waits for it.
LEMMA SessionTypes ==
    ASSUME TypeOK, OneHolder, Counted, NEW w \in Workers, RegisterSession(w)
    PROVE  sessions' \subseteq Session
  <1>1. PICK h \in handshakes : sessions' = sessions \cup {[worker |-> w, fd |-> h.fd,
                                  sid |-> nextSessionId, device |-> h.device]}
    BY DEF RegisterSession
  <1>2. Cardinality(Waiting) \in Nat /\ Cardinality(Waiting) # 0
    <2>1. h.fd \in Waiting
      BY DEF Waiting, HandshakeFds
    <2>2. IsFiniteSet(Waiting)
      BY DEF Counted
    <2> QED
      BY <2>1, <2>2, FS_CardinalityType, FS_EmptySet
  <1>3. /\ nextSessionId \in 1 .. MaxAccepts + 1 /\ accepted \in 0 .. MaxAccepts
        /\ nextSessionId + Cardinality(Waiting) <= accepted + 1 /\ MaxAccepts \in Nat
    BY SizeAssumption DEF TypeOK, Counted
  <1>4. nextSessionId \in SessionIds
    BY <1>2, <1>3 DEF SessionIds
  <1>5. h.fd \in Fds /\ h.device \in Devices /\ sessions \subseteq Session
    BY DEF TypeOK, Handshake
  <1> QED
    BY <1>1, <1>4, <1>5 DEF Session

LEMMA TypesKept ==
    ASSUME WorkersInv, Next
    PROVE  TypeOK'
  <1> USE DEF WorkersInv
  <1>1. /\ active' \subseteq Devices
        /\ request' \in [Revokes -> {"idle", "committed", "waiting", "confirmed",
                                     "unconfirmed"}]
        /\ target' \in [Revokes -> Devices]
    BY RequestTypes
  <1>2. /\ accepted' \in 0 .. MaxAccepts /\ nextSessionId' \in 1 .. MaxAccepts + 1
    BY CountedKept
  <1>3. /\ pending' \in [Workers -> Seq(Connection)]
        /\ tasks' \in [Workers -> Seq(Task)]
        /\ agenda' \in [Workers -> Seq(Item)]
    BY QueueTypes
  <1>4. handshakes' \subseteq Handshake
    BY HandshakeSteps DEF TypeOK
  <1>5. /\ sessions' \subseteq Session
        /\ closing' \subseteq Keys /\ revoking' \subseteq Keys /\ wantWrite' \subseteq Keys
        /\ overdue' \subseteq revoking' /\ callbacks' \subseteq Callback
        /\ ready' \subseteq Revokes \X Workers
    BY TablesKept, SessionTypes
  <1>6. index' \subseteq Session
    BY <1>5, TablesKept DEF DirectoryNamesLiveSessions
  <1>7. inflight' \subseteq [worker : Workers, task : Task]
    BY RepliesKept
  <1>8. messages' \in 0 .. MaxMessages /\ delivered' \subseteq Delivery
    BY DeliverySteps, DeliveriesKept
  <1> QED
    BY <1>1, <1>2, <1>3, <1>4, <1>5, <1>6, <1>7, <1>8 DEF TypeOK

-----------------------------------------------------------------------------
(* The invariant holds at the start and is kept by every step *)

LEMMA StutterKept ==
    ASSUME WorkersInv, UNCHANGED vars
    PROVE  WorkersInv'
  <1> USE DEF vars, workerVars
  <1>1. TypeOK'
    BY DEF WorkersInv, TypeOK
  <1>2. OneHolder' /\ Counted'
    <2>1. /\ SessionFds' = SessionFds /\ HandshakeFds' = HandshakeFds
          /\ \A w : PendingFds(w)' = PendingFds(w) /\ AcceptFds(w)' = AcceptFds(w)
      BY DEF SessionFds, HandshakeFds, PendingFds, AcceptFds, FdsIn, AcceptsIn
    <2>2. Waiting' = Waiting
      BY <2>1 DEF Waiting
    <2>3. OneHolder /\ Counted
      BY DEF WorkersInv
    <2> QED
      BY <2>1, <2>2, <2>3 DEF OneHolder, Counted
  <1>3. Sids' /\ Replies'
    BY DEF WorkersInv, Sids, Replies, ReplyOf
  <1>4. RevokeOnce' /\ RevokeRan'
    <2>1. \A r, w : Broadcast(r)' = Broadcast(r) /\ Ran(r, w)' = Ran(r, w)
      BY DEF Broadcast, Ran, Revocation, Elems
    <2>2. RevokeOnce /\ RevokeRan
      BY DEF WorkersInv
    <2>3. RevokeOnce'
      BY <2>1, <2>2 DEF RevokeOnce
    <2>4. RevokeRan'
      BY <2>1, <2>2 DEF RevokeRan, AllReady
    <2> QED
      BY <2>3, <2>4
  <1>5. DirectoryNamesLiveSessions' /\ ReusedDescriptorIsClean'
    BY DEF WorkersInv, DirectoryNamesLiveSessions, ReusedDescriptorIsClean, LiveKeys, Key
  <1>6. CompletionOnce' /\ NoMisdelivery'
    BY DEF WorkersInv, CompletionOnce, NoMisdelivery
  <1> QED
    BY <1>1, <1>2, <1>3, <1>4, <1>5, <1>6 DEF WorkersInv

LEMMA WorkersKept == WorkersInv /\ [Next]_vars => WorkersInv'
  <1>1. ASSUME WorkersInv, Next
        PROVE  WorkersInv'
    <2>1. /\ TypeOK /\ OneHolder /\ Counted /\ Sids /\ Replies /\ RevokeOnce /\ RevokeRan
          /\ DirectoryNamesLiveSessions /\ ReusedDescriptorIsClean /\ CompletionOnce
          /\ NoMisdelivery
      BY <1>1 DEF WorkersInv
    <2>2. TypeOK'
      BY <1>1, TypesKept
    <2>3. OneHolder' /\ Counted' /\ Sids' /\ Replies'
      BY <1>1, <2>1, OneHolderKept, CountedKept, SidsKept, RepliesKept
    <2>4. RevokeOnce' /\ RevokeRan' /\ CompletionOnce'
      BY <1>1, <2>1, RevokeOnceKept, RevokeRanKept, CompletionKept
    <2>5. DirectoryNamesLiveSessions' /\ ReusedDescriptorIsClean' /\ NoMisdelivery'
      BY <1>1, <2>1, TablesKept, DeliveriesKept
    <2> QED
      BY <2>2, <2>3, <2>4, <2>5 DEF WorkersInv
  <1> QED
    BY <1>1, StutterKept

LEMMA WorkersInit == Init => WorkersInv
  <1> SUFFICES ASSUME Init
               PROVE  WorkersInv
    OBVIOUS
  <1> USE DEF Init
  <1>1. TypeOK
    <2>1. accepted \in 0 .. MaxAccepts /\ messages \in 0 .. MaxMessages
      BY SizeAssumption
    <2>2. nextSessionId \in 1 .. MaxAccepts + 1
      BY SizeAssumption DEF FirstSessionId
    <2>3. /\ pending \in [Workers -> Seq(Connection)] /\ tasks \in [Workers -> Seq(Task)]
          /\ agenda \in [Workers -> Seq(Item)]
      OBVIOUS
    <2> QED
      BY <2>1, <2>2, <2>3 DEF TypeOK
  <1>2. /\ SessionFds = {} /\ HandshakeFds = {}
        /\ \A w \in Workers : /\ PendingFds(w) = {} /\ AcceptFds(w) = {}
                              /\ FdsOnce(pending[w]) /\ AcceptsOnce(agenda[w])
                              /\ Elems(tasks[w]) = {} /\ Elems(agenda[w]) = {}
                              /\ \A x : Once(tasks[w], x) /\ Once(agenda[w], x)
    BY EmptyFacts DEF SessionFds, HandshakeFds, PendingFds, AcceptFds
  <1>3. OneHolder
    BY <1>2 DEF OneHolder
  <1>4. Counted
    <2>1. Waiting = {}
      BY <1>2 DEF Waiting
    <2>2. IsFiniteSet(Waiting) /\ Cardinality(Waiting) = 0
      BY <2>1, FS_EmptySet
    <2> QED
      BY <2>2 DEF Counted, FirstSessionId
  <1>5. Sids /\ Replies
    BY <1>2 DEF Sids, Replies
  <1>6. RevokeOnce /\ RevokeRan
    <2>1. \A r \in Revokes : ~Broadcast(r)
      BY DEF Broadcast
    <2> QED
      BY <1>2, <2>1 DEF RevokeOnce, RevokeRan, Ran
  <1>7. DirectoryNamesLiveSessions /\ ReusedDescriptorIsClean
    BY DEF DirectoryNamesLiveSessions, ReusedDescriptorIsClean
  <1>8. CompletionOnce /\ NoMisdelivery
    BY DEF CompletionOnce, NoMisdelivery
  <1> QED
    BY <1>1, <1>3, <1>4, <1>5, <1>6, <1>7, <1>8 DEF WorkersInv

LEMMA WorkersAlways == Spec => []WorkersInv
  BY WorkersInit, WorkersKept, PTL DEF Spec

-----------------------------------------------------------------------------
(* Theorems *)

\* The tables of the workers, the directory and the requests keep their types.
THEOREM TypeTheorem == Spec => []TypeOK
  <1>1. WorkersInv => TypeOK
    BY DEF WorkersInv
  <1> QED
    BY <1>1, WorkersAlways, PTL

\* An entry of online_connections_ always names a registered session of its device, one
\* per device, although all workers write it.
THEOREM DirectoryTheorem == Spec => []DirectoryNamesLiveSessions
  <1>1. WorkersInv => DirectoryNamesLiveSessions
    BY DEF WorkersInv
  <1> QED
    BY <1>1, WorkersAlways, PTL

\* closing_sessions_, revoke_deadlines_, the EPOLLOUT interest and close_completions_ only
\* ever name registered sessions: a descriptor that is reused inherits nothing.
THEOREM CleanDescriptorTheorem == Spec => []ReusedDescriptorIsClean
  <1>1. WorkersInv => ReusedDescriptorIsClean
    BY DEF WorkersInv
  <1> QED
    BY <1>1, WorkersAlways, PTL

\* The promise of a revocation is set at most once by a worker: never while one of its
\* callbacks is still to run.
THEOREM CompletionTheorem == Spec => []CompletionOnce
  <1>1. WorkersInv => CompletionOnce
    BY DEF WorkersInv
  <1> QED
    BY <1>1, WorkersAlways, PTL

\* When the HTTP thread answers websocket_closed = true, no worker has a session of the
\* revoked device, nor a handshake that will become one, and so it stays.
THEOREM ConfirmationTheorem == Spec => []ConfirmedMeansGone
  <1>1. ASSUME WorkersInv
        PROVE  ConfirmedMeansGone
    <2> SUFFICES ASSUME NEW r \in Revokes, request[r] = "confirmed"
                 PROVE  /\ \A s \in sessions : s.device # target[r]
                        /\ \A h \in handshakes : h.device # target[r]
      BY DEF ConfirmedMeansGone
    <2>1. \A w \in Workers : <<r, w>> \in ready
      BY <1>1 DEF WorkersInv, RevokeRan, AllReady
    <2>2. \A w \in Workers : Ran(r, w)
      BY <1>1, <2>1 DEF WorkersInv, RevokeRan
    <2>3. ASSUME NEW s \in sessions, s.device = target[r]
          PROVE  FALSE
      <3>1. s.worker \in Workers
        BY <1>1 DEF WorkersInv, TypeOK, Session
      <3>2. PICK c \in callbacks : c.request = r /\ c.worker = s.worker
        BY <1>1, <2>2, <2>3, <3>1 DEF WorkersInv, RevokeRan
      <3> QED
        BY <1>1, <2>1, <3>1, <3>2 DEF WorkersInv, CompletionOnce
    <2>4. ASSUME NEW h \in handshakes
          PROVE  h.device # target[r]
      <3>1. h.worker \in Workers
        BY <1>1 DEF WorkersInv, TypeOK, Handshake
      <3> QED
        BY <1>1, <2>2, <3>1 DEF WorkersInv, RevokeRan
    <2> QED
      BY <2>3, <2>4
  <1> QED
    BY <1>1, WorkersAlways, PTL

\* A reply or a push is written to the session it was made for, however often the
\* descriptor was closed and handed out again while it was queued.
THEOREM DeliveryTheorem == Spec => []NoMisdelivery
  <1>1. WorkersInv => NoMisdelivery
    BY DEF WorkersInv
  <1> QED
    BY <1>1, WorkersAlways, PTL
=============================================================================
