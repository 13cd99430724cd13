-------------------------- MODULE WebSocketWorkers --------------------------
(***************************************************************************)
(* The WebSocket side of the server: WebSocketPool (the directory of       *)
(* online devices and the broadcast that closes a revoked device) and its  *)
(* WebsocketWorkers, each an epoll loop that alone touches its sessions.   *)
(*                                                                         *)
(* A worker's step is one handler of its loop.  `agenda' holds what the    *)
(* worker still has to do for the last epoll_wait: the events it returned, *)
(* and the sessions or tasks the handler of an eventfd swapped out of the  *)
(* worker's queue.  A handshake takes two steps, because the database is   *)
(* asked before the 101 response is sent and the session registered.       *)
(*                                                                         *)
(* HTTP threads revoke a device in the database, broadcast, and wait;      *)
(* business threads answer messages.  Neither touches a session: they      *)
(* append to the worker's queue.  The shutdown of the pool (`stopping') is *)
(* not part of this module.                                                *)
(***************************************************************************)
EXTENDS Naturals, Sequences, FiniteSets

CONSTANTS
    NumWorkers,      \* config_.min_capacity
    Devices,         \* the devices that connect
    Fds,             \* file descriptors the kernel hands out
    Revokes,         \* revocation requests (an HTTP thread each)
    MaxAccepts,      \* bound: upgraded connections in a behaviour
    MaxMessages,     \* bound: business frames in a behaviour
    MaxSocketEvents  \* bound: socket events in one epoll_wait

ASSUME SizeAssumption ==
    /\ NumWorkers \in Nat \ {0}
    /\ MaxAccepts \in Nat
    /\ MaxMessages \in Nat
    /\ MaxSocketEvents \in Nat

\* The process's table of descriptors is limited.
ASSUME DescriptorAssumption == IsFiniteSet(Fds)

Workers == 0 .. NumWorkers - 1

VARIABLES
    active,       \* the devices whose row says active (database)
    accepted,     \* connections upgraded so far, next_worker_ counts them too
    pending,      \* pending_session_queue_ of each worker
    tasks,        \* task_queue_ of each worker
    agenda,       \* what each worker has still to do in this loop turn
    handshakes,   \* connections past verifySessionIdentity, not registered
    sessions,     \* websocket_sessions_map of all workers
    nextSessionId,
    closing,      \* closing_sessions_
    revoking,     \* keys of revoke_deadlines_
    overdue,      \* the ones a timer tick has already seen
    wantWrite,    \* sockets with EPOLLOUT interest
    callbacks,    \* close_completions_
    ready,        \* completions that were set: <<request, worker>>
    index,        \* online_connections_
    request,      \* where each revocation request is
    target,       \* the device it revokes
    inflight,     \* business tasks whose reply is still to come
    messages,     \* business frames dispatched so far
    delivered     \* application frames written: to whom, for whom

workerVars == <<closing, revoking, overdue, wantWrite, callbacks, ready,
                sessions, index>>
requestVars == <<active, request, target>>
vars == <<active, accepted, pending, tasks, agenda, handshakes, nextSessionId,
          workerVars, request, target, inflight, messages, delivered>>

-----------------------------------------------------------------------------
(* Records *)

SessionIds == 1 .. MaxAccepts
Keys == Workers \X Fds
Connection == [fd : Fds, device : Devices]
Handshake == [worker : Workers, fd : Fds, device : Devices]
Session == [worker : Workers, fd : Fds, sid : SessionIds, device : Devices]
Callback == [request : Revokes, worker : Workers, fd : Fds]

SocketEvent == [kind : {"in", "out", "rdhup", "hup"}, fd : Fds, of : SessionIds]
Event == [kind : {"wakeup", "task", "timer"}] \cup SocketEvent

\* Closures in task_queue_.  A reply and a push carry the session they are
\* for; sync is the Online_Sync reply, which looks its target up when run.
Task ==
         [kind : {"revoke"}, request : Revokes]
    \cup [kind : {"reply", "push"}, fd : Fds, sid : SessionIds, device : Devices]
    \cup [kind : {"sync"}, device : Devices]

Item == Event \cup Task \cup [kind : {"accept"}, fd : Fds, device : Devices]

Delivery == [kind : {"reply", "push"}, to : Session, sid : SessionIds,
             device : Devices]

TypeOK ==
    /\ active \subseteq Devices
    /\ accepted \in 0 .. MaxAccepts
    /\ pending \in [Workers -> Seq(Connection)]
    /\ tasks \in [Workers -> Seq(Task)]
    /\ agenda \in [Workers -> Seq(Item)]
    /\ handshakes \subseteq Handshake
    /\ sessions \subseteq Session
    /\ nextSessionId \in 1 .. MaxAccepts + 1
    /\ closing \subseteq Keys
    /\ revoking \subseteq Keys
    /\ overdue \subseteq revoking
    /\ wantWrite \subseteq Keys
    /\ callbacks \subseteq Callback
    /\ ready \subseteq Revokes \X Workers
    /\ index \subseteq Session
    /\ request \in [Revokes -> {"idle", "committed", "waiting", "confirmed",
                                "unconfirmed"}]
    /\ target \in [Revokes -> Devices]
    /\ inflight \subseteq [worker : Workers, task : Task]
    /\ messages \in 0 .. MaxMessages
    /\ delivered \subseteq Delivery

-----------------------------------------------------------------------------
(* Helpers *)

Key(s) == <<s.worker, s.fd>>
LiveKeys == {Key(s) : s \in sessions}
SessionAt(k) == CHOOSE s \in sessions : Key(s) = k

\* Descriptors that are open: the kernel gives out the others.
OpenFds ==
         {s.fd : s \in sessions}
    \cup {h.fd : h \in handshakes}
    \cup (UNION {{pending[w][i].fd : i \in DOMAIN pending[w]} : w \in Workers})
    \cup (UNION {{agenda[w][i].fd : i \in {j \in DOMAIN agenda[w] :
                                             agenda[w][j].kind = "accept"}} :
                 w \in Workers})

\* Every order in which the elements of a finite set can be listed.
Orderings(S) ==
    {s \in [1 .. Cardinality(S) -> S] :
        \A i, j \in 1 .. Cardinality(S) : s[i] = s[j] => i = j}

Busy(w) == \E h \in handshakes : h.worker = w

\* The worker is about to handle an item of this kind.
At(w, kind) ==
    /\ ~Busy(w)
    /\ agenda[w] # <<>>
    /\ Head(agenda[w]).kind = kind

Done(w) == agenda' = [agenda EXCEPT ![w] = Tail(agenda[w])]

\* MUTANT: the directory is not updated.
Unindexed_Keeps(K) == index

\* removeIndex: the entry goes only if it names the session that is removed.
Unindexed(K) == {e \in index : ~(e \in sessions /\ Key(e) \in K)}

\* MUTANT: the tables keyed by descriptor keep the entries of a closed one.
Erased_Keeps(table, K) == table

Erased(table, K) == table \ K

\* MUTANT: every callback sets the completion.
Completed_ByEach(ran, left) == {<<c.request, c.worker>> : c \in ran}

\* The completions set by the callbacks that ran: --*remaining has reached zero
\* when none of the same request is left at the same worker.
Completed(ran, left) ==
    {<<c.request, c.worker>> : c \in
        {d \in ran : ~\E e \in left : /\ e.request = d.request
                                      /\ e.worker = d.worker}}

\* removeSession for the keys K, given the values the rest of the handler has
\* put into closing_sessions_, revoke_deadlines_ (all, and those seen by a
\* tick), the EPOLLOUT interest and close_completions_.
RemoveSessions(K, closing_, revoking_, overdue_, wantWrite_, callbacks_) ==
    LET left == {c \in callbacks_ : Key(c) \notin K}
        ran  == {c \in callbacks_ : Key(c) \in K}
    IN /\ index' = Unindexed(K)
       /\ closing' = Erased(closing_, K)
       /\ sessions' = {s \in sessions : Key(s) \notin K}
       /\ revoking' = Erased(revoking_, K)
       /\ overdue' = Erased(overdue_, K)
       /\ wantWrite' = wantWrite_ \ K
       /\ callbacks' = left
       /\ ready' = ready \cup Completed(ran, left)

Remove(K) == RemoveSessions(K, closing, revoking, overdue, wantWrite, callbacks)

-----------------------------------------------------------------------------

\* MUTANT: session ids start at the value that stands for no session.
FirstSessionId_Zero == 0

FirstSessionId == 1

Init ==
    /\ active = Devices
    /\ accepted = 0
    /\ pending = [w \in Workers |-> <<>>]
    /\ tasks = [w \in Workers |-> <<>>]
    /\ agenda = [w \in Workers |-> <<>>]
    /\ handshakes = {}
    /\ sessions = {}
    /\ nextSessionId = FirstSessionId
    /\ closing = {}
    /\ revoking = {}
    /\ overdue = {}
    /\ wantWrite = {}
    /\ callbacks = {}
    /\ ready = {}
    /\ index = {}
    /\ request = [r \in Revokes |-> "idle"]
    /\ target \in [Revokes -> Devices]
    /\ inflight = {}
    /\ messages = 0
    /\ delivered = {}

-----------------------------------------------------------------------------
(* WebSocketPool::forward_connections, called by the HTTP thread that has   *)
(* read the upgrade request: round robin over the workers.                  *)

ForwardConnection(fd, d) ==
    LET w == accepted % NumWorkers
    IN /\ accepted < MaxAccepts
       /\ fd \notin OpenFds
       /\ pending' = [pending EXCEPT ![w] = Append(@, [fd |-> fd, device |-> d])]
       /\ accepted' = accepted + 1
       /\ UNCHANGED <<tasks, agenda, handshakes, nextSessionId, workerVars,
                      requestVars, inflight, messages, delivered>>

-----------------------------------------------------------------------------
(* The worker's loop *)

\* epoll_wait returns every eventfd that has been written, possibly the timer,
\* and events of registered sockets: a revoked socket has no read interest.
SocketEventsOf(w) ==
    {e \in SocketEvent :
        \E s \in sessions :
            /\ s.worker = w /\ s.fd = e.fd /\ s.sid = e.of
            /\ e.kind = "in" => Key(s) \notin revoking
            /\ e.kind = "out" => Key(s) \in wantWrite}

EpollWait(w) ==
    /\ ~Busy(w)
    /\ agenda[w] = <<>>
    /\ \E timer \in SUBSET {[kind |-> "timer"]}, sockets \in SUBSET SocketEventsOf(w) :
        LET wakeup == {[kind |-> "wakeup"] : p \in {q \in {pending[w]} : q # <<>>}}
            task   == {[kind |-> "task"] : t \in {q \in {tasks[w]} : q # <<>>}}
            events == wakeup \cup task \cup timer \cup sockets
        IN /\ Cardinality(sockets) <= MaxSocketEvents
           /\ events # {}
           /\ \E order \in Orderings(events) :
                agenda' = [agenda EXCEPT ![w] = order]
    /\ UNCHANGED <<accepted, pending, tasks, handshakes, nextSessionId,
                   workerVars, requestVars, inflight, messages, delivered>>

\* handleWakeup: the pending connections are swapped out and accepted in turn.
HandleWakeup(w) ==
    /\ At(w, "wakeup")
    /\ agenda' = [agenda EXCEPT ![w] =
            [i \in DOMAIN pending[w] |->
                [kind |-> "accept", fd |-> pending[w][i].fd,
                 device |-> pending[w][i].device]] \o Tail(@)]
    /\ pending' = [pending EXCEPT ![w] = <<>>]
    /\ UNCHANGED <<accepted, tasks, handshakes, nextSessionId, workerVars,
                   requestVars, inflight, messages, delivered>>

\* handleTask: the tasks are swapped out and run in turn.
HandleTask(w) ==
    /\ At(w, "task")
    /\ agenda' = [agenda EXCEPT ![w] = tasks[w] \o Tail(@)]
    /\ tasks' = [tasks EXCEPT ![w] = <<>>]
    /\ UNCHANGED <<accepted, pending, handshakes, nextSessionId, workerVars,
                   requestVars, inflight, messages, delivered>>

-----------------------------------------------------------------------------
(* acceptingSessions *)

\* The token, the headers and the device are in order.
VerifyIdentity(w) ==
    /\ At(w, "accept")
    /\ Head(agenda[w]).device \in active
    /\ handshakes' = handshakes \cup
            {[worker |-> w, fd |-> Head(agenda[w]).fd,
              device |-> Head(agenda[w]).device]}
    /\ Done(w)
    /\ UNCHANGED <<accepted, pending, tasks, nextSessionId, workerVars,
                   requestVars, inflight, messages, delivered>>

\* An error response or an exception: the connection is closed.
RejectHandshake(w) ==
    /\ At(w, "accept")
    /\ Done(w)
    /\ UNCHANGED <<accepted, pending, tasks, handshakes, nextSessionId,
                   workerVars, requestVars, inflight, messages, delivered>>

\* The 101 response is sent: map, epoll, then the directory, where the newest
\* session of a device replaces the entry of an older one.
RegisterSession(w) ==
    \E h \in handshakes :
        LET s == [worker |-> w, fd |-> h.fd, sid |-> nextSessionId,
                  device |-> h.device]
        IN /\ h.worker = w
           /\ handshakes' = handshakes \ {h}
           /\ nextSessionId' = nextSessionId + 1
           /\ sessions' = sessions \cup {s}
           /\ index' = {e \in index : e.device # h.device} \cup {s}
           /\ UNCHANGED <<accepted, pending, tasks, agenda, closing, revoking,
                          overdue, wantWrite, callbacks, ready, requestVars,
                          inflight, messages, delivered>>

\* sendAll fails, or epoll_ctl does after the session id was drawn.
AbandonHandshake(w) ==
    \E h \in handshakes :
        /\ h.worker = w
        /\ handshakes' = handshakes \ {h}
        /\ nextSessionId' \in {nextSessionId, nextSessionId + 1}
        /\ UNCHANGED <<accepted, pending, tasks, agenda, workerVars,
                       requestVars, inflight, messages, delivered>>

-----------------------------------------------------------------------------
(* Socket events *)

\* handleReadable on a descriptor that is not in the map or is being revoked.
ReadNothing(w) ==
    /\ At(w, "in")
    /\ <<w, Head(agenda[w]).fd>> \notin LiveKeys \ revoking
    /\ Done(w)
    /\ UNCHANGED <<accepted, pending, tasks, handshakes, nextSessionId,
                   workerVars, requestVars, inflight, messages, delivered>>

\* A business frame: the dispatcher hands a task to the business threads,
\* which will reply to the sender or announce an envelope to a device.
ReadMessage(w) ==
    LET k == <<w, Head(agenda[w]).fd>>
        s == SessionAt(k)
    IN /\ At(w, "in")
       /\ k \in LiveKeys \ revoking
       /\ messages < MaxMessages
       /\ messages' = messages + 1
       /\ \E t \in {[kind |-> "reply", fd |-> s.fd, sid |-> s.sid,
                     device |-> s.device]}
                   \cup {[kind |-> "sync", device |-> d] : d \in Devices} :
            inflight' = inflight \cup {[worker |-> w, task |-> t]}
       /\ Done(w)
       /\ UNCHANGED <<accepted, pending, tasks, handshakes, nextSessionId,
                      workerVars, requestVars, delivered>>

\* A Ping, answered with a Pong; or a Close, whose answer is queued too, after
\* which the session is closing.
ReadControl(w) ==
    LET k == <<w, Head(agenda[w]).fd>>
    IN /\ At(w, "in")
       /\ k \in LiveKeys \ revoking
       /\ wantWrite' = wantWrite \cup {k}
       /\ closing' \in {closing, closing \cup {k}}
       /\ Done(w)
       /\ UNCHANGED <<accepted, pending, tasks, handshakes, nextSessionId,
                      sessions, index, revoking, overdue, callbacks, ready,
                      requestVars, inflight, messages, delivered>>

\* PeerClosed, ProtocolError or IoError.
ReadEnds(w) ==
    LET k == <<w, Head(agenda[w]).fd>>
    IN /\ At(w, "in")
       /\ k \in LiveKeys \ revoking
       /\ Remove({k})
       /\ Done(w)
       /\ UNCHANGED <<accepted, pending, tasks, handshakes, nextSessionId,
                      requestVars, inflight, messages, delivered>>

\* handleWritable: a drained buffer ends a closing session and the EPOLLOUT
\* interest of another; a full socket changes nothing; an error removes.
HandleWritable(w) ==
    LET k == <<w, Head(agenda[w]).fd>>
    IN /\ At(w, "out")
       /\ \/ UNCHANGED workerVars
          \/ /\ k \in LiveKeys \ closing
             /\ wantWrite' = wantWrite \ {k}
             /\ UNCHANGED <<sessions, index, closing, revoking, overdue,
                            callbacks, ready>>
          \/ /\ k \in LiveKeys
             /\ Remove({k})
       /\ Done(w)
       /\ UNCHANGED <<accepted, pending, tasks, handshakes, nextSessionId,
                      requestVars, inflight, messages, delivered>>

\* EPOLLERR or EPOLLHUP removes whatever session the descriptor has now.
HandleHangup(w) ==
    /\ At(w, "hup")
    /\ Remove({<<w, Head(agenda[w]).fd>>})
    /\ Done(w)
    /\ UNCHANGED <<accepted, pending, tasks, handshakes, nextSessionId,
                   requestVars, inflight, messages, delivered>>

\* EPOLLRDHUP leaves a closing session to its queued output.
HandlePeerShutdown(w) ==
    /\ At(w, "rdhup")
    /\ Remove({<<w, Head(agenda[w]).fd>>} \cap (LiveKeys \ closing))
    /\ Done(w)
    /\ UNCHANGED <<accepted, pending, tasks, handshakes, nextSessionId,
                   requestVars, inflight, messages, delivered>>

-----------------------------------------------------------------------------
(* handleTimer, every 5 seconds: a revoked session is removed once its       *)
(* 2-second deadline has passed, which the second tick always finds; others  *)
(* are removed when their Pong is late, or sent a Ping.                      *)

\* MUTANT: a session that is being revoked is skipped.
DeadlinePassed_Never(mine) == {{}}

\* The revoked sessions a tick may find past their deadline.
DeadlinePassed(mine) ==
    {(mine \cap overdue) \cup passed :
        passed \in SUBSET ((mine \cap revoking) \ overdue)}

HandleTimer(w) ==
    LET mine == {k \in LiveKeys : k[1] = w}
    IN /\ At(w, "timer")
       /\ \E passed \in DeadlinePassed(mine), late \in SUBSET (mine \ revoking) :
          \E pinged \in SUBSET (mine \ (revoking \cup late)) :
            RemoveSessions(passed \cup late, closing, revoking,
                           overdue \cup (mine \cap revoking),
                           wantWrite \cup pinged, callbacks)
       /\ Done(w)
       /\ UNCHANGED <<accepted, pending, tasks, handshakes, nextSessionId,
                      requestVars, inflight, messages, delivered>>

-----------------------------------------------------------------------------
(* Tasks *)

\* The closure of revokeDeviceConnections: every session of the device gets a
\* callback; the ones not being revoked yet get a deadline and, unless a Close
\* is queued already, a Close frame; those whose output drains at once, or
\* whose socket fails, are removed here.
RunRevoke(w) ==
    LET r       == Head(agenda[w]).request
        targets == {Key(s) : s \in {x \in sessions :
                                      x.worker = w /\ x.device = target[r]}}
        fresh   == targets \ revoking
    IN /\ At(w, "revoke")
       /\ \/ /\ targets = {}
             /\ ready' = ready \cup {<<r, w>>}
             /\ UNCHANGED <<sessions, index, closing, revoking, overdue,
                            wantWrite, callbacks>>
          \/ /\ targets # {}
             /\ \E drained \in SUBSET fresh :
                  RemoveSessions(drained, closing \cup fresh, revoking \cup fresh,
                      overdue, wantWrite \cup fresh,
                      callbacks \cup {[request |-> r, worker |-> w, fd |-> k[2]] :
                                      k \in targets})
       /\ Done(w)
       /\ UNCHANGED <<accepted, pending, tasks, handshakes, nextSessionId,
                      requestVars, inflight, messages, delivered>>

\* MUTANT: the descriptor alone identifies the session.
FindsSession_ByDescriptor(w, t) ==
    \E s \in sessions :
        s.worker = w /\ s.fd = t.fd /\ Key(s) \notin closing

\* A reply or a push finds its session: same descriptor, same session id, for a
\* push the same device, and not closing.
FindsSession(w, t) ==
    \E s \in sessions :
        /\ s.worker = w /\ s.fd = t.fd /\ s.sid = t.sid
        /\ t.kind = "push" => s.device = t.device
        /\ Key(s) \notin closing

\* The frame is appended to the session's output; epoll_ctl may fail.
RunDelivery(w) ==
    LET t == Head(agenda[w])
        k == <<w, t.fd>>
    IN /\ At(w, "reply") \/ At(w, "push")
       /\ FindsSession(w, t)
       /\ delivered' = delivered \cup
            {[kind |-> t.kind, to |-> SessionAt(k), sid |-> t.sid, device |-> t.device]}
       /\ \/ /\ wantWrite' = wantWrite \cup {k}
             /\ UNCHANGED <<sessions, index, closing, revoking, overdue,
                            callbacks, ready>>
          \/ Remove({k})
       /\ Done(w)
       /\ UNCHANGED <<accepted, pending, tasks, handshakes, nextSessionId,
                      requestVars, inflight, messages>>

DropDelivery(w) ==
    /\ At(w, "reply") \/ At(w, "push")
    /\ ~FindsSession(w, Head(agenda[w]))
    /\ Done(w)
    /\ UNCHANGED <<accepted, pending, tasks, handshakes, nextSessionId,
                   workerVars, requestVars, inflight, messages, delivered>>

\* push_To_Device: the directory is read under the pool's mutex and a push
\* queued at the worker it names; an offline device gets nothing.
RunSync(w) ==
    /\ At(w, "sync")
    /\ \/ \E e \in index :
            /\ e.device = Head(agenda[w]).device
            /\ tasks' = [tasks EXCEPT ![e.worker] =
                    Append(@, [kind |-> "push", fd |-> e.fd, sid |-> e.sid,
                               device |-> e.device])]
       \/ /\ ~\E e \in index : e.device = Head(agenda[w]).device
          /\ UNCHANGED tasks
    /\ Done(w)
    /\ UNCHANGED <<accepted, pending, handshakes, nextSessionId, workerVars,
                   requestVars, inflight, messages, delivered>>

-----------------------------------------------------------------------------
(* Other threads *)

\* A business thread calls Reply: transferTask to the session's worker.
BusinessReply ==
    \E m \in inflight :
        /\ inflight' = inflight \ {m}
        /\ tasks' = [tasks EXCEPT ![m.worker] = Append(@, m.task)]
        /\ UNCHANGED <<accepted, pending, agenda, handshakes, nextSessionId,
                       workerVars, requestVars, messages, delivered>>

\* MUTANT: the broadcast does not wait for the commit.
RevokeCommit_NotYet(r) ==
    /\ request[r] = "idle"
    /\ request' = [request EXCEPT ![r] = "committed"]
    /\ UNCHANGED <<active, target, accepted, pending, tasks, agenda, handshakes,
                   nextSessionId, workerVars, inflight, messages, delivered>>

\* The HTTP thread of /revoke_device commits; a device that was revoked before
\* is broadcast again.
RevokeCommit(r) ==
    /\ request[r] = "idle"
    /\ request' = [request EXCEPT ![r] = "committed"]
    /\ active' = active \ {target[r]}
    /\ UNCHANGED <<target, accepted, pending, tasks, agenda, handshakes,
                   nextSessionId, workerVars, inflight, messages, delivered>>

\* closeSession queues the closure at every worker under the pool's mutex.
CloseSession(r) ==
    /\ request[r] = "committed"
    /\ request' = [request EXCEPT ![r] = "waiting"]
    /\ tasks' = [w \in Workers |->
                    Append(tasks[w], [kind |-> "revoke", request |-> r])]
    /\ UNCHANGED <<active, target, accepted, pending, agenda, handshakes,
                   nextSessionId, workerVars, inflight, messages, delivered>>

\* Every future is ready before the 8-second deadline: HTTP 200.
AllReady(r) == \A w \in Workers : <<r, w>> \in ready

Confirm(r) ==
    /\ request[r] = "waiting"
    /\ AllReady(r)
    /\ request' = [request EXCEPT ![r] = "confirmed"]
    /\ UNCHANGED <<active, target, accepted, pending, tasks, agenda, handshakes,
                   nextSessionId, workerVars, inflight, messages, delivered>>

\* The deadline passes first: HTTP 202.
GiveUp(r) ==
    /\ request[r] = "waiting"
    /\ ~AllReady(r)
    /\ request' = [request EXCEPT ![r] = "unconfirmed"]
    /\ UNCHANGED <<active, target, accepted, pending, tasks, agenda, handshakes,
                   nextSessionId, workerVars, inflight, messages, delivered>>

-----------------------------------------------------------------------------

Handle(w) ==
    \/ HandleWakeup(w) \/ HandleTask(w) \/ HandleTimer(w)
    \/ VerifyIdentity(w) \/ RejectHandshake(w)
    \/ RegisterSession(w) \/ AbandonHandshake(w)
    \/ ReadNothing(w) \/ ReadMessage(w) \/ ReadControl(w) \/ ReadEnds(w)
    \/ HandleWritable(w) \/ HandleHangup(w) \/ HandlePeerShutdown(w)
    \/ RunRevoke(w) \/ RunDelivery(w) \/ DropDelivery(w) \/ RunSync(w)

Request(r) == RevokeCommit(r) \/ CloseSession(r) \/ Confirm(r) \/ GiveUp(r)

Next ==
    \/ \E fd \in Fds, d \in Devices : ForwardConnection(fd, d)
    \/ \E w \in Workers : EpollWait(w) \/ Handle(w)
    \/ BusinessReply
    \/ \E r \in Revokes : Request(r)

Spec == Init /\ [][Next]_vars

TimerTick(w) ==
    /\ EpollWait(w)
    /\ \E i \in DOMAIN agenda'[w] : agenda'[w][i].kind = "timer"

\* A worker finishes the events it was given, epoll_wait reports a written
\* eventfd, and the 5-second timer keeps firing.  Peers, clients and business
\* threads owe nothing.
Fairness ==
    /\ \A w \in Workers :
        /\ WF_vars(Handle(w))
        /\ SF_vars(TimerTick(w))
    /\ \A r \in Revokes : WF_vars(CloseSession(r))

FairSpec == Spec /\ Fairness

-----------------------------------------------------------------------------
(* Properties *)

\* addIndex and removeIndex keep online_connections_ exact although every
\* worker writes it: an entry names a session that is registered at that
\* worker under that descriptor and id, for that device, and a device has one.
DirectoryNamesLiveSessions ==
    /\ index \subseteq sessions
    /\ \A e, f \in index : e.device = f.device => e = f

\* HTTP 200 / websocket_closed = true: no worker has a session of the revoked
\* device, or will have one, even if its handshake had passed the database
\* check before the revocation committed.
ConfirmedMeansGone ==
    \A r \in Revokes :
        request[r] = "confirmed" =>
            /\ \A s \in sessions : s.device # target[r]
            /\ \A h \in handshakes : h.device # target[r]

\* A descriptor the kernel hands out again starts with none of its previous
\* session's closing flag, deadline, write interest or callbacks.
ReusedDescriptorIsClean ==
    closing \cup revoking \cup wantWrite \cup {Key(c) : c \in callbacks}
        \subseteq LiveKeys

\* A promise is set once: while a callback of a request is left on a worker
\* that worker has not reported completion.
CompletionOnce == \A c \in callbacks : <<c.request, c.worker>> \notin ready

\* A reply or a push reaches the session it was meant for, not a session that
\* got its descriptor later.
NoMisdelivery ==
    \A m \in delivered : m.to.sid = m.sid /\ m.to.device = m.device

\* Whether the HTTP request got 200 or 202, the sessions of the revoked device
\* are closed in the end: the timer cuts off peers that do not read.
RevokedSessionsClose ==
    \A r \in Revokes :
        request[r] # "idle" ~> \A s \in sessions : s.device # target[r]

\* websocket-worker-message-flow.md, 5: when the descriptor's session has been
\* removed, the event is not processed.  A hang-up that epoll reported for a
\* session that is gone by now must leave the sessions alone.
RemovedSessionsEventIgnored ==
    [][\A w \in Workers :
        /\ At(w, "hup") \/ At(w, "rdhup")
        /\ ~\E s \in sessions : s.worker = w /\ s.sid = Head(agenda[w]).of
        /\ agenda'[w] = Tail(agenda[w])
        => sessions' = sessions]_vars
=============================================================================
