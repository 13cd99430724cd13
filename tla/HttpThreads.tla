---------------------------- MODULE HttpThreads ----------------------------
(***************************************************************************)
(* The HTTP worker pool (src/server/ThreadPool.cpp) with the listener and  *)
(* the session it drives.                                                  *)
(*                                                                         *)
(* The accepting thread polls the listener, queues what it accepts and     *)
(* stops the pool; each worker takes a descriptor from the queue, enters   *)
(* it in active_fds_, runs the session and takes it out again.  A session  *)
(* that ends in a WebSocket upgrade hands its connection to the WebSocket  *)
(* pool instead of closing it.  Every action is a stretch of code between  *)
(* two points where another thread can run: the critical sections of       *)
(* mutex_, the notifications made after unlocking, and the calls made      *)
(* between critical sections.                                              *)
(*                                                                         *)
(* Descriptors are small numbers, the kernel gives the lowest free one.    *)
(* `owner' is who will close a descriptor; `interrupted' are the           *)
(* descriptors whose socket was shut down.  What a request asks for is     *)
(* abstracted to how its session ends.                                     *)
(***************************************************************************)
EXTENDS Integers, Sequences, FiniteSets

CONSTANTS Workers,       \* min_capacity threads
          Fds,           \* the descriptors the process may have open
          MaxQueue,      \* max_capacity: the length of the queue
          MaxUpgrades    \* bound on the number of upgraded connections

ASSUME FdsAssumption == Fds \subseteq Nat /\ IsFiniteSet(Fds)
ASSUME QueueAssumption == MaxQueue \in Nat \ {0}
ASSUME UpgradesAssumption == MaxUpgrades \in Nat
ASSUME WorkersAssumption == Workers \cap {"none", "main", "queue", "websocket"} = {}

VARIABLES
  stopping,      \* stopping
  task_queue,    \* task_queue
  active_fds,    \* active_fds_
  owner,         \* who holds the UniqueFd of a descriptor
  interrupted,   \* open descriptors on which shutdown() was called
  pc, fd,        \* where a worker is, and its rawFd
  main, mainFd,  \* where the accepting thread is, and what it accepted
  stopper,       \* another thread that calls requestStop()
  upgrades

vars == <<stopping, task_queue, active_fds, owner, interrupted, pc, fd, main,
          mainFd, stopper, upgrades>>

NoFd == -1
Owners == {"none", "main", "queue", "websocket"} \union Workers
Free == {f \in Fds : owner[f] = "none"}
LowestFree(f) == f \in Free /\ \A g \in Free : f <= g

\* The waiting workers are those blocked in condition_.wait.
Waiting == {w \in Workers : pc[w] = "waiting"}
NotifyAll == pc' = [w \in Workers |-> IF pc[w] = "waiting" THEN "check" ELSE pc[w]]
NotifyOne ==
  IF Waiting = {} THEN pc' = pc
  ELSE \E w \in Waiting : pc' = [pc EXCEPT ![w] = "check"]

\* UniqueFd's destructor: the descriptor is free, its socket is gone.
Close(f) == /\ owner' = [owner EXCEPT ![f] = "none"]
            /\ interrupted' = interrupted \ {f}

TypeOK ==
  /\ stopping \in BOOLEAN
  /\ task_queue \in Seq(Fds) /\ Len(task_queue) <= MaxQueue
  /\ active_fds \subseteq Fds
  /\ owner \in [Fds -> Owners]
  /\ interrupted \subseteq {f \in Fds : owner[f] # "none"}
  /\ pc \in [Workers -> {"check", "waiting", "taken", "serving", "forwarded",
                         "unregister", "closing", "exited"}]
  /\ fd \in [Workers -> Fds \union {NoFd}]
  /\ main \in {"loop", "accepted", "notify", "stop", "wake", "close", "wakeAgain",
               "join", "joined"}
  /\ mainFd \in Fds \union {NoFd}
  /\ stopper \in {"ready", "notify", "done"}
  /\ upgrades \in 0..MaxUpgrades

\* After init(): the threads exist and nothing was accepted.
Init ==
  /\ stopping = FALSE /\ task_queue = <<>> /\ active_fds = {}
  /\ owner = [f \in Fds |-> "none"] /\ interrupted = {}
  /\ pc = [w \in Workers |-> "check"] /\ fd = [w \in Workers |-> NoFd]
  /\ main = "loop" /\ mainFd = NoFd /\ stopper = "ready" /\ upgrades = 0

-----------------------------------------------------------------------------
(* The accepting thread: running().                                         *)

\* poll and accept; the loop goes on without a descriptor otherwise.
AcceptConnection ==
  /\ main = "loop" /\ ~stopping
  /\ \E f \in Fds : LowestFree(f) /\ mainFd' = f /\ owner' = [owner EXCEPT ![f] = "main"]
  /\ main' = "accepted"
  /\ UNCHANGED <<stopping, task_queue, active_fds, interrupted, pc, fd, stopper, upgrades>>

\* stopRequested(), or stopping seen at the top of the loop.
LeaveLoop ==
  /\ main = "loop" /\ main' = "stop"
  /\ UNCHANGED <<stopping, task_queue, active_fds, owner, interrupted, pc, fd, mainFd,
                 stopper, upgrades>>

\* The listener fails, accept finds no descriptor (EMFILE) or setsockopt fails, and
\* acceptConnection throws: the catch of running() requests the stop and rethrows.
\* The pool itself then goes the same way, its destructor calls close(); what the
\* exception does to the rest of the process is in ServerLifecycle.
RunningThrows ==
  /\ main = "loop" /\ main' = "stop"
  /\ UNCHANGED <<stopping, task_queue, active_fds, owner, interrupted, pc, fd, mainFd,
                 stopper, upgrades>>

\* Stopping and a full queue both leave the descriptor to its destructor.
Refuses == stopping \/ Len(task_queue) >= MaxQueue

Refuse ==
  /\ main = "accepted" /\ Refuses
  /\ main' = IF stopping THEN "stop" ELSE "loop"
  /\ Close(mainFd) /\ mainFd' = NoFd
  /\ UNCHANGED <<stopping, task_queue, active_fds, pc, fd, stopper, upgrades>>

Enqueue ==
  /\ main = "accepted" /\ ~Refuses
  /\ task_queue' = Append(task_queue, mainFd)
  /\ owner' = [owner EXCEPT ![mainFd] = "queue"]
  /\ main' = "notify" /\ mainFd' = NoFd
  /\ UNCHANGED <<stopping, active_fds, interrupted, pc, fd, stopper, upgrades>>

NotifyWorker_Forgotten ==
  /\ main = "notify" /\ main' = "loop"
  /\ UNCHANGED <<stopping, task_queue, active_fds, owner, interrupted, pc, fd, mainFd,
                 stopper, upgrades>>

NotifyWorker ==
  /\ main = "notify" /\ NotifyOne /\ main' = "loop"
  /\ UNCHANGED <<stopping, task_queue, active_fds, owner, interrupted, fd, mainFd,
                 stopper, upgrades>>

-----------------------------------------------------------------------------
(* requestStop() and close().                                               *)

\* The descriptors requestStop shuts down: those registered, if still open once
\* the queue was emptied (shutdown of a closed descriptor fails with EBADF).
ShutDown == {f \in active_fds : owner[f] \notin {"none", "queue"}}

\* The critical section of requestStop; the queued UniqueFds are destroyed.
Stop ==
  /\ stopping' = TRUE /\ task_queue' = <<>>
  /\ owner' = [f \in Fds |-> IF owner[f] = "queue" THEN "none" ELSE owner[f]]
  /\ interrupted' = interrupted \union ShutDown
  /\ UNCHANGED <<active_fds, fd, mainFd, upgrades>>

\* running() ends with requestStop(), on both ways out; close() begins with it.
MainStops ==
  /\ main \in {"stop", "close"} /\ Stop
  /\ main' = IF main = "stop" THEN "wake" ELSE "wakeAgain"
  /\ UNCHANGED <<pc, stopper>>

MainWakes ==
  /\ main \in {"wake", "wakeAgain"} /\ NotifyAll
  /\ main' = IF main = "wake" THEN "close" ELSE "join"
  /\ UNCHANGED <<stopping, task_queue, active_fds, owner, interrupted, fd, mainFd,
                 stopper, upgrades>>

Join ==
  /\ main = "join" /\ \A w \in Workers : pc[w] = "exited"
  /\ main' = "joined"
  /\ UNCHANGED <<stopping, task_queue, active_fds, owner, interrupted, pc, fd, mainFd,
                 stopper, upgrades>>

\* requestStop() is thread-safe: some other thread calls it at any time.
RequestStop ==
  /\ stopper = "ready" /\ stopper' = "notify" /\ Stop
  /\ UNCHANGED <<pc, main>>

RequestStopNotifies ==
  /\ stopper = "notify" /\ stopper' = "done" /\ NotifyAll
  /\ UNCHANGED <<stopping, task_queue, active_fds, owner, interrupted, fd, main, mainFd,
                 upgrades>>

-----------------------------------------------------------------------------
(* A worker.                                                                *)

Wait(w) ==
  /\ pc[w] = "check" /\ ~stopping /\ task_queue = <<>>
  /\ pc' = [pc EXCEPT ![w] = "waiting"]
  /\ UNCHANGED <<stopping, task_queue, active_fds, owner, interrupted, fd, main, mainFd,
                 stopper, upgrades>>

SpuriousWakeup(w) ==
  /\ pc[w] = "waiting" /\ pc' = [pc EXCEPT ![w] = "check"]
  /\ UNCHANGED <<stopping, task_queue, active_fds, owner, interrupted, fd, main, mainFd,
                 stopper, upgrades>>

Exit(w) ==
  /\ pc[w] = "check" /\ stopping
  /\ pc' = [pc EXCEPT ![w] = "exited"]
  /\ UNCHANGED <<stopping, task_queue, active_fds, owner, interrupted, fd, main, mainFd,
                 stopper, upgrades>>

Take(w) ==
  /\ pc[w] = "check" /\ ~stopping /\ task_queue # <<>>
  /\ fd' = [fd EXCEPT ![w] = Head(task_queue)]
  /\ owner' = [owner EXCEPT ![Head(task_queue)] = w]
  /\ task_queue' = Tail(task_queue)
  /\ pc' = [pc EXCEPT ![w] = "taken"]
  /\ UNCHANGED <<stopping, active_fds, interrupted, main, mainFd, stopper, upgrades>>

Register(w) ==
  /\ pc[w] = "taken" /\ ~stopping
  /\ active_fds' = active_fds \union {fd[w]}
  /\ pc' = [pc EXCEPT ![w] = "serving"]
  /\ UNCHANGED <<stopping, task_queue, owner, interrupted, fd, main, mainFd, stopper,
                 upgrades>>

\* A session taken before the stop and not registered yet is dropped.
DropUnregistered(w) ==
  /\ pc[w] = "taken" /\ stopping
  /\ Close(fd[w]) /\ fd' = [fd EXCEPT ![w] = NoFd]
  /\ pc' = [pc EXCEPT ![w] = "check"]
  /\ UNCHANGED <<stopping, task_queue, active_fds, main, mainFd, stopper, upgrades>>

\* HandleHttpSession returns without a connection to hand over, or throws: a
\* response was sent, the peer closed, 15 seconds passed, shutdown() was called.
EndSession(w) ==
  /\ pc[w] = "serving" /\ pc' = [pc EXCEPT ![w] = "unregister"]
  /\ UNCHANGED <<stopping, task_queue, active_fds, owner, interrupted, fd, main, mainFd,
                 stopper, upgrades>>

\* The request asks for an upgrade: forward_connections moves the connection.
Forward(w) ==
  /\ pc[w] = "serving" /\ upgrades < MaxUpgrades
  /\ upgrades' = upgrades + 1
  /\ owner' = [owner EXCEPT ![fd[w]] = "websocket"]
  /\ pc' = [pc EXCEPT ![w] = "forwarded"]
  /\ UNCHANGED <<stopping, task_queue, active_fds, interrupted, fd, main, mainFd, stopper>>

\* active_fds_.erase(rawFd), once after a hand-over and once for every session.
Unregister(w) ==
  /\ pc[w] \in {"forwarded", "unregister"}
  /\ active_fds' = active_fds \ {fd[w]}
  /\ pc' = [pc EXCEPT ![w] = IF pc[w] = "forwarded" THEN "unregister" ELSE "closing"]
  /\ UNCHANGED <<stopping, task_queue, owner, interrupted, fd, main, mainFd, stopper,
                 upgrades>>

CloseSession_ByNumber(w) ==
  /\ pc[w] = "closing"
  /\ Close(fd[w])
  /\ fd' = [fd EXCEPT ![w] = NoFd]
  /\ pc' = [pc EXCEPT ![w] = "check"]
  /\ UNCHANGED <<stopping, task_queue, active_fds, main, mainFd, stopper, upgrades>>

\* The session's destructor closes the connection unless it was moved away.
CloseSession(w) ==
  /\ pc[w] = "closing"
  /\ IF owner[fd[w]] = w THEN Close(fd[w]) ELSE UNCHANGED <<owner, interrupted>>
  /\ fd' = [fd EXCEPT ![w] = NoFd]
  /\ pc' = [pc EXCEPT ![w] = "check"]
  /\ UNCHANGED <<stopping, task_queue, active_fds, main, mainFd, stopper, upgrades>>

\* A WebSocket worker rejects the handshake or closes the session later.
WebSocketCloses(f) ==
  /\ owner[f] = "websocket" /\ Close(f)
  /\ UNCHANGED <<stopping, task_queue, active_fds, pc, fd, main, mainFd, stopper, upgrades>>

Main == \/ AcceptConnection \/ LeaveLoop \/ Refuse \/ Enqueue \/ NotifyWorker
        \/ MainStops \/ MainWakes \/ Join
Worker(w) == \/ Wait(w) \/ Exit(w) \/ Take(w) \/ Register(w) \/ DropUnregistered(w)
             \/ Unregister(w) \/ CloseSession(w)

Next == \/ Main \/ RunningThrows \/ RequestStop \/ RequestStopNotifies
        \/ \E w \in Workers : Worker(w) \/ EndSession(w) \/ Forward(w) \/ SpuriousWakeup(w)
        \/ \E f \in Fds : WebSocketCloses(f)

-----------------------------------------------------------------------------
(* Threads that can run do run.  A session whose socket was shut down ends;  *)
(* others end only if their client lets them: a client that keeps sending    *)
(* header bytes within the receive timeout is never cut off.                 *)

EndInterrupted(w) == EndSession(w) /\ fd[w] \in interrupted
Leaving == \/ Refuse \/ Enqueue \/ NotifyWorker \/ MainStops \/ MainWakes \/ Join
           \/ (LeaveLoop /\ stopping)
Fairness ==
  /\ WF_vars(Leaving) /\ WF_vars(RequestStopNotifies)
  /\ \A w \in Workers : WF_vars(Worker(w)) /\ WF_vars(EndInterrupted(w))

Spec == Init /\ [][Next]_vars /\ Fairness

-----------------------------------------------------------------------------
(* Properties.                                                              *)

\* The accepting thread looks at `stopping' before it accepts and again before it
\* queues: once a stop was requested, from whichever thread, no connection is ever
\* left in the queue, where nobody would serve or close it.
StoppedQueueEmpty == stopping => task_queue = <<>>

\* requestStop interrupts the I/O of every session that is being served, so that
\* its worker can be joined whatever the client does: no session slips in between
\* the registration of its descriptor and the sweep of the registered ones.
StopInterruptsEverySession ==
  stopping => \A w \in Workers : pc[w] = "serving" => fd[w] \in interrupted

\* A descriptor has one owner although its number goes from thread to thread and is
\* given again after a close: what a worker serves, what the accepting thread holds
\* and what is queued is open and theirs, so no destructor, of a moved-from
\* connection or of a session that ended, closes the descriptor of another.
DescriptorsHaveOneOwner ==
  /\ \A w \in Workers : pc[w] \in {"taken", "serving"} => owner[fd[w]] = w
  /\ \A i, j \in 1..Len(task_queue) :
       /\ owner[task_queue[i]] = "queue"
       /\ task_queue[i] = task_queue[j] => i = j
  /\ main = "accepted" => owner[mainFd] = "main"

\* A full queue does not stay full: what is queued is taken by a worker or closed by
\* the stop, so clients are refused for a while only; no notification is lost
\* between the threads that share condition_.
FullQueueDrains == (Len(task_queue) = MaxQueue) ~> (Len(task_queue) < MaxQueue)
=============================================================================
