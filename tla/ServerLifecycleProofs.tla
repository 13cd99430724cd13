------------------------ MODULE ServerLifecycleProofs ------------------------
(***************************************************************************)
(* Proofs about the HTTP worker pool and about the whole process, for      *)
(* every number of HTTP workers, WebSocket workers, business threads,      *)
(* queue capacity, descriptors and requests: a descriptor has one owner,   *)
(* nothing is destroyed while something uses it, and a request is answered *)
(* once.                                                                   *)
(*                                                                         *)
(* The invariant says who has a descriptor, where a task is, and what the  *)
(* progress of main() implies about the threads it has joined.             *)
(***************************************************************************)
EXTENDS ServerLifecycle, SequenceTheorems, TLAPS

-----------------------------------------------------------------------------
(* The HTTP worker pool alone.                                              *)

\* Where a worker has a descriptor number, and the accepting thread one.
Placed ==
  /\ \A w \in Workers : pc[w] \notin {"check", "waiting", "exited"} => fd[w] \in Fds
  /\ main = "accepted" => mainFd \in Fds
  /\ main \in {"wake", "close", "wakeAgain", "join", "joined"} => stopping

\* A socket is shut down only by a stop, and a descriptor owned by the queue is in
\* it: the two facts that make a stop leave no closed descriptor interrupted.
Swept ==
  /\ ~stopping => interrupted = {}
  /\ \A f \in Fds : owner[f] = "queue" => \E i \in 1..Len(task_queue) : task_queue[i] = f

\* The inductive invariant.
HttpInv == TypeOK /\ StoppedQueueEmpty /\ DescriptorsHaveOneOwner /\ Placed /\ Swept

\* Before the first accept nothing is open and nothing is queued.
LEMMA HttpInit == Init => HttpInv
  <1> SUFFICES ASSUME Init PROVE HttpInv
    OBVIOUS
  <1> USE DEF Init
  <1>1. TypeOK
    <2>1. task_queue \in Seq(Fds) /\ Len(task_queue) <= MaxQueue
      BY QueueAssumption
    <2>2. upgrades \in 0..MaxUpgrades
      BY UpgradesAssumption
    <2>3. owner \in [Fds -> Owners] /\ fd \in [Workers -> Fds \cup {NoFd}]
      BY DEF Owners
    <2> QED
      BY <2>1, <2>2, <2>3 DEF TypeOK
  <1>2. DescriptorsHaveOneOwner
    BY DEF DescriptorsHaveOneOwner
  <1>3. Placed /\ Swept
    BY DEF Placed, Swept
  <1> QED
    BY <1>1, <1>2, <1>3 DEF HttpInv, StoppedQueueEmpty

\* The steps of the accepting thread.
LEMMA MainPreserves == HttpInv /\ Main => HttpInv'
  <1> SUFFICES ASSUME HttpInv, Main PROVE HttpInv'
    OBVIOUS
  <1> USE QueueAssumption, UpgradesAssumption, WorkersAssumption
      DEF HttpInv, TypeOK, StoppedQueueEmpty, DescriptorsHaveOneOwner, Placed, Swept, Owners, NoFd
  <1>1. CASE AcceptConnection
    BY <1>1 DEF AcceptConnection, LowestFree, Free
  <1>2. CASE LeaveLoop
    BY <1>2 DEF LeaveLoop
  <1>3. CASE Refuse
    BY <1>3 DEF Refuse, Refuses, Close
  <1>4. CASE Enqueue
    BY <1>4 DEF Enqueue, Refuses
  <1>5. CASE NotifyWorker
    BY <1>5 DEF NotifyWorker, NotifyOne, Waiting
  <1>6. CASE MainStops
    BY <1>6 DEF MainStops, Stop, ShutDown
  <1>7. CASE MainWakes
    BY <1>7 DEF MainWakes, NotifyAll
  <1>8. CASE Join
    BY <1>8 DEF Join
  <1> QED
    BY <1>1, <1>2, <1>3, <1>4, <1>5, <1>6, <1>7, <1>8 DEF Main

\* The steps of a worker.
LEMMA WorkerPreserves ==
  ASSUME HttpInv, NEW w \in Workers,
         Worker(w) \/ EndSession(w) \/ Forward(w) \/ SpuriousWakeup(w)
  PROVE  HttpInv'
  <1> USE QueueAssumption, UpgradesAssumption, WorkersAssumption
      DEF HttpInv, TypeOK, StoppedQueueEmpty, DescriptorsHaveOneOwner, Placed, Swept, Owners, NoFd
  <1>1. CASE Wait(w)
    BY <1>1 DEF Wait
  <1>2. CASE Exit(w)
    BY <1>2 DEF Exit
  <1>3. CASE Take(w)
    <2> DEFINE h == Head(task_queue)
    <2>1. /\ h \in Fds /\ h = task_queue[1] /\ owner[h] = "queue"
          /\ Len(task_queue') = Len(task_queue) - 1
          /\ task_queue' \in Seq(Fds)
          /\ \A i \in 1..Len(task_queue') : task_queue'[i] = task_queue[i + 1]
      BY <1>3 DEF Take
    <2>2. /\ pc' = [pc EXCEPT ![w] = "taken"]
          /\ fd' = [fd EXCEPT ![w] = h]
          /\ owner' = [owner EXCEPT ![h] = w]
      BY <1>3 DEF Take
    <2>3. TypeOK' /\ StoppedQueueEmpty' /\ Placed'
      BY <1>3, <2>1, <2>2 DEF Take
    <2>4. \A v \in Workers : pc'[v] \in {"taken", "serving"} => owner'[fd'[v]] = v
      BY <2>1, <2>2
    <2>5. \A i, j \in 1..Len(task_queue') :
             /\ owner'[task_queue'[i]] = "queue"
             /\ task_queue'[i] = task_queue'[j] => i = j
      <3>1. SUFFICES ASSUME NEW i \in 1..Len(task_queue'), NEW j \in 1..Len(task_queue')
                     PROVE  /\ owner'[task_queue'[i]] = "queue"
                            /\ task_queue'[i] = task_queue'[j] => i = j
        OBVIOUS
      <3>2. /\ i + 1 \in 1..Len(task_queue) /\ j + 1 \in 1..Len(task_queue)
            /\ 1 \in 1..Len(task_queue) /\ i + 1 # 1
        BY <2>1
      <3>3. task_queue[i + 1] # h /\ owner[task_queue[i + 1]] = "queue"
        BY <2>1, <3>2
      <3> QED
        BY <2>1, <2>2, <3>2, <3>3
    <2>6. main' = "accepted" => owner'[mainFd'] = "main"
      BY <1>3, <2>1, <2>2 DEF Take
    <2>7. ~stopping' => interrupted' = {}
      BY <1>3 DEF Take
    <2>8. ASSUME NEW f \in Fds, owner'[f] = "queue"
          PROVE  \E i \in 1..Len(task_queue') : task_queue'[i] = f
      <3>1. f # h /\ owner[f] = "queue"
        BY <2>1, <2>2, <2>8
      <3>2. PICK i \in 1..Len(task_queue) : task_queue[i] = f
        BY <3>1
      <3>3. i # 1 /\ i - 1 \in 1..Len(task_queue') /\ (i - 1) + 1 = i
        BY <2>1, <3>1, <3>2
      <3>4. task_queue'[i - 1] = f
        BY <2>1, <3>2, <3>3
      <3> QED
        BY <3>3, <3>4
    <2> QED
      BY <2>3, <2>4, <2>5, <2>6, <2>7, <2>8
  <1>4. CASE Register(w)
    BY <1>4 DEF Register
  <1>5. CASE DropUnregistered(w)
    BY <1>5 DEF DropUnregistered, Close
  <1>6. CASE Unregister(w)
    BY <1>6 DEF Unregister
  <1>7. CASE CloseSession(w)
    BY <1>7 DEF CloseSession, Close
  <1>8. CASE EndSession(w)
    BY <1>8 DEF EndSession
  <1>9. CASE Forward(w)
    BY <1>9 DEF Forward
  <1>10. CASE SpuriousWakeup(w)
    BY <1>10 DEF SpuriousWakeup
  <1> QED
    BY <1>1, <1>2, <1>3, <1>4, <1>5, <1>6, <1>7, <1>8, <1>9, <1>10 DEF Worker

\* An exception of running(), requestStop() by another thread, and the closes of the
\* WebSocket workers.
LEMMA OthersPreserve ==
  ASSUME HttpInv,
         RunningThrows \/ RequestStop \/ RequestStopNotifies
         \/ (\E f \in Fds : WebSocketCloses(f))
  PROVE  HttpInv'
  <1> USE QueueAssumption, UpgradesAssumption, WorkersAssumption
      DEF HttpInv, TypeOK, StoppedQueueEmpty, DescriptorsHaveOneOwner, Placed, Swept, Owners, NoFd
  <1>1. CASE RequestStop
    BY <1>1 DEF RequestStop, Stop, ShutDown
  <1>2. CASE RequestStopNotifies
    BY <1>2 DEF RequestStopNotifies, NotifyAll
  <1>3. ASSUME NEW f \in Fds, WebSocketCloses(f) PROVE HttpInv'
    BY <1>3 DEF WebSocketCloses, Close
  <1>4. CASE RunningThrows
    BY <1>4 DEF RunningThrows
  <1> QED
    BY <1>1, <1>2, <1>3, <1>4

\* Whatever the clients do, and whenever a stop is requested, a stopped pool has an
\* empty queue, the queue keeps its capacity, and every descriptor a thread holds is
\* open and its own: requestStop, the accepting thread and the workers agree on who
\* closes what although the numbers are reused.
THEOREM HttpInvariant == Spec => [](TypeOK /\ StoppedQueueEmpty /\ DescriptorsHaveOneOwner)
  <1>1. HttpInv /\ [Next]_vars => HttpInv'
    <2> SUFFICES ASSUME HttpInv, [Next]_vars PROVE HttpInv'
      OBVIOUS
    <2>1. CASE Next
      BY <2>1, MainPreserves, WorkerPreserves, OthersPreserve DEF Next
    <2>2. CASE UNCHANGED vars
      BY <2>2 DEF vars, HttpInv, TypeOK, StoppedQueueEmpty, DescriptorsHaveOneOwner,
                  Placed, Swept
    <2> QED
      BY <2>1, <2>2
  <1>2. HttpInv => TypeOK /\ StoppedQueueEmpty /\ DescriptorsHaveOneOwner
    BY DEF HttpInv
  <1> QED
    BY HttpInit, <1>1, <1>2, PTL DEF Spec

-----------------------------------------------------------------------------
(* The whole process.                                                       *)

\* Whoever owns a descriptor still knows it: the accepting thread, the worker that
\* serves it, or a WebSocket worker that was not destroyed.
Held ==
  \A f \in Fds :
    /\ owner[f] = "main" => main = "accepted" /\ mainFd = f
    /\ owner[f] \in Workers =>
          pc[owner[f]] \notin {"check", "waiting", "exited"} /\ fd[owner[f]] = f
    /\ owner[f] = "websocket" => home[f] \in WsWorkers /\ wsThread[home[f]] # "destroyed"
    /\ home[f] # "none" => owner[f] = "websocket"

Working(b) == biz[b] \in {"validate", "respond"}
Queued(m) == \E i \in 1..Len(tasks_) : tasks_[i] = m

\* A task is in one place, the queue or a thread, exactly while its request is accepted.
TaskPlaced ==
  /\ \A i, j \in 1..Len(tasks_) : tasks_[i] = tasks_[j] => i = j
  /\ \A m \in Messages : Queued(m) => request[m] = "accepted"
  /\ \A b \in BizThreads : Working(b) => task[b] \in Messages
  /\ \A b \in BizThreads, m \in Messages : Working(b) /\ task[b] = m =>
       request[m] = "accepted" /\ ~Queued(m)
  /\ \A a, b \in BizThreads : Working(a) /\ Working(b) /\ task[a] = task[b] => a = b
  /\ \A m \in Messages : request[m] = "accepted" =>
       /\ from[m] \in WsWorkers
       /\ Queued(m) \/ \E b \in BizThreads : Working(b) /\ task[b] = m

\* A business thread leaves a pool that is stopped and empty, and stays away.
Drained == (\E b \in BizThreads : biz[b] = "exited") => stop_ /\ tasks_ = <<>>

\* What main() has joined by now, by its close() calls or in its destructors.
Joined ==
  /\ main = "joined" => \A w \in Workers : pc[w] = "exited"
  /\ closing # "http" => main = "joined"
  /\ closing # "http" /\ ~unwinding => stop_
  /\ closing \in {"sockets", "workers", "database", "closed"} /\ ~unwinding => BusinessGone
  /\ \A x \in WsWorkers :
       /\ wsThread[x] = "exited" => ~running_[x]
       /\ wsThread[x] = "destroyed" \/ ~running_[x] =>
             closing \in {"workers", "database", "closed", "aborted"}
  /\ closing \in {"database", "closed"} => SocketsGone /\ ~unwinding
  /\ closing = "aborted" => unwinding

\* The inductive invariant.
ServerInv ==
  HttpInv /\ ServerTypeOK /\ Held /\ TaskPlaced /\ Drained /\ Joined /\ AnsweredOnce

-----------------------------------------------------------------------------
(* Steps of the HTTP threads *)

LEMMA HeldByHttp ==
  ASSUME HttpInv, Held, HttpStep
  PROVE  Held'
  <1>0. /\ owner \in [Fds -> Owners] /\ pc \in [Workers -> {"check", "waiting", "taken",
              "serving", "forwarded", "unregister", "closing", "exited"}]
        /\ fd \in [Workers -> Fds \union {NoFd}]
        /\ Workers \cap {"none", "main", "queue", "websocket"} = {}
        /\ home' = home /\ wsThread' = wsThread
    BY WorkersAssumption DEF HttpInv, TypeOK, HttpStep, server, loops
  <1>1. CASE AcceptConnection
    BY <1>0, <1>1 DEF AcceptConnection, LowestFree, Free, Held
  <1>2. CASE LeaveLoop \/ NotifyWorker \/ MainWakes \/ Join
    BY <1>0, <1>2 DEF LeaveLoop, NotifyWorker, NotifyOne, Waiting, MainWakes, NotifyAll, Join,
                      Held
  <1>3. CASE Refuse \/ Enqueue
    <2>1. mainFd \in Fds /\ owner[mainFd] = "main"
      BY <1>3 DEF HttpInv, Placed, DescriptorsHaveOneOwner, Refuse, Enqueue
    <2> QED
      BY <1>0, <1>3, <2>1 DEF Refuse, Enqueue, Close, Held
  <1>4. CASE MainStops
    BY <1>0, <1>4 DEF MainStops, Stop, Held
  <1>5. ASSUME NEW w \in Workers,
               Wait(w) \/ Exit(w) \/ Register(w) \/ Unregister(w) \/ EndSession(w)
               \/ SpuriousWakeup(w)
        PROVE  Held'
    BY <1>0, <1>5 DEF Wait, Exit, Register, Unregister, EndSession, SpuriousWakeup, Held
  <1>6. ASSUME NEW w \in Workers, Take(w)
        PROVE  Held'
    <2>1. PICK h \in Fds : /\ owner[h] = "queue" /\ pc[w] = "check"
                           /\ fd' = [fd EXCEPT ![w] = h]
                           /\ owner' = [owner EXCEPT ![h] = w]
                           /\ pc' = [pc EXCEPT ![w] = "taken"]
      <3>1. /\ task_queue \in Seq(Fds) /\ task_queue # <<>> /\ pc[w] = "check"
            /\ \A i \in 1..Len(task_queue) : owner[task_queue[i]] = "queue"
        BY <1>6 DEF Take, HttpInv, TypeOK, DescriptorsHaveOneOwner
      <3>2. Head(task_queue) \in Fds /\ owner[Head(task_queue)] = "queue"
        BY <3>1
      <3> QED
        BY <1>6, <3>1, <3>2 DEF Take
    <2>2. main' = main /\ mainFd' = mainFd
      BY <1>6 DEF Take
    <2> QED
      BY <1>0, <2>1, <2>2 DEF Held
  <1>7. ASSUME NEW w \in Workers, DropUnregistered(w) \/ CloseSession(w)
        PROVE  Held'
    <2>1. /\ fd[w] \in Fds /\ fd' = [fd EXCEPT ![w] = NoFd] /\ pc' = [pc EXCEPT ![w] = "check"]
          /\ main' = main /\ mainFd' = mainFd
          /\ \/ owner[fd[w]] = w /\ owner' = [owner EXCEPT ![fd[w]] = "none"]
             \/ owner[fd[w]] # w /\ owner' = owner
      BY <1>0, <1>7 DEF DropUnregistered, CloseSession, Close, HttpInv, Placed,
                        DescriptorsHaveOneOwner
    <2> QED
      BY <1>0, <2>1 DEF Held
  <1> QED
    BY <1>1, <1>2, <1>3, <1>4, <1>5, <1>6, <1>7 DEF HttpStep, Main, Worker

LEMMA JoinedByHttp ==
  ASSUME HttpInv, Joined, HttpStep
  PROVE  Joined'
  <1>0. UNCHANGED <<closing, unwinding, stop_, biz, wsThread, running_>>
    BY DEF HttpStep, server, loops, queued, threads, progress
  <1>1. main = "joined" => FALSE
    <2> SUFFICES ASSUME main = "joined"
                 PROVE  FALSE
      OBVIOUS
    <2>1. \A w \in Workers : pc[w] = "exited"
      BY DEF Joined
    <2> QED
      BY <2>1 DEF HttpStep, Main, AcceptConnection, LeaveLoop, Refuse, Enqueue, NotifyWorker,
         MainStops, MainWakes, Join, Worker, Wait, Exit, Take, Register, DropUnregistered,
         Unregister, CloseSession, EndSession, SpuriousWakeup
  <1>2. main' = "joined" => \A w \in Workers : pc'[w] = "exited"
    <2>1. main' = "joined" => Join
      BY <1>1 DEF HttpStep, Main, AcceptConnection, LeaveLoop, Refuse, Enqueue, NotifyWorker,
         MainStops, MainWakes, Join, Worker, Wait, Exit, Take, Register, DropUnregistered,
         Unregister, CloseSession, EndSession, SpuriousWakeup
    <2> QED
      BY <2>1 DEF Join
  <1> QED
    BY <1>0, <1>1, <1>2 DEF Joined, BusinessGone, SocketsGone

LEMMA HttpStepKept ==
  ASSUME ServerInv, HttpStep
  PROVE  ServerInv'
  <1>1. HttpInv'
    BY MainPreserves, WorkerPreserves DEF ServerInv, HttpStep
  <1>2. Held' /\ Joined'
    BY HeldByHttp, JoinedByHttp DEF ServerInv
  <1>3. UNCHANGED server
    BY DEF HttpStep
  <1>4. ServerTypeOK'
    BY <1>3 DEF ServerInv, ServerTypeOK, server, loops, queued, threads, progress
  <1>5. TaskPlaced'
    BY <1>3 DEF ServerInv, TaskPlaced, Queued, Working, server, loops, queued, threads
  <1>6. Drained' /\ AnsweredOnce'
    BY <1>3 DEF ServerInv, Drained, AnsweredOnce, server, loops, queued, threads
  <1> QED
    BY <1>1, <1>2, <1>4, <1>5, <1>6 DEF ServerInv

-----------------------------------------------------------------------------
(* Connections that move between the HTTP threads and the WebSocket workers *)

\* What only connections are about is unchanged by the others, and conversely.
LEMMA TasksUntouched ==
  ASSUME ServerInv, UNCHANGED <<responses, queued, threads, request>>
  PROVE  TaskPlaced' /\ Drained' /\ AnsweredOnce'
  <1> USE DEF ServerInv, queued, threads
  <1>1. TaskPlaced'
    BY DEF TaskPlaced, Queued, Working
  <1> QED
    BY <1>1 DEF Drained, AnsweredOnce

LEMMA ForwardKept ==
  ASSUME ServerInv, NEW w \in Workers, NEW x \in WsWorkers, ForwardTo(w, x)
  PROVE  ServerInv'
  <1>1. HttpInv'
    BY WorkerPreserves DEF ServerInv, ForwardTo
  <1>2. /\ UNCHANGED <<loops, responses, queued, threads, request, closing, unwinding>>
        /\ UNCHANGED <<main, mainFd, fd>>
        /\ pc[w] = "serving" /\ pc' = [pc EXCEPT ![w] = "forwarded"]
        /\ home' = [home EXCEPT ![fd[w]] = x] /\ owner' = [owner EXCEPT ![fd[w]] = "websocket"]
        /\ closing \in {"http", "wake", "join", "sockets"}
    BY DEF ForwardTo, Forward, progress
  <1>3. fd[w] \in Fds /\ owner[fd[w]] = w
    BY <1>2 DEF ServerInv, HttpInv, Placed, DescriptorsHaveOneOwner
  <1>4. wsThread[x] # "destroyed"
    BY <1>2 DEF ServerInv, Joined
  <1>5. /\ home \in [Fds -> WsWorkers \union {"none"}] /\ owner \in [Fds -> Owners]
        /\ pc \in [Workers -> {"check", "waiting", "taken", "serving", "forwarded",
                               "unregister", "closing", "exited"}]
    BY DEF ServerInv, HttpInv, TypeOK, ServerTypeOK
  <1>6. Held'
    BY <1>2, <1>3, <1>4, <1>5, WorkersAssumption, WsWorkersAssumption
        DEF ServerInv, Held, loops
  <1>7. ServerTypeOK'
    BY <1>2, <1>3, <1>5 DEF ServerInv, ServerTypeOK, loops, queued, threads
  <1>8. Joined'
    BY <1>2, <1>5 DEF ServerInv, Joined, loops, queued, threads, BusinessGone, SocketsGone
  <1> QED
    BY <1>1, <1>2, <1>6, <1>7, <1>8, TasksUntouched DEF ServerInv

LEMMA RemoveKept ==
  ASSUME ServerInv, NEW x \in WsWorkers, NEW f \in Fds, RemoveSession(x, f)
  PROVE  ServerInv'
  <1>1. HttpInv'
    BY OthersPreserve DEF ServerInv, RemoveSession
  <1>2. /\ UNCHANGED <<loops, responses, queued, threads, request, closing, unwinding>>
        /\ UNCHANGED <<main, mainFd, fd, pc>>
        /\ home' = [home EXCEPT ![f] = "none"] /\ owner' = [owner EXCEPT ![f] = "none"]
        /\ owner[f] = "websocket"
    BY DEF RemoveSession, WebSocketCloses, Close, progress
  <1>3. home \in [Fds -> WsWorkers \union {"none"}] /\ owner \in [Fds -> Owners]
    BY DEF ServerInv, HttpInv, TypeOK, ServerTypeOK
  <1>4. Held'
    BY <1>2, <1>3, WorkersAssumption, WsWorkersAssumption DEF ServerInv, Held, loops
  <1>5. ServerTypeOK'
    BY <1>2, <1>3 DEF ServerInv, ServerTypeOK, loops, queued, threads
  <1>6. Joined'
    BY <1>2 DEF ServerInv, Joined, loops, queued, threads, BusinessGone, SocketsGone
  <1> QED
    BY <1>1, <1>2, <1>4, <1>5, <1>6, TasksUntouched DEF ServerInv

\* ~WebsocketWorker closes exactly the connections it was given.
LEMMA JoinWorkerKept ==
  ASSUME ServerInv, NEW x \in WsWorkers, JoinWorker(x)
  PROVE  ServerInv'
  <1> DEFINE held == {f \in Fds : home[f] = x}
  <1>1. /\ UNCHANGED <<stopping, task_queue, active_fds, pc, fd, main, mainFd, stopper,
                       upgrades, running_, queued, threads, request, responses, closing,
                       unwinding>>
        /\ closing = "workers" /\ wsThread[x] = "exited"
        /\ wsThread' = [wsThread EXCEPT ![x] = "destroyed"]
        /\ home' = [f \in Fds |-> IF f \in held THEN "none" ELSE home[f]]
        /\ owner' = [f \in Fds |-> IF f \in held THEN "none" ELSE owner[f]]
        /\ interrupted' = interrupted \ held
    BY DEF JoinWorker, MainAt, progress
  <1>2. \A f \in held : owner[f] = "websocket"
    BY WsWorkersAssumption DEF ServerInv, Held
  <1>3. /\ home \in [Fds -> WsWorkers \union {"none"}] /\ owner \in [Fds -> Owners]
        /\ wsThread \in [WsWorkers -> {"poll", "notify", "exited", "destroyed"}]
    BY DEF ServerInv, HttpInv, TypeOK, ServerTypeOK
  <1>4. HttpInv'
    <2>1. TypeOK'
      BY <1>1, <1>2, <1>3 DEF ServerInv, HttpInv, TypeOK, Owners
    <2>2. DescriptorsHaveOneOwner'
      <3>1. \A f \in Fds : owner[f] # "websocket" => owner'[f] = owner[f]
        BY <1>1, <1>2
      <3>2. \A w \in Workers : w # "websocket" /\ (pc[w] \in {"taken", "serving"} => fd[w] \in Fds)
        BY WorkersAssumption DEF ServerInv, HttpInv, Placed
      <3>3. \A i \in 1..Len(task_queue) : task_queue[i] \in Fds
        BY DEF ServerInv, HttpInv, TypeOK
      <3>4. main = "accepted" => mainFd \in Fds
        BY DEF ServerInv, HttpInv, Placed
      <3>5. DescriptorsHaveOneOwner
        BY DEF ServerInv, HttpInv
      <3> QED
        BY <1>1, <3>1, <3>2, <3>3, <3>4, <3>5 DEF DescriptorsHaveOneOwner
    <2>3. Swept'
      BY <1>1 DEF ServerInv, HttpInv, Swept
    <2>4. Placed' /\ StoppedQueueEmpty'
      BY <1>1 DEF ServerInv, HttpInv, Placed, StoppedQueueEmpty
    <2> QED
      BY <2>1, <2>2, <2>3, <2>4 DEF HttpInv
  <1>5. Held'
    BY <1>1, <1>2, <1>3, WorkersAssumption, WsWorkersAssumption DEF ServerInv, Held
  <1>6. ServerTypeOK'
    BY <1>1, <1>3 DEF ServerInv, ServerTypeOK, queued, threads
  <1>7. Joined'
    BY <1>1, <1>3 DEF ServerInv, Joined, queued, threads, BusinessGone, SocketsGone
  <1> QED
    BY <1>1, <1>4, <1>5, <1>6, <1>7, TasksUntouched DEF ServerInv

-----------------------------------------------------------------------------
(* Tasks *)

\* Steps that leave the connections and their workers alone.
LEMMA ConnectionsUntouched ==
  ASSUME ServerInv, UNCHANGED <<vars, home>>, wsThread' \in [WsWorkers -> {"poll", "notify",
           "exited", "destroyed"}],
         \A x \in WsWorkers : wsThread'[x] = "destroyed" => wsThread[x] = "destroyed"
  PROVE  HttpInv' /\ Held'
  <1> USE DEF vars
  <1>1. HttpInv'
    BY DEF ServerInv, HttpInv, TypeOK, StoppedQueueEmpty, DescriptorsHaveOneOwner, Placed, Swept
  <1>2. Held'
    BY DEF ServerInv, Held
  <1> QED
    BY <1>1, <1>2

\* A request is answered, or will not be, before it becomes a task.
LEMMA DispatchKept ==
  ASSUME ServerInv, NEW x \in WsWorkers, NEW m \in Messages,
         DispatchAnswers(x, m) \/ DispatchIgnores(x, m) \/ DispatchBusy(x, m)
  PROVE  ServerInv'
  <1>1. PICK o \in {"done", "dropped"} :
          /\ request[m] = "sent" /\ request' = [request EXCEPT ![m] = o]
          /\ \/ o = "done" /\ responses' = [responses EXCEPT ![m] = @ + 1]
             \/ o = "dropped" /\ responses' = responses
          /\ UNCHANGED <<vars, home, loops, queued, threads, closing, unwinding>>
    BY DEF DispatchAnswers, DispatchIgnores, DispatchBusy, Reads, Reply, progress
  <1>2. /\ request \in [Messages -> Fates] /\ {"sent", "accepted", "done", "dropped"} = Fates
        /\ responses \in [Messages -> 0..2]
        /\ AnsweredOnce /\ ServerTypeOK /\ TaskPlaced /\ Drained /\ Joined
    BY DEF ServerInv, ServerTypeOK, Fates
  <1>3. HttpInv' /\ Held'
    BY <1>1, <1>2, ConnectionsUntouched DEF loops, ServerTypeOK
  <1>4. AnsweredOnce'
    BY <1>1, <1>2 DEF AnsweredOnce
  <1>5. ServerTypeOK'
    BY <1>1, <1>2, <1>4 DEF ServerTypeOK, AnsweredOnce, loops, queued, threads
  <1>6. TaskPlaced'
    BY <1>1, <1>2 DEF TaskPlaced, Queued, Working, queued, threads
  <1>7. Drained' /\ Joined'
    BY <1>1, <1>2 DEF Drained, Joined, BusinessGone, SocketsGone, loops, queued, threads, vars
  <1> QED
    BY <1>3, <1>4, <1>5, <1>6, <1>7 DEF ServerInv

LEMMA ReceiveKept ==
  ASSUME ServerInv, NEW x \in WsWorkers, NEW m \in Messages, ReceiveTask(x, m)
  PROVE  ServerInv'
  <1>1. /\ request[m] = "sent" /\ ~stop_ /\ wsThread[x] = "poll"
        /\ tasks_' = Append(tasks_, m) /\ from' = [from EXCEPT ![m] = x]
        /\ request' = [request EXCEPT ![m] = "accepted"]
        /\ wsThread' = [wsThread EXCEPT ![x] = "notify"]
        /\ UNCHANGED <<vars, home, responses, threads, running_, stop_, closing, unwinding>>
    BY DEF ReceiveTask, Reads, Accepts, progress
  <1>2. /\ request \in [Messages -> Fates] /\ {"sent", "accepted", "done", "dropped"} = Fates
        /\ tasks_ \in Seq(Messages) /\ from \in [Messages -> WsWorkers \union {"none"}]
        /\ wsThread \in [WsWorkers -> {"poll", "notify", "exited", "destroyed"}]
        /\ AnsweredOnce /\ ServerTypeOK /\ TaskPlaced /\ Drained /\ Joined
    BY DEF ServerInv, ServerTypeOK, Fates
  <1>3. HttpInv' /\ Held'
    BY <1>1, <1>2, ConnectionsUntouched
  <1>4. AnsweredOnce'
    BY <1>1, <1>2 DEF AnsweredOnce
  <1>5. ServerTypeOK'
    BY <1>1, <1>2 DEF ServerTypeOK, threads
  <1>6. /\ Len(tasks_') = Len(tasks_) + 1 /\ Len(tasks_) \in Nat
        /\ \A i \in 1..Len(tasks_) : tasks_'[i] = tasks_[i]
        /\ tasks_'[Len(tasks_) + 1] = m
    BY <1>1, <1>2
  <1>7. ~Queued(m) /\ \A k \in Messages : Queued(k)' <=> Queued(k) \/ k = m
    <2>1. ~Queued(m)
      BY <1>1, <1>2 DEF TaskPlaced
    <2> QED
      BY <1>6, <2>1 DEF Queued
  <1>8. TaskPlaced'
    <2>1. \A i, j \in 1..Len(tasks_') : tasks_'[i] = tasks_'[j] => i = j
      BY <1>2, <1>6, <1>7 DEF TaskPlaced, Queued
    <2>2. \A k \in Messages : Queued(k)' => request'[k] = "accepted"
      BY <1>1, <1>2, <1>7 DEF TaskPlaced
    <2>3. UNCHANGED <<biz, task>>
      BY <1>1 DEF threads
    <2>4. /\ \A b \in BizThreads : Working(b) => task[b] \in Messages
          /\ \A b \in BizThreads, k \in Messages : Working(b) /\ task[b] = k =>
                request'[k] = "accepted" /\ ~Queued(k)'
      BY <1>1, <1>2, <1>7 DEF TaskPlaced
    <2>5. \A k \in Messages : request'[k] = "accepted" =>
             /\ from'[k] \in WsWorkers
             /\ Queued(k)' \/ \E b \in BizThreads : Working(b) /\ task[b] = k
      BY <1>1, <1>2, <1>7 DEF TaskPlaced
    <2>6. \A a, b \in BizThreads : Working(a) /\ Working(b) /\ task[a] = task[b] => a = b
      BY <1>2 DEF TaskPlaced
    <2>7. \A b : Working(b)' <=> Working(b)
      BY <2>3 DEF Working
    <2> QED
      BY <2>1, <2>2, <2>3, <2>4, <2>5, <2>6, <2>7 DEF TaskPlaced
  <1>9. Drained' /\ Joined'
    BY <1>1, <1>2 DEF Drained, Joined, BusinessGone, SocketsGone, threads, vars
  <1> QED
    BY <1>3, <1>4, <1>5, <1>8, <1>9 DEF ServerInv

\* Waking up and going to sleep, a worker leaving its loop, the steps of main().
LEMMA QuietKept ==
  ASSUME ServerInv, UNCHANGED <<vars, home, responses, from, tasks_, task, request>>,
         stop_ => stop_', stop_' \in BOOLEAN,
         biz' \in [BizThreads -> {"check", "waiting", "validate", "respond", "exited"}],
         \A b \in BizThreads : /\ biz[b] = "exited" => biz'[b] = "exited"
                               /\ biz'[b] = "exited" =>
                                     biz[b] = "exited" \/ (stop_ /\ tasks_ = <<>>)
                               /\ Working(b)' <=> Working(b),
         wsThread' \in [WsWorkers -> {"poll", "notify", "exited", "destroyed"}],
         running_' \in [WsWorkers -> BOOLEAN],
         \A x \in WsWorkers : wsThread'[x] = "destroyed" => wsThread[x] = "destroyed",
         closing' \in Phases, unwinding' \in BOOLEAN,
         Joined'
  PROVE  ServerInv'
  <1>1. HttpInv' /\ Held'
    BY ConnectionsUntouched
  <1>2. ServerTypeOK'
    BY DEF ServerInv, ServerTypeOK
  <1>3. TaskPlaced'
    <2>1. \A m : Queued(m)' <=> Queued(m)
      BY DEF Queued
    <2> QED
      BY <2>1 DEF ServerInv, TaskPlaced
  <1>4. Drained' /\ AnsweredOnce'
    BY DEF ServerInv, Drained, AnsweredOnce
  <1> QED
    BY <1>1, <1>2, <1>3, <1>4 DEF ServerInv

\* A thread takes the oldest task.
LEMMA TakeKept ==
  ASSUME ServerInv, NEW b \in BizThreads, BizTakes(b)
  PROVE  ServerInv'
  <1>1. /\ biz[b] = "check" /\ tasks_ # <<>> /\ tasks_' = Tail(tasks_)
        /\ task' = [task EXCEPT ![b] = Head(tasks_)] /\ biz' = [biz EXCEPT ![b] = "validate"]
        /\ UNCHANGED <<vars, home, loops, responses, from, stop_, request, closing, unwinding>>
    BY DEF BizTakes, progress
  <1>2. /\ tasks_ \in Seq(Messages) /\ task \in [BizThreads -> Messages \union {"none"}]
        /\ biz \in [BizThreads -> {"check", "waiting", "validate", "respond", "exited"}]
        /\ wsThread \in [WsWorkers -> {"poll", "notify", "exited", "destroyed"}]
        /\ AnsweredOnce /\ ServerTypeOK /\ TaskPlaced /\ Drained /\ Joined
    BY DEF ServerInv, ServerTypeOK, Fates
  <1>3. HttpInv' /\ Held'
    BY <1>1, <1>2, ConnectionsUntouched DEF loops
  <1>4. PICK h \in Messages : h = Head(tasks_)
    BY <1>1, <1>2
  <1>5. /\ tasks_' \in Seq(Messages) /\ Len(tasks_) \in Nat /\ Len(tasks_) # 0
        /\ Len(tasks_') = Len(tasks_) - 1 /\ tasks_[1] = h
        /\ \A i \in 1..Len(tasks_') : tasks_'[i] = tasks_[i + 1]
    BY <1>1, <1>2, <1>4
  <1>6. ServerTypeOK'
    BY <1>1, <1>2, <1>4, <1>5 DEF ServerTypeOK, loops
  <1>7. AnsweredOnce' /\ Drained' /\ Joined'
    BY <1>1, <1>2 DEF AnsweredOnce, Drained, Joined, BusinessGone, SocketsGone, loops, vars
  <1>8. Queued(h) /\ ~Queued(h)' /\ \A k \in Messages \ {h} : Queued(k)' <=> Queued(k)
    <2>1. Queued(h)
      BY <1>5 DEF Queued
    <2>2. ~Queued(h)'
      <3> SUFFICES ASSUME NEW i \in 1..Len(tasks_'), tasks_'[i] = h
                   PROVE  FALSE
        BY DEF Queued
      <3>1. i + 1 \in 1..Len(tasks_) /\ 1 \in 1..Len(tasks_) /\ i + 1 # 1
        BY <1>5
      <3>2. tasks_[i + 1] = tasks_[1]
        BY <1>5
      <3> QED
        BY <1>2, <3>1, <3>2 DEF TaskPlaced
    <2>3. ASSUME NEW k \in Messages \ {h}, NEW i \in 1..Len(tasks_), tasks_[i] = k
          PROVE  Queued(k)'
      <3>1. i - 1 \in 1..Len(tasks_') /\ (i - 1) + 1 = i
        BY <1>5, <2>3
      <3>2. tasks_'[i - 1] = k
        BY <1>5, <2>3, <3>1
      <3> QED
        BY <3>1, <3>2 DEF Queued
    <2>4. ASSUME NEW k \in Messages, NEW i \in 1..Len(tasks_'), tasks_'[i] = k
          PROVE  Queued(k)
      <3>1. i + 1 \in 1..Len(tasks_) /\ tasks_[i + 1] = k
        BY <1>5, <2>4
      <3> QED
        BY <3>1 DEF Queued
    <2> QED
      BY <2>1, <2>2, <2>3, <2>4 DEF Queued
  <1>9. TaskPlaced'
    <2>1. \A i, j \in 1..Len(tasks_') : tasks_'[i] = tasks_'[j] => i = j
      <3> SUFFICES ASSUME NEW i \in 1..Len(tasks_'), NEW j \in 1..Len(tasks_'),
                          tasks_'[i] = tasks_'[j]
                   PROVE  i = j
        OBVIOUS
      <3>1. i + 1 \in 1..Len(tasks_) /\ j + 1 \in 1..Len(tasks_)
        BY <1>5
      <3>2. tasks_[i + 1] = tasks_[j + 1]
        BY <1>5
      <3>3. i + 1 = j + 1
        BY <1>2, <3>1, <3>2 DEF TaskPlaced
      <3> QED
        BY <3>3
    <2>2. /\ task'[b] = h /\ Working(b)' /\ ~Working(b)
          /\ \A a \in BizThreads \ {b} : task'[a] = task[a] /\ (Working(a)' <=> Working(a))
      BY <1>1, <1>2, <1>4 DEF Working
    <2>3. request' = request /\ from' = from
      BY <1>1
    <2>4. \A m \in Messages : Queued(m)' => request'[m] = "accepted"
      BY <1>2, <1>8, <2>3 DEF TaskPlaced
    <2>5. /\ \A a \in BizThreads : Working(a)' => task'[a] \in Messages
          /\ \A a \in BizThreads, k \in Messages : Working(a)' /\ task'[a] = k =>
                request'[k] = "accepted" /\ ~Queued(k)'
      BY <1>2, <1>8, <2>2, <2>3 DEF TaskPlaced
    <2>6. \A a, c \in BizThreads : Working(a)' /\ Working(c)' /\ task'[a] = task'[c] => a = c
      BY <1>2, <1>8, <2>2 DEF TaskPlaced
    <2>7. \A m \in Messages : request'[m] = "accepted" =>
            /\ from'[m] \in WsWorkers
            /\ Queued(m)' \/ \E a \in BizThreads : Working(a)' /\ task'[a] = m
      BY <1>2, <1>8, <2>2, <2>3 DEF TaskPlaced
    <2> QED
      BY <2>1, <2>4, <2>5, <2>6, <2>7 DEF TaskPlaced
  <1> QED
    BY <1>3, <1>6, <1>7, <1>9 DEF ServerInv

\* The task of a thread ends, with or without a response.
LEMMA EndKept ==
  ASSUME ServerInv, NEW b \in BizThreads,
         \/ SessionRejected(b) \/ RequestRejected(b) \/ TaskThrows(b) \/ TaskResponds(b)
  PROVE  ServerInv'
  <1>1. PICK o, m :
          /\ o \in {"done", "dropped"} /\ Working(b) /\ m = task[b]
          /\ request' = [request EXCEPT ![m] = o]
          /\ task' = [task EXCEPT ![b] = "none"] /\ biz' = [biz EXCEPT ![b] = "check"]
          /\ \/ o = "done" /\ responses' = [responses EXCEPT ![m] = @ + 1]
             \/ o = "dropped" /\ responses' = responses
          /\ UNCHANGED <<vars, home, loops, queued, closing, unwinding>>
    BY DEF SessionRejected, RequestRejected, TaskThrows, TaskResponds, TaskEnds, Reply, Working,
       progress
  <1>2. /\ request \in [Messages -> Fates] /\ {"sent", "accepted", "done", "dropped"} = Fates
        /\ responses \in [Messages -> 0..2]
        /\ biz \in [BizThreads -> {"check", "waiting", "validate", "respond", "exited"}]
        /\ wsThread \in [WsWorkers -> {"poll", "notify", "exited", "destroyed"}]
        /\ task \in [BizThreads -> Messages \union {"none"}]
        /\ AnsweredOnce /\ ServerTypeOK /\ TaskPlaced /\ Drained /\ Joined
    BY DEF ServerInv, ServerTypeOK, Fates
  <1>3. m \in Messages /\ request[m] = "accepted" /\ ~Queued(m)
    BY <1>1, <1>2 DEF TaskPlaced
  <1>4. HttpInv' /\ Held'
    BY <1>1, <1>2, ConnectionsUntouched DEF loops
  <1>5. AnsweredOnce'
    BY <1>1, <1>2, <1>3 DEF AnsweredOnce
  <1>6. ServerTypeOK'
    BY <1>1, <1>2, <1>3, <1>5 DEF ServerTypeOK, AnsweredOnce, loops, queued
  <1>7. TaskPlaced'
    <2>1. /\ ~Working(b)'
          /\ \A a \in BizThreads \ {b} :
               task'[a] = task[a] /\ (Working(a)' <=> Working(a)) /\ (Working(a) => task[a] # m)
      BY <1>1, <1>2 DEF Working, TaskPlaced
    <2>2. from' = from /\ \A k : Queued(k)' <=> Queued(k)
      BY <1>1 DEF Queued, queued
    <2>3. request'[m] # "accepted" /\ \A k \in Messages \ {m} : request'[k] = request[k]
      BY <1>1, <1>2, <1>3
    <2>4. \A i, j \in 1..Len(tasks_') : tasks_'[i] = tasks_'[j] => i = j
      BY <1>1, <1>2 DEF TaskPlaced, queued
    <2>5. \A k \in Messages : Queued(k)' => request'[k] = "accepted"
      BY <1>2, <1>3, <2>2, <2>3 DEF TaskPlaced
    <2>6. /\ \A a \in BizThreads : Working(a)' => task'[a] \in Messages
          /\ \A a \in BizThreads, k \in Messages : Working(a)' /\ task'[a] = k =>
                request'[k] = "accepted" /\ ~Queued(k)'
      BY <1>2, <2>1, <2>2, <2>3 DEF TaskPlaced
    <2>7. \A a, c \in BizThreads : Working(a)' /\ Working(c)' /\ task'[a] = task'[c] => a = c
      BY <1>2, <2>1 DEF TaskPlaced
    <2>8. \A k \in Messages : request'[k] = "accepted" =>
            /\ from'[k] \in WsWorkers
            /\ Queued(k)' \/ \E a \in BizThreads : Working(a)' /\ task'[a] = k
      BY <1>1, <1>2, <2>1, <2>2, <2>3 DEF TaskPlaced
    <2> QED
      BY <2>4, <2>5, <2>6, <2>7, <2>8 DEF TaskPlaced
  <1>8. Drained' /\ Joined'
    BY <1>1, <1>2 DEF Working, Drained, Joined, BusinessGone, SocketsGone, loops, queued, vars
  <1> QED
    BY <1>4, <1>5, <1>6, <1>7, <1>8 DEF ServerInv

-----------------------------------------------------------------------------
(* Threads that wake, wait and leave, and main() *)

LEMMA LoopKept ==
  ASSUME ServerInv, NEW x \in WsWorkers, TaskNotified(x) \/ WorkerLeaves(x)
  PROVE  ServerInv'
  <1>1. /\ UNCHANGED <<vars, home, responses, queued, running_, task, request, closing, unwinding>>
        /\ \/ wsThread[x] = "notify" /\ wsThread' = [wsThread EXCEPT ![x] = "poll"]
           \/ /\ wsThread[x] = "poll" /\ ~running_[x]
              /\ wsThread' = [wsThread EXCEPT ![x] = "exited"]
        /\ biz' = biz \/ \E b \in Idle : biz' = [biz EXCEPT ![b] = "check"]
    BY DEF TaskNotified, WorkerLeaves, NotifyOneThread, threads, progress
  <1>2. /\ biz \in [BizThreads -> {"check", "waiting", "validate", "respond", "exited"}]
        /\ wsThread \in [WsWorkers -> {"poll", "notify", "exited", "destroyed"}]
        /\ ServerTypeOK /\ Joined
    BY DEF ServerInv, ServerTypeOK
  <1>3. /\ biz' \in [BizThreads -> {"check", "waiting", "validate", "respond", "exited"}]
        /\ \A b \in BizThreads : /\ biz'[b] = "exited" <=> biz[b] = "exited"
                                 /\ Working(b)' <=> Working(b)
    BY <1>1, <1>2 DEF Idle, Working
  <1>4. /\ wsThread' \in [WsWorkers -> {"poll", "notify", "exited", "destroyed"}]
        /\ \A y \in WsWorkers : /\ wsThread'[y] = "destroyed" <=> wsThread[y] = "destroyed"
                                /\ wsThread'[y] = "exited" => ~running_[y]
    BY <1>1, <1>2 DEF Joined
  <1>5. Joined'
    BY <1>1, <1>2, <1>3, <1>4 DEF Joined, BusinessGone, SocketsGone, queued, vars
  <1> QED
    BY <1>1, <1>2, <1>3, <1>4, <1>5, QuietKept DEF queued, ServerTypeOK

LEMMA BizKept ==
  ASSUME ServerInv, NEW b \in BizThreads,
         BizWaits(b) \/ BizExits(b) \/ BizSpuriousWakeup(b) \/ TaskServed(b)
  PROVE  ServerInv'
  <1>1. /\ UNCHANGED <<vars, home, loops, responses, queued, task, request, closing, unwinding>>
        /\ \E p \in {"check", "waiting", "respond", "exited"} :
             /\ biz' = [biz EXCEPT ![b] = p] /\ biz[b] # "exited"
             /\ p = "exited" => stop_ /\ tasks_ = <<>>
             /\ p = "respond" <=> biz[b] = "validate"
             /\ biz[b] # "respond"
    BY DEF BizWaits, BizExits, BizSpuriousWakeup, TaskServed, progress
  <1>2. /\ biz \in [BizThreads -> {"check", "waiting", "validate", "respond", "exited"}]
        /\ ServerTypeOK /\ Joined
    BY DEF ServerInv, ServerTypeOK
  <1>3. /\ biz' \in [BizThreads -> {"check", "waiting", "validate", "respond", "exited"}]
        /\ \A a \in BizThreads : /\ biz[a] = "exited" => biz'[a] = "exited"
                                 /\ biz'[a] = "exited" =>
                                       biz[a] = "exited" \/ (stop_ /\ tasks_ = <<>>)
                                 /\ Working(a)' <=> Working(a)
    BY <1>1, <1>2 DEF Working
  <1>4. Joined'
    BY <1>1, <1>2, <1>3 DEF Joined, BusinessGone, SocketsGone, loops, queued, vars
  <1> QED
    BY <1>1, <1>2, <1>3, <1>4, QuietKept DEF loops, queued, ServerTypeOK

\* The steps of main(), in their order.
LEMMA MainKept ==
  ASSUME ServerInv,
         \/ StopBusiness \/ WakeBusiness \/ JoinBusiness \/ StopSockets
         \/ (\E x \in WsWorkers : StopWorker(x)) \/ SocketsClosed \/ CloseDatabase
         \/ Terminate
  PROVE  ServerInv'
  <1> USE DEF progress
  <1>0. /\ biz \in [BizThreads -> {"check", "waiting", "validate", "respond", "exited"}]
        /\ wsThread \in [WsWorkers -> {"poll", "notify", "exited", "destroyed"}]
        /\ running_ \in [WsWorkers -> BOOLEAN] /\ stop_ \in BOOLEAN
        /\ closing \in Phases /\ unwinding \in BOOLEAN
        /\ Joined
    BY DEF ServerInv, ServerTypeOK
  <1>1. /\ UNCHANGED <<vars, home, responses, from, tasks_, task, request, wsThread, unwinding>>
        /\ stop_ => stop_'
        /\ stop_' \in BOOLEAN
        /\ closing' \in Phases
    BY <1>0 DEF StopBusiness, WakeBusiness, JoinBusiness, StopSockets, StopWorker, SocketsClosed,
       CloseDatabase, Terminate, loops, queued, threads, Phases
  <1>2. /\ biz' \in [BizThreads -> {"check", "waiting", "validate", "respond", "exited"}]
        /\ \A b \in BizThreads : /\ biz[b] = "exited" <=> biz'[b] = "exited"
                                 /\ Working(b)' <=> Working(b)
    <2>1. biz' = biz \/ NotifyAllThreads
      BY DEF StopBusiness, WakeBusiness, JoinBusiness, StopSockets, StopWorker, SocketsClosed,
         CloseDatabase, Terminate, threads
    <2> QED
      BY <1>0, <2>1 DEF NotifyAllThreads, Working
  <1>3. running_' \in [WsWorkers -> BOOLEAN]
    BY <1>0 DEF StopBusiness, WakeBusiness, JoinBusiness, StopSockets, StopWorker, SocketsClosed,
       CloseDatabase, Terminate, loops
  <1>4. Joined'
    <2>1. BusinessGone' <=> BusinessGone
      BY <1>2 DEF BusinessGone
    <2>2. SocketsGone' <=> SocketsGone
      BY <1>1 DEF SocketsGone
    <2>3. main' = main /\ pc' = pc
      BY <1>1 DEF vars
    <2> USE <1>0, <1>1, <2>1, <2>2, <2>3 DEF Joined
    <2>4. CASE StopBusiness
      BY <2>4 DEF StopBusiness, MainAt, loops
    <2>5. CASE WakeBusiness
      BY <2>5 DEF WakeBusiness, MainAt, loops, queued
    <2>6. CASE JoinBusiness
      BY <2>6 DEF JoinBusiness, MainAt, loops, queued
    <2>7. CASE StopSockets
      BY <2>7 DEF StopSockets, MainAt, loops, queued
    <2>8. ASSUME NEW x \in WsWorkers, StopWorker(x)
          PROVE  Joined'
      BY <2>8 DEF StopWorker, MainAt, queued
    <2>9. CASE SocketsClosed
      BY <2>9 DEF SocketsClosed, MainAt, loops, queued
    <2>10. CASE CloseDatabase
      BY <2>10 DEF CloseDatabase, MainAt, loops, queued
    <2>11. CASE Terminate
      BY <2>11 DEF Terminate, MainAt, loops, queued
    <2> QED
      BY <2>4, <2>5, <2>6, <2>7, <2>8, <2>9, <2>10, <2>11
  <1> QED
    BY <1>0, <1>1, <1>2, <1>3, <1>4, QuietKept

\* Unless running() threw, a worker is destroyed after every business thread has left.
LEMMA DestroyedAfterTasks ==
  ASSUME ServerInv, ~unwinding, NEW x \in WsWorkers, wsThread[x] = "destroyed"
  PROVE  BusinessGone
  BY DEF ServerInv, Joined

\* A task that crashes does so after running() threw.
LEMMA CrashKept ==
  ASSUME ServerInv, NEW b \in BizThreads, TaskCrashes(b)
  PROVE  ServerInv'
  <1>1. /\ UNCHANGED <<vars, home, responses, from, tasks_, task, request, stop_, biz, wsThread,
                       running_, unwinding>>
        /\ closing' = "aborted" /\ Working(b) /\ wsThread[from[task[b]]] = "destroyed"
    BY DEF TaskCrashes, Working, loops, queued, threads
  <1>2. /\ ServerTypeOK /\ Joined /\ task[b] \in Messages /\ request[task[b]] = "accepted"
        /\ from[task[b]] \in WsWorkers
    BY <1>1 DEF ServerInv, TaskPlaced
  <1>3. unwinding
    BY <1>1, <1>2, DestroyedAfterTasks DEF BusinessGone, Working
  <1>4. Joined'
    <2>1. closing # "http"
      BY <1>1, <1>2 DEF Joined
    <2> QED
      BY <1>1, <1>2, <1>3, <2>1 DEF Joined, SocketsGone, BusinessGone, vars
  <1>5. \A a \in BizThreads : Working(a)' <=> Working(a)
    BY <1>1 DEF Working
  <1>6. closing' \in Phases
    BY <1>1 DEF Phases
  <1> QED
    BY <1>1, <1>2, <1>4, <1>5, <1>6, QuietKept DEF ServerTypeOK

\* The exception leaves the loop of running(), before anything was closed.
LEMMA UnwindKept ==
  ASSUME ServerInv, Unwind
  PROVE  ServerInv'
  <1>1. HttpInv'
    BY OthersPreserve DEF ServerInv, Unwind
  <1>2. /\ UNCHANGED <<home, loops, responses, queued, threads, request, closing>>
        /\ UNCHANGED <<owner, pc, fd, mainFd>>
        /\ main = "loop" /\ main' = "stop" /\ unwinding' = TRUE
    BY DEF Unwind, RunningThrows
  <1>3. Held'
    BY <1>2 DEF ServerInv, Held, loops
  <1>4. ServerTypeOK'
    <2>1. unwinding' \in BOOLEAN
      BY <1>2, Zenon
    <2> QED
      BY <1>2, <2>1 DEF ServerInv, ServerTypeOK, loops, queued, threads
  <1>5. closing = "http"
    BY <1>2 DEF ServerInv, Joined
  <1>6. Joined'
    BY <1>2, <1>5 DEF ServerInv, Joined, loops, queued, threads, BusinessGone, SocketsGone
  <1> QED
    BY <1>1, <1>2, <1>3, <1>4, <1>6, TasksUntouched DEF ServerInv

-----------------------------------------------------------------------------
(* The invariant *)

LEMMA ServerKept == ServerInv /\ [ServerNext]_allVars => ServerInv'
  <1> SUFFICES ASSUME ServerInv, [ServerNext]_allVars
               PROVE  ServerInv'
    OBVIOUS
  <1>1. CASE HttpStep \/ Unwind
    BY <1>1, HttpStepKept, UnwindKept
  <1>2. ASSUME NEW x \in WsWorkers, Accepting(x) \/ Reading(x) \/ SocketLoop(x)
        PROVE  ServerInv'
    BY <1>2, ForwardKept, RemoveKept, DispatchKept, ReceiveKept, LoopKept
        DEF Accepting, Reading, SocketLoop
  <1>3. ASSUME NEW b \in BizThreads, BizStep(b) \/ BizSpuriousWakeup(b) \/ TaskCrashes(b)
        PROVE  ServerInv'
    BY <1>3, BizKept, TakeKept, EndKept, CrashKept DEF BizStep
  <1>4. CASE Closing
    BY <1>4, MainKept, JoinWorkerKept DEF Closing
  <1>5. CASE UNCHANGED allVars
    <2>1. /\ UNCHANGED <<vars, home, responses, from, tasks_, task, request, stop_, biz,
                         wsThread, running_, closing, unwinding>>
      BY <1>5 DEF allVars, server, loops, queued, threads, progress
    <2>2. Joined'
      BY <2>1 DEF ServerInv, Joined, BusinessGone, SocketsGone, vars
    <2>3. \A b \in BizThreads : Working(b)' <=> Working(b)
      BY <2>1 DEF Working
    <2> QED
      BY <2>1, <2>2, <2>3, QuietKept DEF ServerInv, ServerTypeOK
  <1> QED
    BY <1>1, <1>2, <1>3, <1>4, <1>5 DEF ServerNext

LEMMA ServerStart == ServerInit => ServerInv
  <1> SUFFICES ASSUME ServerInit
               PROVE  ServerInv
    OBVIOUS
  <1>1. HttpInv
    BY HttpInit DEF ServerInit
  <1> USE DEF ServerInit, Init
  <1>2. ServerTypeOK
    <2>0. running_ \in [WsWorkers -> BOOLEAN] /\ stop_ \in BOOLEAN /\ unwinding \in BOOLEAN
      BY Zenon
    <2>1. tasks_ \in Seq(Messages)
      OBVIOUS
    <2>2. responses \in [Messages -> 0..2]
      OBVIOUS
    <2> QED
      BY <2>0, <2>1, <2>2 DEF ServerTypeOK, Fates, Phases
  <1>3. Held
    BY WorkersAssumption DEF Held
  <1>4. TaskPlaced /\ Drained /\ AnsweredOnce
    BY DEF TaskPlaced, Queued, Working, Drained, AnsweredOnce
  <1>5. Joined
    BY DEF Joined
  <1> QED
    BY <1>1, <1>2, <1>3, <1>4, <1>5 DEF ServerInv

LEMMA ServerAlways == ServerSpec => []ServerInv
  BY ServerStart, ServerKept, PTL DEF ServerSpec

-----------------------------------------------------------------------------
(* Theorems *)

\* Whenever the stop comes, and whether running() returns or throws: no HTTP worker finds
\* the WebSocket pool destroyed.  When it returns, a task that was accepted finds its
\* worker and the database, the process is not aborted, and when main() has closed the
\* database no thread is left and every descriptor is closed.
THEOREM LifetimeTheorem == ServerSpec => []NothingOutlivesWhatItUses
  <1>1. ASSUME ServerInv
        PROVE  NothingOutlivesWhatItUses
    <2>0. HttpInv /\ ServerTypeOK /\ Held /\ TaskPlaced /\ Drained /\ Joined
      BY <1>1 DEF ServerInv
    <2>1. ASSUME NEW m \in Messages, request[m] = "accepted", BusinessGone
          PROVE  FALSE
      <3>1. \A b \in BizThreads : biz[b] = "exited"
        BY <2>1 DEF BusinessGone
      <3>2. tasks_ = <<>>
        BY <2>0, <3>1, BizThreadsAssumption DEF Drained
      <3>3. ~Queued(m)
        BY <3>2 DEF Queued
      <3>4. ~\E b \in BizThreads : Working(b)
        BY <3>1 DEF Working
      <3> QED
        BY <2>0, <2>1, <3>3, <3>4 DEF TaskPlaced
    <2>2. ASSUME NEW m \in Messages, request[m] = "accepted", ~unwinding
          PROVE  wsThread[from[m]] # "destroyed" /\ closing # "closed"
      <3>1. from[m] \in WsWorkers
        BY <2>0, <2>2 DEF TaskPlaced
      <3>2. wsThread[from[m]] # "destroyed"
        BY <1>1, <2>1, <2>2, <3>1, DestroyedAfterTasks
      <3>3. closing # "closed"
        BY <2>0, <2>1, <2>2 DEF Joined
      <3> QED
        BY <3>2, <3>3
    <2>3. ASSUME closing = "closed"
          PROVE  /\ \A w \in Workers : pc[w] = "exited"
                 /\ BusinessGone /\ SocketsGone
                 /\ \A f \in Fds : owner[f] = "none"
      <3>1. /\ main = "joined" /\ \A w \in Workers : pc[w] = "exited"
            /\ BusinessGone /\ SocketsGone
        BY <2>0, <2>3 DEF Joined
      <3>2. stopping /\ task_queue = <<>>
        BY <2>0, <3>1 DEF HttpInv, Placed, StoppedQueueEmpty
      <3>3. ASSUME NEW f \in Fds
            PROVE  owner[f] = "none"
        <4>1. owner[f] \in {"none", "main", "queue", "websocket"} \union Workers
          BY <2>0 DEF HttpInv, TypeOK, Owners
        <4>2. owner[f] # "main" /\ owner[f] \notin Workers
          BY <2>0, <3>1 DEF Held
        <4>3. owner[f] # "queue"
          BY <2>0, <3>2 DEF HttpInv, Swept
        <4>4. owner[f] # "websocket"
          BY <2>0, <3>1 DEF Held, SocketsGone
        <4> QED
          BY <4>1, <4>2, <4>3, <4>4
      <3> QED
        BY <3>1, <3>3
    <2>4. ASSUME NEW x \in WsWorkers, wsThread[x] = "destroyed"
          PROVE  \A w \in Workers : pc[w] = "exited"
      BY <2>0, <2>4 DEF Joined
    <2>5. closing = "aborted" => unwinding
      BY <2>0 DEF Joined
    <2> QED
      BY <2>2, <2>3, <2>4, <2>5 DEF NothingOutlivesWhatItUses
  <1> QED
    BY <1>1, ServerAlways, PTL

\* However many business threads run tasks and whenever the pool is stopped: a request
\* that was refused, rejected or dealt with was answered once, any other not at all.
THEOREM AnswerOnceTheorem == ServerSpec => []AnsweredOnce
  <1>1. ServerInv => AnsweredOnce
    BY DEF ServerInv
  <1> QED
    BY <1>1, ServerAlways, PTL

\* In the whole process as in the HTTP pool alone, with the WebSocket workers and their
\* destructors closing connections: every descriptor a thread holds is open and its own.
THEOREM OwnershipTheorem == ServerSpec => []DescriptorsHaveOneOwner
  <1>1. ServerInv => DescriptorsHaveOneOwner
    BY DEF ServerInv, HttpInv
  <1> QED
    BY <1>1, ServerAlways, PTL
=============================================================================
