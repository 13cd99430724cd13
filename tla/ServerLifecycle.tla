-------------------------- MODULE ServerLifecycle --------------------------
(***************************************************************************)
(* The whole process: the HTTP threads of HttpThreads, the WebSocket       *)
(* workers they hand connections to, the dispatcher and the business pool  *)
(* that runs its tasks (src/service/ServiceThreadPool.cpp), and the order  *)
(* in which main() takes them down.                                        *)
(*                                                                         *)
(* A request that reaches dispatch() is answered at once, ignored, or      *)
(* becomes a task; the task runs on a business thread, uses the database   *)
(* and posts its answers to the queue of the WebSocket worker it came      *)
(* from.  That worker and the database must outlive it, which is what the  *)
(* order of the close() calls in main() is for.                            *)
(*                                                                         *)
(* What a session does with its answers is the subject of                  *)
(* WebSocketWorkers, what a task does in the database of EnvelopeStore and *)
(* how the database pool closes of DatabasePool: here a task is its        *)
(* branches, and an answer is counted.                                     *)
(***************************************************************************)
EXTENDS HttpThreads

CONSTANTS WsWorkers,     \* the workers of the WebSocketPool
          BizThreads,    \* the threads of the ServiceThreadPool
          Messages       \* the requests the clients send over their WebSockets

ASSUME WsWorkersAssumption == "none" \notin WsWorkers
ASSUME MessagesAssumption == "none" \notin Messages
\* The constructor of ServiceThreadPool refuses a count that is not positive.
ASSUME BizThreadsAssumption == BizThreads # {}

VARIABLES
  home,          \* the worker an upgraded connection was handed to
  wsThread,      \* the thread of a WebsocketWorker
  running_,      \* running_ of each worker
  from,          \* the worker whose reply a task captured
  tasks_, stop_, \* the queue and the flag of the ServiceThreadPool
  biz, task,     \* where a business thread is, and its task
  request,       \* what became of a request
  responses,     \* how many responses were posted for it
  closing,       \* how far main() is with the shutdown
  unwinding      \* running() threw, main() is left through its destructors

loops == <<wsThread, running_>>
queued == <<tasks_, stop_, from>>
threads == <<biz, task>>
progress == <<closing, unwinding>>
server == <<home, loops, responses, queued, threads, request, progress>>
allVars == <<vars, server>>

\* A request is on its way, a task, or ended: refused or dealt with ("done"), or by one
\* of the two endings that answer nothing, an unknown type and an exception ("dropped").
Fates == {"sent", "accepted", "done", "dropped"}
\* "aborted" is the end of the process by std::terminate or by a crash.
Phases == {"http", "wake", "join", "sockets", "workers", "database", "closed", "aborted"}

ServerTypeOK ==
  /\ home \in [Fds -> WsWorkers \union {"none"}]
  /\ wsThread \in [WsWorkers -> {"poll", "notify", "exited", "destroyed"}]
  /\ running_ \in [WsWorkers -> BOOLEAN]
  /\ from \in [Messages -> WsWorkers \union {"none"}]
  /\ tasks_ \in Seq(Messages) /\ stop_ \in BOOLEAN
  /\ biz \in [BizThreads -> {"check", "waiting", "validate", "respond", "exited"}]
  /\ task \in [BizThreads -> Messages \union {"none"}]
  /\ request \in [Messages -> Fates]
  /\ responses \in [Messages -> 0..2]
  /\ closing \in Phases /\ unwinding \in BOOLEAN

\* service_thread_pool.init() and web_socket_pool.init() have returned.
ServerInit ==
  /\ Init
  /\ home = [f \in Fds |-> "none"]
  /\ wsThread = [x \in WsWorkers |-> "poll"] /\ running_ = [x \in WsWorkers |-> TRUE]
  /\ from = [m \in Messages |-> "none"]
  /\ tasks_ = <<>> /\ stop_ = FALSE
  /\ biz = [b \in BizThreads |-> "check"] /\ task = [b \in BizThreads |-> "none"]
  /\ request = [m \in Messages |-> "sent"] /\ responses = [m \in Messages |-> 0]
  /\ closing = "http" /\ unwinding = FALSE

Idle == {b \in BizThreads : biz[b] = "waiting"}
NotifyOneThread ==
  IF Idle = {} THEN biz' = biz ELSE \E b \in Idle : biz' = [biz EXCEPT ![b] = "check"]
NotifyAllThreads ==
  biz' = [b \in BizThreads |-> IF biz[b] = "waiting" THEN "check" ELSE biz[b]]

-----------------------------------------------------------------------------
(* The WebSocket workers.                                                   *)

\* forward_connections under the pool's mutex, and transferSession.  It returns
\* false only once the pool was closed.
ForwardTo(w, x) ==
  /\ closing \in {"http", "wake", "join", "sockets"}
  /\ Forward(w) /\ home' = [home EXCEPT ![fd[w]] = x]
  /\ UNCHANGED <<loops, responses, queued, threads, request, progress>>

\* The handshake is rejected, or the session is removed.
RemoveSession(x, f) ==
  /\ wsThread[x] = "poll" /\ home[f] = x
  /\ WebSocketCloses(f)
  /\ home' = [home EXCEPT ![f] = "none"]
  /\ UNCHANGED <<loops, responses, queued, threads, request, progress>>

\* A request may be read from any session of the worker.
Reads(x, m) == /\ wsThread[x] = "poll" /\ request[m] = "sent"
               /\ \E f \in Fds : home[f] = x

\* The Reply that dispatch was given: transferTask queues the response in the worker.
Reply(m) == responses' = [responses EXCEPT ![m] = @ + 1]

\* dispatch finds the payload, the token, the user or the type wrong and answers.
DispatchAnswers(x, m) ==
  /\ Reads(x, m)
  /\ Reply(m) /\ request' = [request EXCEPT ![m] = "done"]
  /\ UNCHANGED <<vars, home, loops, queued, threads, progress>>

\* A request of unknown type is not answered.
DispatchIgnores(x, m) ==
  /\ Reads(x, m)
  /\ request' = [request EXCEPT ![m] = "dropped"]
  /\ UNCHANGED <<vars, home, loops, responses, queued, threads, progress>>

\* receiveTask throws once the pool is stopped.
Accepts == ~stop_

\* MUTANT: the exception of receiveTask is caught and forgotten.
DispatchBusy_Silent(x, m) ==
  /\ Reads(x, m) /\ ~Accepts
  /\ request' = [request EXCEPT ![m] = "done"]
  /\ UNCHANGED <<vars, home, loops, responses, queued, threads, progress>>

\* The pool has been stopped: dispatch catches the exception and answers server_busy.
DispatchBusy(x, m) ==
  /\ Reads(x, m) /\ ~Accepts
  /\ Reply(m) /\ request' = [request EXCEPT ![m] = "done"]
  /\ UNCHANGED <<vars, home, loops, queued, threads, progress>>

\* The critical section of receiveTask; the notification follows it.
ReceiveTask(x, m) ==
  /\ Reads(x, m) /\ Accepts
  /\ tasks_' = Append(tasks_, m) /\ from' = [from EXCEPT ![m] = x]
  /\ request' = [request EXCEPT ![m] = "accepted"]
  /\ wsThread' = [wsThread EXCEPT ![x] = "notify"]
  /\ UNCHANGED <<vars, home, responses, threads, running_, stop_, progress>>

\* MUTANT: no thread is notified of the task.
TaskNotified_Forgotten(x) ==
  /\ wsThread[x] = "notify" /\ wsThread' = [wsThread EXCEPT ![x] = "poll"]
  /\ UNCHANGED <<vars, home, responses, queued, threads, running_, request, progress>>

TaskNotified(x) ==
  /\ wsThread[x] = "notify" /\ wsThread' = [wsThread EXCEPT ![x] = "poll"]
  /\ NotifyOneThread
  /\ UNCHANGED <<vars, home, responses, queued, running_, task, request, progress>>

\* The loop sees running_ cleared; answers it has not handled are dropped.
WorkerLeaves(x) ==
  /\ wsThread[x] = "poll" /\ ~running_[x]
  /\ wsThread' = [wsThread EXCEPT ![x] = "exited"]
  /\ UNCHANGED <<vars, home, responses, queued, threads, running_, request, progress>>

-----------------------------------------------------------------------------
(* A business thread.                                                       *)

BizWaits(b) ==
  /\ biz[b] = "check" /\ ~stop_ /\ tasks_ = <<>>
  /\ biz' = [biz EXCEPT ![b] = "waiting"]
  /\ UNCHANGED <<vars, home, loops, responses, queued, task, request, progress>>

BizExits(b) ==
  /\ biz[b] = "check" /\ stop_ /\ tasks_ = <<>>
  /\ biz' = [biz EXCEPT ![b] = "exited"]
  /\ UNCHANGED <<vars, home, loops, responses, queued, task, request, progress>>

BizSpuriousWakeup(b) ==
  /\ biz[b] = "waiting" /\ biz' = [biz EXCEPT ![b] = "check"]
  /\ UNCHANGED <<vars, home, loops, responses, queued, task, request, progress>>

BizTakes(b) ==
  /\ biz[b] = "check" /\ tasks_ # <<>>
  /\ task' = [task EXCEPT ![b] = Head(tasks_)] /\ tasks_' = Tail(tasks_)
  /\ biz' = [biz EXCEPT ![b] = "validate"]
  /\ UNCHANGED <<vars, home, loops, responses, from, stop_, request, progress>>

\* The task of b returns, or throws, and the loop goes on.
TaskEnds(b, outcome) ==
  /\ request' = [request EXCEPT ![task[b]] = outcome]
  /\ task' = [task EXCEPT ![b] = "none"] /\ biz' = [biz EXCEPT ![b] = "check"]

\* validateSessionRequest answers what it rejects: the token, the device as it is in
\* the database by now, or a device that is not the session's.
SessionRejected(b) ==
  /\ biz[b] = "validate"
  /\ Reply(task[b]) /\ TaskEnds(b, "done")
  /\ UNCHANGED <<vars, home, loops, queued, progress>>

\* MUTANT: the task goes on after the parser has answered.
RequestRejected_GoesOn(b) ==
  /\ biz[b] = "validate"
  /\ Reply(task[b]) /\ biz' = [biz EXCEPT ![b] = "respond"]
  /\ UNCHANGED <<vars, home, loops, queued, task, request, progress>>

\* The session is valid and the parser of the request answers what it rejects.
RequestRejected(b) ==
  /\ biz[b] = "validate"
  /\ Reply(task[b]) /\ TaskEnds(b, "done")
  /\ UNCHANGED <<vars, home, loops, queued, progress>>

\* chat.newTextMessageTest without its fields: the exception ends the task.
TaskThrows(b) ==
  /\ biz[b] = "validate"
  /\ TaskEnds(b, "dropped")
  /\ UNCHANGED <<vars, home, loops, responses, queued, progress>>

\* The request is served by the chat service, which uses the database again.  It
\* returns or throws, both make a response; an envelope that was stored is first
\* announced to its recipient through the worker's queue.
TaskServed(b) ==
  /\ biz[b] = "validate" /\ biz' = [biz EXCEPT ![b] = "respond"]
  /\ UNCHANGED <<vars, home, loops, responses, queued, task, request, progress>>

TaskResponds(b) ==
  /\ biz[b] = "respond"
  /\ Reply(task[b]) /\ TaskEnds(b, "done")
  /\ UNCHANGED <<vars, home, loops, queued, progress>>

-----------------------------------------------------------------------------
(* main(): thread_pool, service_thread_pool, web_socket_pool, databasePool. *)

MainAt(phase) == closing = phase /\ main = "joined"

\* The exception of running() leaves main()'s try block past every close() call; its
\* objects are destroyed in the reverse order of their declarations: thread_pool,
\* whose destructor is close(), then web_socket_pool, then service_thread_pool.
Unwind ==
  /\ RunningThrows /\ unwinding' = TRUE
  /\ UNCHANGED <<home, loops, responses, queued, threads, request, closing>>

\* ServiceThreadPool::close, up to the end of its critical section.
StopBusiness ==
  /\ MainAt("http") /\ ~unwinding /\ stop_' = TRUE /\ closing' = "wake"
  /\ UNCHANGED <<vars, home, loops, responses, threads, from, tasks_, request, unwinding>>

\* MUTANT: close() wakes one thread only.
WakeBusiness_One ==
  /\ MainAt("wake") /\ NotifyOneThread /\ closing' = "join"
  /\ UNCHANGED <<vars, home, loops, responses, queued, task, request, unwinding>>

WakeBusiness ==
  /\ MainAt("wake") /\ NotifyAllThreads /\ closing' = "join"
  /\ UNCHANGED <<vars, home, loops, responses, queued, task, request, unwinding>>

BusinessGone == \A b \in BizThreads : biz[b] = "exited"

\* MUTANT: the threads are not joined before main goes on.
JoinBusiness_Detached ==
  /\ MainAt("join") /\ closing' = "sockets"
  /\ UNCHANGED <<vars, home, loops, responses, queued, threads, request, unwinding>>

JoinBusiness ==
  /\ MainAt("join") /\ BusinessGone /\ closing' = "sockets"
  /\ UNCHANGED <<vars, home, loops, responses, queued, threads, request, unwinding>>

\* WebSocketPool::close marks the pool and takes its workers out under its mutex.
\* It is called by main(), or next after ~ThreadPool by the pool's own destructor.
StopSockets ==
  /\ MainAt("sockets") \/ (MainAt("http") /\ unwinding)
  /\ closing' = "workers"
  /\ UNCHANGED <<vars, home, loops, responses, queued, threads, request, unwinding>>

\* ~WebsocketWorker, one worker after the other: clear running_, write the
\* eventfd, ...
StopWorker(x) ==
  /\ MainAt("workers") /\ running_[x]
  /\ \A y \in WsWorkers : running_[y] \/ wsThread[y] = "destroyed"
  /\ running_' = [running_ EXCEPT ![x] = FALSE]
  /\ UNCHANGED <<vars, home, responses, queued, threads, wsThread, request, progress>>

\* ... join its thread, and destroy its connections and its queues.
JoinWorker(x) ==
  LET held == {f \in Fds : home[f] = x}
  IN /\ MainAt("workers") /\ wsThread[x] = "exited"
     /\ wsThread' = [wsThread EXCEPT ![x] = "destroyed"]
     /\ home' = [f \in Fds |-> IF f \in held THEN "none" ELSE home[f]]
     /\ owner' = [f \in Fds |-> IF f \in held THEN "none" ELSE owner[f]]
     /\ interrupted' = interrupted \ held
     /\ UNCHANGED <<stopping, task_queue, active_fds, pc, fd, main, mainFd, stopper, upgrades,
                    running_, queued, threads, request, responses, progress>>

SocketsGone == \A x \in WsWorkers : wsThread[x] = "destroyed"

SocketsClosed ==
  /\ MainAt("workers") /\ SocketsGone /\ ~unwinding /\ closing' = "database"
  /\ UNCHANGED <<vars, home, loops, responses, queued, threads, request, unwinding>>

CloseDatabase ==
  /\ MainAt("database") /\ closing' = "closed"
  /\ UNCHANGED <<vars, home, loops, responses, queued, threads, request, unwinding>>

\* ServiceThreadPool has no destructor of its own: its threads are joinable when
\* threads_ is destroyed, and std::terminate ends the process.
Terminate ==
  /\ MainAt("workers") /\ SocketsGone /\ unwinding /\ closing' = "aborted"
  /\ UNCHANGED <<vars, home, loops, responses, queued, threads, request, unwinding>>

\* A running task calls a Reply that captured a destroyed worker.  That is undefined:
\* the process may crash, or the call goes on as if nothing had happened.
TaskCrashes(b) ==
  /\ biz[b] \in {"validate", "respond"} /\ wsThread[from[task[b]]] = "destroyed"
  /\ closing' = "aborted"
  /\ UNCHANGED <<vars, home, loops, responses, queued, threads, request, unwinding>>

-----------------------------------------------------------------------------
\* main() is the only thread that stops the HTTP pool.
HttpStep ==
  /\ \/ Main
     \/ \E w \in Workers : Worker(w) \/ EndSession(w) \/ SpuriousWakeup(w)
  /\ UNCHANGED server

Reading(x) == \E m \in Messages : \/ DispatchAnswers(x, m) \/ DispatchIgnores(x, m)
                                 \/ DispatchBusy(x, m) \/ ReceiveTask(x, m)
Accepting(x) == \/ \E w \in Workers : ForwardTo(w, x)
                \/ \E f \in Fds : RemoveSession(x, f)
SocketLoop(x) == TaskNotified(x) \/ WorkerLeaves(x)
BizStep(b) == \/ BizWaits(b) \/ BizExits(b) \/ BizTakes(b) \/ SessionRejected(b)
              \/ RequestRejected(b) \/ TaskThrows(b) \/ TaskServed(b) \/ TaskResponds(b)
Closing == \/ StopBusiness \/ WakeBusiness \/ JoinBusiness \/ StopSockets
           \/ (\E x \in WsWorkers : StopWorker(x) \/ JoinWorker(x))
           \/ SocketsClosed \/ CloseDatabase \/ Terminate

\* The threads of an aborted process take no step.
Alive == closing # "aborted"

ServerNext ==
  \/ Alive /\ (HttpStep \/ Unwind)
  \/ Alive /\ \E x \in WsWorkers : Accepting(x) \/ Reading(x) \/ SocketLoop(x)
  \/ Alive /\ \E b \in BizThreads : BizStep(b) \/ BizSpuriousWakeup(b) \/ TaskCrashes(b)
  \/ Alive /\ Closing

\* As in HttpThreads, with clients that finish or fall silent; and a task ends, since
\* its database calls return, and a worker leaves its loop when it is told to, since
\* its descriptors never block it.
MainRuns == Alive /\ ((Leaving /\ UNCHANGED server) \/ Closing)
WorkerRuns(w) == Alive /\ (Worker(w) \/ EndSession(w)) /\ UNCHANGED server
SocketRuns(x) == Alive /\ SocketLoop(x)
BizRuns(b) == Alive /\ BizStep(b)

ServerSpec ==
  /\ ServerInit /\ [][ServerNext]_allVars
  /\ WF_allVars(MainRuns)
  /\ \A w \in Workers : WF_allVars(WorkerRuns(w))
  /\ \A x \in WsWorkers : WF_allVars(SocketRuns(x))
  /\ \A b \in BizThreads : WF_allVars(BizRuns(b))

-----------------------------------------------------------------------------
(* Properties.                                                              *)

\* Objects outlive what uses them.  An HTTP worker hands connections to the WebSocket
\* pool, on both ways out of running(): the pool's workers go after it has exited.  A
\* task captured its WebSocket worker by reference and uses the database: unless
\* running() threw, as long as it is queued or runs, neither the worker is destroyed
\* nor the database pool closed, and no destructor and no task ends the process.
\* When main() has closed the database, no thread is left and no descriptor open.
NothingOutlivesWhatItUses ==
  /\ \A x \in WsWorkers : wsThread[x] = "destroyed" => \A w \in Workers : pc[w] = "exited"
  /\ ~unwinding =>
       /\ \A m \in Messages : request[m] = "accepted" =>
             wsThread[from[m]] # "destroyed" /\ closing # "closed"
       /\ closing # "aborted"
  /\ closing = "closed" => /\ \A w \in Workers : pc[w] = "exited"
                          /\ BusinessGone /\ SocketsGone
                          /\ \A f \in Fds : owner[f] = "none"

\* A request that is refused before it is queued, by a stopping pool, by the validation
\* or by a parser, and one the service has dealt with, successfully or not, has been
\* answered exactly once.  No response was posted for one that is still on its way, nor
\* for the two endings dispatch leaves silent: an unknown type, and the exception of a
\* test message without its fields.
AnsweredOnce ==
  \A m \in Messages : responses[m] = IF request[m] = "done" THEN 1 ELSE 0

\* A task that was accepted runs to its end although the pool is closed at any
\* moment: none is left in tasks_ by threads that exit, or by a lost notification.
\* Only the end of the process by an exception of running() takes tasks with it.
Accepted == {m \in Messages : request[m] = "accepted"}
AcceptedTasksFinish == (Accepted # {}) ~> (Accepted = {} \/ (unwinding /\ ~Alive))

\* Once running() has returned, main() gets to the end: every close() it calls returns
\* whatever the threads it joins were doing.  After an exception it never does: the
\* process ends in std::terminate or a crash, whatever the threads were doing, and
\* hangs in no destructor before.
ShutdownTerminates ==
  (main = "close") ~> (closing = IF unwinding THEN "aborted" ELSE "closed")
=============================================================================
