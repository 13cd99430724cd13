# A TLA+ verification of the chat back end

The repository is a C++20 server: an HTTP API for accounts, devices and keys, a
WebSocket service for end-to-end encrypted envelopes, and PostgreSQL underneath.
This directory holds TLA+ models of the parts whose correctness depends on
concurrency, ordering or failure, the TLC runs that check them, and TLAPS proofs.
Paths below are relative to the repository (`src/...` in `PROJECT.json`).

    tlc -config DatabasePool.cfg DatabasePool      # any run of PROJECT.json
    tlapm DatabasePoolProofs.tla                   # the proofs

## 1. Inventory

| Component | State | Operations | Hard because | Correct means |
|---|---|---|---|---|
| `databases/DatabasePool` | idle queue, `total_connections_`, `is_running_`, one mutex, one condition variable | `getConnection`, release, maintenance, `close` | connections are opened outside the mutex; three kinds of thread share one condition variable | the count is exact, the limit holds, nobody sleeps through a free slot, `close` ends with nothing left |
| `databases/DatabaseConnection` | a libpq connection, its transaction status | `execute`, `withTransaction`, `reset` | a lease may end with a broken connection; a lost COMMIT is ambiguous | what is handed out is idle and clean; the caller learns which errors leave the outcome open |
| `websocket/WebsocketWorker` | sessions by descriptor and six tables keyed by descriptor, task and handshake queues, epoll batch, revocation callbacks | event loop, handshake, read, write, timer, removal, revocation | descriptors are reused while events, replies, pushes and revocations still name them | frames reach their session, revoked and dead sessions close, nothing of a closed session survives |
| `websocket/WebSocketPool` | `online_connections_` | hand-over, index, push, `closeSession`, `close` | every worker edits the directory | an entry names a live session |
| `websocket/WebSocketSession`, `WebSocketHandler` | input buffer, heartbeat flags | `FrameParse`, handling of each opcode, ping and pong | input is cut anywhere, lengths have three forms, bytes may wait in a buffer no event announces | messages are dispatched as sent, whatever the cuts |
| `http/HttpParse`, `http/HttpSession` | parser state, input buffer | incremental parsing, upgrade | the same | a request is parsed to its last byte and no further |
| `server/ThreadPool`, `server/TcpServer` | queue of descriptors, `active_fds_`, `stopping` | accept, serve, upgrade, stop, join | stop races with accept, registration and hand-over | every queued connection is served or closed, a stop interrupts every session and joins every worker |
| `service/ServiceThreadPool` | task queue, `stop_` | `receiveTask`, loop, `close` | tasks are queued, run and refused while the pool is closed | an accepted task ends |
| `main` | which pools are still open | the order of the four `close()` calls, and of the destructors when `running()` throws | tasks capture a worker by reference and use the database | nothing outlives what it uses, and shutdown ends |
| `websocket/WebSocketDispatcher` | none | validate, queue a task, answer | five places answer a request, two endings answer nothing | one answer for every request that is refused or dealt with |
| `repository/EnvelopeRepository`, `service/ChatService` | table `envelopes` | save with retry, synchronise, acknowledge | statements of one transaction interleave with others at READ COMMITTED; retries after an unknown outcome | one gap-free log per pair of devices; cursors never skip; a retry finds its row |
| `UserRepository::revokeUserDevice`, `UserHandler::RevokeDevice` | device status, refresh tokens, sessions | revoke | authorised writes, logins, key claims and handshakes are under way | nothing of the device is written, kept open or still usable afterwards |
| `repository/LoginTicketRepository`, `Auth/RefreshTokenService` | tables `login_tickets`, `refresh_tokens` | issue, complete, validate | two calls present one ticket; expiry, failure and revocation in between | a ticket buys one credential, a revoked device keeps none |
| `UserRepository` friend requests | `friend_request`, `friend_relation` | request, accept, reject, cancel, queries | both parties act at once; opposite requests are accepted at once | friends exactly where a request was accepted; nobody is told a status that does not last |
| `repository/KeyRepository`, `service/KeyService` | one-time prekeys | upload, claim, queries | concurrent claims (`SKIP LOCKED`), overlapping batches, revocation between check and write | a prekey is given out once, to someone who may have it; a batch is stored whole or not at all |
| `service/RegisterService`, `service/LoginService` | `users`, `password_credentials` | register, check a password | - | the unique indexes decide; not modelled |
| handlers, `Router`, `AuthMiddleWare` | none | validate JSON, call one service, format | - | their effect on the services, and the answer they give, is in the models above |
| `RedisClient`, logging | - | - | Redis is never called; logging is output | not modelled |

HTTP workers call the repositories directly and hand upgraded connections, with
what is left in their input buffers, to the WebSocket pool. WebSocket workers give
messages to the business threads, which call `ChatService` and post the reply back
as a task for the worker, naming descriptor and session id. A revocation commits in
the database, then asks every worker to close the sessions of the device and waits
for their promises. `main` closes the HTTP pool, the business pool, the WebSocket
pool and the database pool, in this order.

## 2. Modules

| Module | Models | Uses |
|---|---|---|
| `LeasePool` | abstract: at most `MaxLeases` exclusive leases, and a shutdown that waits for them | |
| `DatabasePool`, `DatabasePoolProofs` | `DatabasePool.cpp`, `DatabaseConnection::reset`, leases; theorems | `LeasePool` (refinement) |
| `WebSocketWorkers`, `MCWebSocketWorkers`, `WebSocketWorkersProofs` | workers, pool directory, revocation; theorems | |
| `ConnectionInput`, `MCConnectionInput`, `ConnectionInputProofs` | the bytes of one connection: HTTP parser, hand-over, frames, heartbeat; theorems | |
| `HttpThreads` | HTTP worker pool and its stop | |
| `ServerLifecycle`, `ServerLifecycleProofs` | dispatcher, business pool, WebSocket workers as threads, shutdown in `main`; theorems, those of the HTTP pool alone too | extends `HttpThreads` |
| `PairLog` | abstract: one append-only log per unordered pair of devices | |
| `EnvelopeStore`, `MCEnvelopeStore`, `EnvelopeStoreProofs` | save, retry, synchronise, acknowledge, revoke; theorems | `PairLog` (refinement) |
| `LoginTickets`, `MCLoginTickets`, `LoginTicketsProofs` | tickets, refresh tokens, revocation sweep; theorems | |
| `Friendships`, `FriendshipsProofs` | friend requests; theorems | |
| `Prekeys`, `MCPrekeys`, `PrekeysProofs` | one-time prekeys and revocation, beside friend requests; theorems | extends `Friendships` |

Definitions named `X_Something` next to a definition `X` are mutated forms of it
(a dropped guard, a forgotten notification): `PROJECT.json` lists which property
each of them breaks. They are not part of any specification.

### DatabasePool
One action per critical section of `mutex_`, and one per stretch of code between
two of them (opening a connection, a notification owed after unlocking). A client
thread has a program counter (`out`, `waiting`, `woken`, `expired`, `creating`,
`leased`, `owes_one`, `owes_all`); a connection is its libpq transaction status.
Deadlines are flags: a waiting client may at any time find its time over. The
constructor of a connection may fail in the maintenance thread, where an exception
that is no `DatabaseError` ends the process (`maintenance = "aborted"`). A lease ends
outside a transaction (`LeaseEnds`): every transaction of the repository runs in
`withTransaction`, which commits or rolls back before the lease is destroyed. The
ROLLBACK in `reset()` is a second net that no caller needs, so that only broken
connections test `HandedOutClean`. The two critical sections of a push that throws
(`ReleasePushFails`) are one step: between them nothing of the pool has changed.

### WebSocketWorkers
A worker takes a batch of epoll events and handles them one by one (`agenda`); each
handler is one action. Handshakes run in two steps, since the device is verified in
the database before the session is entered in the tables. Descriptors are given
again as soon as they are closed. Messages are abstracted to whom they are for.

### ConnectionInput
What a client sends is a sequence of elements (request line, header, blank line,
body, frame) with sizes, and a position in it stands for a byte. The network cuts it
at offsets 1, 2, 4 and 10 of each element: inside a CRLF, before and after the second
byte of a frame header, inside the long forms of the length, inside the mask. A turn
of a parser's loop is a step. Of a line the model keeps what the parser looks for:
spaces, a colon, the value of `Content-Length` (the last one counts, as in the code).
A header is valid when `parseHeader` takes it: the name is compared as written and only
leading spaces of the value are cut off, so that `content-length`, or a number with a
space behind it, which HTTP allows, are outside what `RequestParsedExactly` is about (the
first announces no body to this parser, the second is an error). A client answers a Ping
behind its last frame only.
The reference the parsers are checked against is the layout itself, and RFC 6455 with
the server's limits (`LegalFrame`). The heartbeat runs in periods of the worker's timer.

### HttpThreads and ServerLifecycle
The accepting thread, the workers, and another thread that may call
`requestStop()`. `owner` says who will close a descriptor. A session ends by a
response, an error, a timeout, a shut-down socket, or in an upgrade.
`ServerLifecycle` puts the rest of the process around it: a WebSocket worker reads a
request, which `dispatch` answers, ignores or queues; the critical section of
`receiveTask` and its notification are two steps; a business thread checks, waits,
takes a task, and the task ends in each of the ways the code has. The destructor of a
WebSocket worker joins its thread and closes its connections.

`running()` ends in two ways. It returns, and `main()` calls `close()` on one pool after
the other (`LeaveLoop`, then `MainAt`). Or `acceptConnection` throws, `running()` requests
the stop and rethrows, and `main()` is left through its destructors (`RunningThrows`,
`Unwind`, variable `unwinding`): `~ThreadPool` joins the HTTP workers, `~WebSocketPool`
destroys the WebSocket workers, and then the threads of `service_thread_pool`, which
nobody stopped or joined, end the process by `std::terminate` (`Terminate`). In between
a business thread may use a worker that is gone: undefined, hence a crash
(`TaskCrashes`) or nothing. After either (`closing = "aborted"`) no thread takes a step.

### EnvelopeStore
The three transactions are modelled statement by statement. The advisory lock on
the pair and the row locks on devices are implied by how far a thread is. A
statement may fail, `COMMIT` may be lost after it took effect, `ChatService`
retries as the code does. A client device synchronises as `docs/backend-api.md`
section 18.10 asks: it stores a page, then moves its cursors, and never moves them
for a push. That client is external to the repository. The unique indexes of the
database are deliberately absent, so that what the runs show follows from the code.

### LoginTickets
`complete()` is modelled statement by statement as well. The trigger of
`database/migrations/002_login_tickets.sql` (an active, owned device, locked
`FOR SHARE`) is part of the insertion of a token.

### Friendships and Prekeys
A thread runs one call at a time, one SQL statement per step; its record says how
far it is, and the row locks it holds follow from that. Any statement may fail, a
COMMIT may take effect and be answered with an error, and PostgreSQL makes an insert
wait for a transaction that has inserted the same row, and aborts one of two
transactions that wait for each other. Both situations arise: requests in opposite
directions that are accepted at once, and batches of prekeys inserted in the order of
an `unordered_map`. The schema of these tables is not in the repository; of the index
`friend_request_pending_pair_unique` the weaker reading is modelled (one pending
request per ordered pair), so that opposite requests can both be pending.

## 3. Runs

| Run | Bounds | States | Shows |
|---|---|---|---|
| `pool` | 4 clients, 1..2 connections | 31 thousand | accounting, wake-ups, shutdown, clean connections, refinement of `LeasePool` |
| `ws_revoke` | 2 workers, 3 connections of a device, 2 revocations | 451 thousand | a confirmed revocation leaves nothing; directory exact; no residue under a reused descriptor |
| `ws_delivery` | 1 worker, 2 devices, 1 descriptor, a message under way | 182 thousand | no frame reaches another session; sessions of a revoked device close even if the peer never reads |
| `connection_input` | 14 clients, all cuts at 4 offsets, heartbeat of 6 and 2 periods | 331 thousand | requests and frames are read as sent; frames behind an upgrade request are handled; a dead peer is removed |
| `server` | 1 HTTP worker, 2 descriptors, 2 WebSocket workers, 2 business threads, 1 request | 58 thousand | no descriptor has two owners, nothing outlives what it uses unless `running()` threw, one answer for a request that is refused or dealt with, an accepted task runs, a full queue drains, the shutdown ends: in `closed` or, after an exception, in `aborted` |
| `envelope_save` | 2 threads, 3 requests, 2 attempts | 177 thousand | dense sequence, idempotent retry, refinement of `PairLog` |
| `envelope_sync` | 2 senders, page of one row, 2 requests | 276 thousand | cursors never skip, acknowledgements are truthful, nothing is written after a revocation, everything stored for a device arrives |
| `login_tickets` | 2 calls, 2 tickets, 2 devices, 2 users, 1 revocation, 1 validation | 338 thousand (symmetry) | one credential per ticket, none for a revoked device |
| `key_exchange` | 2 users with requests to each other, 1 device, 2 prekeys, 2 threads, 3 calls | 372 thousand | friends exactly where accepted, told statuses last, a prekey once, batches whole, nothing for a revoked device, every call returns |

The bounds are the smallest at which the races need no further actor: two threads for a
lock, three for a notification that wakes the wrong one, one descriptor fewer than
connections for reuse, a page smaller than the backlog, two batches that overlap. The
deployed sizes (pool 4..8, four HTTP workers, queue 8, pages of 100, three attempts) are
larger in numbers only. In `server` one request is enough for every race of a task with
the shutdown, since each of the two threads may be asleep, woken or on its way out when
it is queued. All six properties also hold with two requests and one WebSocket worker
(241 thousand states); its liveness takes TLC several minutes, so the smaller instance
is the one that is kept. Three calls in `key_exchange` are two that race and a third
that meets what they left. `PingTicks` and `PongTicks` are the deployed 30 and 10
seconds in periods of the 5-second timer. `CHECK_DEADLOCK FALSE` is used where the
system really stops: a closed server, a finite number of calls. `ws_revoke`,
`envelope_save` and `login_tickets` use symmetry over actors that are interchangeable in
`Init`, in every action and in every property; none of the three checks liveness.
Without symmetry `login_tickets` has 2.7 million states.

### Runs that find a disagreement
- `ws_stale_event`: an event of a batch is looked up by descriptor only, so the
  hang-up of a removed session closes the session that got its descriptor meanwhile,
  although `docs/websocket-worker-message-flow.md` says such events are dropped.
- `envelope_lost_commit`: a connection lost during `COMMIT` is reported as
  `internal_server_error`, not as `database_unavailable` as
  `docs/new-message-storage-layers.md` promises, since the result carries no SQLSTATE.
- `http_stop_upgraded`: an upgraded connection is handed over before its descriptor
  is unregistered, against the comment in `requestStop`. When the descriptor is closed
  and given to the next client in between, the late erase takes that client's
  registration, and a stop does not interrupt its session. This is why `server`
  assumes clients that finish: only then does `close()` always return.

Other differences met while reading, without a run of their own:
- When `running()` throws, `main()` skips every `close()` and destroys the WebSocket
  workers (declared in `main.cpp:132`) before the business threads (line 129): a task
  that still runs posts its answer to a destroyed worker, and the process ends in
  `std::terminate` or a crash and never in the catch of `main()` (line 313). The line
  `docs/new-message-storage-layers.md:193` relies on the order of the declarations to
  rule this out. The path is in the model; `NothingOutlivesWhatItUses` excepts it for
  tasks and `ShutdownTerminates` says how it ends.
- `docs/new-message-storage-layers.md` 4.3 says devices of one account are refused,
  `EnvelopeRepository` accepts them; `docs/device-revocation.md` says refresh tokens
  survive a revocation, `revokeUserDevice` revokes them.
- `HttpParse` looks for the two spaces of the request line beyond its CRLF, so that
  what becomes of a line without spaces depends on how the input was cut (`garbled` in
  `ConnectionInput`); `RequestParsedExactly` is about well-formed requests.
- A WebSocket message that is not UTF-8 makes `dump()` throw in `handleReadable`
  (`WebsocketWorker.cpp:536`): the rest of the batch is lost and the status of the read
  is not handled (`DispatchThrows`). `FrameParse` drops the good frames of a call that
  ends in a malformed one (`ParseFails`).
- `handleReadable` does not look at `closing_sessions_`: frames behind a Close are
  dispatched, and the Close reply that `docs/websocket-worker-message-flow.md:299`
  describes is lost when the client's FIN arrives with its Close.
- An unknown WebSocket message type gets no reply (`DispatchIgnores`), nor does a test
  message without its fields (`TaskThrows`), and answers of tasks that end during shutdown may be dropped with their worker's queue.
- `getDeviceKeyBundle` reads `signed_prekey_id` as a 32-bit `int`
  (`ChatHandler.cpp:140`), the registration accepts the range of BIGINT.
- A `friend.request.received` push may reach its recipient after the request was
  cancelled.
- A start-up that fails after `service_thread_pool.init()` destroys joinable threads as
  well, and ends by `std::terminate` instead of `return 1`.

## 4. Fairness
Threads that can run do run: weak fairness per thread. Strong fairness is used
where a step needs a lock that others take again and again: a lease that returns
to the pool, the timer of a worker that is kept busy, a reader that is refused for a
while. The operating system's mutexes and PostgreSQL's lock queues give it.

Of clients little is assumed. A WebSocket peer may never read. In `server` an HTTP
client finishes or falls silent for the 15 seconds of `SO_RCVTIMEO`, and the database
calls of a task return (the code sets no statement timeout: a database that hangs
hangs the shutdown). That `running()` throws is never assumed, and no fairness
is left in a process that was aborted. In `connection_input` the timer
fires and a client that is alive takes what it is sent and answers pings, as RFC 6455
obliges it to; a client may die at any moment. In `envelope_sync` a device goes on
synchronising unless it is revoked. In `key_exchange` a thread goes on when the
database lets it, and PostgreSQL detects deadlocks; that a statement fails is never
assumed. The number of calls is bounded there, because a transaction that waits
`FOR UPDATE` can be overtaken again and again by ones that share the row.

## 5. Proofs
TLAPS checks every leaf; the theorems hold for every value of the constants that the
named assumptions of the modules admit. Apart from types and finiteness (threads,
descriptors: `ThreadAssumption`, `DescriptorAssumption`) these are what the code
enforces: `ConfigAssumption` is what `DatabasePool::init` validates,
`BizThreadsAssumption` (at least one business thread) what the constructor of
`ServiceThreadPool` throws for. Every inductive invariant was an invariant of a TLC run
before it was proved. Every safety property of the passing runs, invariant, action
property or refinement, is proved.

### DatabasePoolProofs
* `PoolInvariant`: `Spec => [](TypeOK /\ PoolAccounting /\ CapacityBound)`. The inductive
  invariant `PoolInv` is the conjunction itself, and no part is inductive alone:
  `total - 1` and `total - Len(idle_queue)` are natural numbers only because `total`
  counts the slots exactly. The argument follows the set `Owners` of threads that hold a
  slot: each action adds one owner, removes one, or exchanges one with the queue.
* `WakeupTheorem`: `Spec => []NoLostWakeup`. `CloseInv` adds to `PoolInv` that the queue
  holds idle connections only (`QueueClean`) and who stopped the pool (`CloseOrder`).
  The heart is `ClaimSteps`: a step that leaves a client waiting either leaves no free
  slot, or keeps the claims, or takes a slot with its claim, or frees a slot with a new
  claim, or hands a claim on; so claims keep up with slots (`ClaimsKept`). A notification
  cannot go to `close()` instead of a client: it waits only when no client does
  (`NobodyWaits`, `CloserWoken`).
* `ClosedTheorem` (`ClosedMeansEmpty`) and `HandedOutTheorem` (`HandedOutClean`, an action
  property) follow from `CloseInv`.
* `LeasePoolTheorem`: `Spec => ImplementsLeasePool`. `TakeIdle` and `Connected` are
  `Grant` (there is room because the holders are owners), the releases `GiveBack`,
  `CloseBegins` and `CloseJoins` the two steps of the shutdown, the rest stutters.

### EnvelopeStoreProofs
A saving transaction reads in one statement what it relies on in another. `StoreInv`
says what the locks keep true in between: `PairLocks` (two transactions past the
advisory lock are about different pairs), `Writing` (their devices are still active, the
message is still absent, the number they took is still the next), `RevokeLocks` (`FOR
UPDATE` excludes `FOR SHARE`), `Told` (a result holds when it is answered), `Inbox` and
`Paging` (past a page there is only what the device has or what is newer). `Counted`
keeps the numbers within the bound on requests.
* `SequenceTheorem`, `AnswerTheorem`, `CursorTheorem`, `ReceiptTheorem` and `TypeTheorem`
  are the invariants of the two runs.
* `RevocationTheorem`: the action property `NothingAfterRevocation`.
* `PairLogTheorem`: `Spec => ImplementsPairLog`. A COMMIT that stores a row appends one
  message to the log of its pair (`AppendIsExtension`) and leaves the others; the log of
  a pair is its rows in the order of `seq`, a sequence because `SequenceDense` holds.

### WebSocketWorkersProofs
Nobody locks a session; the argument is which worker an item is at, and that it is there
once. `WorkersInv` adds to the properties: `OneHolder` (an open descriptor is held by one
session, handshake, pending connection or accepted one), `Sids` and `Replies` (session
ids are never used again, and a queued reply names the device its session has),
`RevokeOnce` (the closure of a revocation is queued at a worker once) and `RevokeRan`
(after it ran, each remaining session of the device has a callback, and no handshake of
it is left or can start). `Counted` bounds the session ids by the connections accepted.
* `ConfirmationTheorem` (`ConfirmedMeansGone`): a confirmed request has all workers
  ready, so the closure ran on each; a session left would have a callback, which
  `CompletionOnce` excludes for a worker that is ready.
* `DirectoryTheorem`, `CleanDescriptorTheorem`, `CompletionTheorem`, `DeliveryTheorem` and
  `TypeTheorem` are the other invariants.

### ServerLifecycleProofs
* `HttpInvariant`: `Spec => [](TypeOK /\ StoppedQueueEmpty /\ DescriptorsHaveOneOwner)`,
  of the HTTP pool alone. `Placed` says at which steps a thread has a descriptor number,
  and that the closing thread comes after the stop. `Swept` says that a descriptor owned
  by the queue is in it and that only a stop shuts sockets down.
* `LifetimeTheorem`, `AnswerOnceTheorem`, `OwnershipTheorem`: `NothingOutlivesWhatItUses`,
  `AnsweredOnce` and `DescriptorsHaveOneOwner` of the whole process. `ServerInv` adds to
  the invariant of the HTTP pool: `Held` (the owner of a descriptor still knows it),
  `TaskPlaced` (a task is in the queue or at one thread exactly while its request is
  accepted), `Drained` (a thread leaves only a stopped, empty pool) and `Joined` (what
  the progress of `main()` implies about the threads it has joined, on each way out of
  `running()`). A task cannot be accepted once the business threads are gone, because
  they were at least one and left the queue empty; that they are gone before a worker is
  destroyed (`DestroyedAfterTasks`) holds only if `running()` has returned, and
  `LifetimeTheorem` claims no more. That an aborted process was unwinding needs the same
  lemma: otherwise no task could have met a destroyed worker (`CrashKept`).

### ConnectionInputProofs
The assumptions say what a client may send, not how it is cut: every element stands where
the one before it ends (`LayoutAssumption`); a request line, headers, a blank line, the
body that valid headers announce, then frames (`StreamAssumption`); cuts are at offsets in
an element (`CutAssumption`). Lines may lack their spaces or colons, a `Content-Length` may
be anything, and the header lines, sizes, opcodes and forms of frames are arbitrary. That
elements lie in order (`LaterBegins`) is a sum over a stream of any length; it is proved
from its first counterexample, by `WFMin`, since the induction rules cannot be used.
* `InputInvariant`: `Spec => []Inv`. `Parsing` says where the HTTP parser stands in each
  state and that `content_length` is what the headers passed so far announce; `Framing`
  that the WebSocket parser stands in front of a frame or at the end. A frame goes through
  three queues: `Ordered` says that each ascends and that they lie behind one another,
  `Kept` that no expected message the parser has passed is missing from them, `NoGap` that
  none is missing in front of one that is ready or dispatched. `NoGap` is needed because
  `Kept` fails after a protocol error, whose frames are dropped, and such a read may still
  end in an exception that keeps the connection (`DispatchThrows`): the frame that threw
  was ready, so what stood in front of it was kept, and what stood behind it was not
  expected.
* `RequestIsParsedExactly` (`RequestParsedExactly`): a refusal or a garbled line is made
  impossible by `SpacesFound` (a complete line has its two spaces in the buffer); the end
  of the request is the position in `Parsing`.
* `FramesAreReadAsSent` (`FramesReadAsSent`): from `Ordered`, `NoGap`, and `ErrorIsIllegal`
  (what `FrameParse` refuses is not `LegalFrame`, for every length and form).
* `InputTypes`: `consumed <= got <= arrived <= Total` among the types.

### LoginTicketsProofs
* `CredentialInvariant` (`TicketBuysOneCredential`) and `NoCredentialTheorem`
  (`RevokedDeviceHasNoCredential`). Neither survives a COMMIT without knowing what the
  row locks exclude; `LoginInv` adds `TicketLocks` (a locked ticket is locked by one
  transaction and unused), `DeviceLocks` (a device that `complete` has checked stays
  active, one it registers stays unknown to others) and `RevokeLocks` (a revocation
  excludes logins on its device, so its sweep has seen all of the device's tokens).
* `StampKept`: the action property `RevocationStampKept`, from `LoginInv`.

### FriendshipsProofs and PrekeysProofs
* `FriendInvariant`: `FriendSpec => [](AcceptedIffFriends /\ ToldStatusIsFinal)`, of friend
  requests alone. A COMMIT changes the status it read statements ago, so the invariant
  needs `RequestLocks`: a transaction that holds a request is alone with it and finds it
  pending. Two acceptances of opposite requests insert the same rows; the relation is
  then the same whichever commits first. The lemmas hold for threads that also run other
  calls (a set `O` with other program counters).
* `KeyInvariant` (`PrekeyHandedOnce`), `UploadTheorem` (`UploadIsWhole`) and
  `FriendsTheorem`, for friend requests, uploads, claims and revocations together.
  `KeyInv` adds what the locks give: `DeviceLocks` (a shared device is active and nobody
  revokes it), `ClaimLocks` (the key a claim took is available and no other claim's, and
  the claim stays allowed because friendships are only added), `InsertLocks` (keys
  inserted by a transaction under way are nobody else's) and `UploadOwns`,
  `UploadNumbers` (which rows came from which upload). One lemma per conjunct says when
  the step of a thread keeps it, one per kind of step applies them, and the friend
  requests come from `FriendNextKeeps` and `FriendFrame`.
* `RevokedDeviceUntouched`: the action property `NothingForRevokedDevice`: the steps that
  write prekeys share the device, which `DeviceLocks` makes active.

### Only model-checked
Liveness under fairness (`CloseTerminates`, `RevokedSessionsClose`, `EnvelopesArrive`,
`FullQueueDrains`, `AcceptedTasksFinish`, `ShutdownTerminates`, `CallsReturn`,
`EarlyFramesHandled`, `DeadPeerRemoved`) is out of the prover's reach, with `ENABLED`.
Nothing else of the passing runs is left to TLC alone.

## 6. Not modelled
The validation of JSON bodies and the text of responses, the routing table,
cryptography, unmasking and the bytes of payloads, failures to create epoll, event and
timer descriptors, the sequential start of the process (its end is the initial state
of `ServerLifecycle`), `push_To_User` (fans out like `push_To_Device`; `Friendships`
only keeps which requests were pushed). In `WebSocketWorkers` the closure of a revocation
does not throw (`WebsocketWorker.cpp:818`, which would set an exception on the promise and
make the caller report a failure). `Prekeys` has no inactive users: `users.is_active` is a
further condition of the same locked row, and no operation changes it. Registration is one transaction of two inserts
whose races the unique indexes of the database decide; the password check of a login is
a read before `LoginTickets` begins. Redis is unused. `rotate`, `deleteRefreshToken`
and `deleteExpiredBefore` have no caller.

## 7. What is left
Two hazards have no property (`PROJECT.json`): a ticket that expires while its completion
waits for locks, and an access token issued from a refresh token that was read before a
revocation. Both need a clock or a second service in `LoginTickets`.
