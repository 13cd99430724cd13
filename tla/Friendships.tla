---------------------------- MODULE Friendships ----------------------------
(***************************************************************************)
(* Friend requests: UserHandler::RequestFriendship and                     *)
(* ProcessFriendshipRequest with the UserService and UserRepository calls  *)
(* behind them, and the queries FetchUnprocessedFriendship, FetchFriends   *)
(* and VerifyFriendShip.                                                   *)
(*                                                                         *)
(* A call runs on one thread, one SQL statement per action; at READ        *)
(* COMMITTED a statement sees what was committed when it starts.  A        *)
(* processing transaction locks its request FOR UPDATE.  The two rows of   *)
(* an accepted friendship are inserted one after the other, and PostgreSQL *)
(* makes an insert wait for a transaction that has inserted the same row   *)
(* and has not ended: requests in both directions accepted at once can     *)
(* wait for each other, and PostgreSQL then aborts one of them.            *)
(*                                                                         *)
(* Bodies that fail validation and requests to oneself are answered 400    *)
(* before anything is read, and start no call here.  The schema is not in  *)
(* the repository: of friend_request_pending_pair_unique only its name is  *)
(* known, and the weaker reading is modelled, one pending request per      *)
(* ordered pair, so that opposite requests can both be pending.            *)
(***************************************************************************)
EXTENDS Naturals, FiniteSets

CONSTANTS Users, Requests, Threads,
          NoRow,            \* a request id that no row has
          InitialRequests,  \* the contents of app.friend_request to start from
          MaxCalls          \* bound on the calls of a behaviour

VARIABLES
  request,    \* app.friend_request, committed
  relation,   \* app.friend_relation, committed: ordered pairs
  thread,     \* the call each thread runs and how far it is
  calls,      \* number of calls begun
  pushed,     \* requests pushed to their recipient's connections
  told        \* final statuses that some caller was told with 200

friendVars == <<request, relation, thread, calls, pushed, told>>

Actions == {"accepted", "rejected", "cancelled"}
Row == [requester : Users, recipient : Users, status : Actions \union {"pending"}]
ASSUME NoRowAssumption == NoRow \notin Row
ASSUME MaxCallsAssumption == MaxCalls \in Nat
ASSUME InitialAssumption ==
  /\ InitialRequests \subseteq [Requests -> Row \union {NoRow}]
  /\ \A table \in InitialRequests, r \in Requests :
       table[r] # NoRow => table[r].status = "pending" /\ table[r].requester # table[r].recipient

Idle == [at |-> "idle"]
CreateCall == [at : {"create"}, me : Users, friend : Users]
                \union [at : {"notify"}, request : Requests]
ProcessCall == [at : {"lock", "update", "first", "second", "commit"}, me : Users,
                request : Requests, action : Actions]

FriendTypes(otherCalls) ==
  /\ request \in [Requests -> Row \union {NoRow}]
  /\ relation \subseteq Users \X Users
  /\ thread \in [Threads -> {Idle} \union CreateCall \union ProcessCall \union otherCalls]
  /\ calls \in Nat
  /\ pushed \subseteq Requests
  /\ told \subseteq Requests \X Actions

FriendTypeOK == FriendTypes({})

FriendInit ==
  /\ request \in InitialRequests /\ relation = {}
  /\ thread = [t \in Threads |-> Idle]
  /\ calls = 0 /\ pushed = {} /\ told = {}

-----------------------------------------------------------------------------
Begins(t, call) ==
  /\ thread[t].at = "idle" /\ calls < MaxCalls
  /\ calls' = calls + 1
  /\ thread' = [thread EXCEPT ![t] = call]
Goto(t, step) == thread' = [thread EXCEPT ![t].at = step]
Returns(t) == thread' = [thread EXCEPT ![t] = Idle]

(* The two rows of an accepted request, in the order they are inserted, and *)
(* the rows a transaction has inserted that nobody else sees yet.           *)
PairAt(r, step) ==
  IF step = "first" THEN <<request[r].requester, request[r].recipient>>
                    ELSE <<request[r].recipient, request[r].requester>>

Accepts(t) ==
  /\ thread[t].at \in {"first", "second", "commit"}
  /\ thread[t].action = "accepted"
Inserted(t) ==
  IF ~Accepts(t) THEN {}
  ELSE {PairAt(thread[t].request, s) : s \in CASE thread[t].at = "first" -> {}
                                             [] thread[t].at = "second" -> {"first"}
                                             [] OTHER -> {"first", "second"}} \ relation

\* The transaction t waits for has inserted the row that t is about to insert.
WaitsFor(t, u) ==
  /\ u # t /\ thread[t].at \in {"first", "second"}
  /\ PairAt(thread[t].request, thread[t].at) \in Inserted(u)

\* The lock FOR UPDATE on a request, held to the end of the transaction.
LocksRequest(t, r) ==
  /\ thread[t].at \in {"update", "first", "second", "commit"}
  /\ thread[t].request = r

-----------------------------------------------------------------------------
(* UserHandler::RequestFriendship.                                          *)

\* Ids of requests are generated: the unused ones limit the calls of a model.
Unused == {r \in Requests : request[r] = NoRow}
RequestFriendship(t, me, friend) ==
  /\ me # friend
  /\ Cardinality({u \in Threads : thread[u].at = "create"}) < Cardinality(Unused)
  /\ Begins(t, [at |-> "create", me |-> me, friend |-> friend])
  /\ UNCHANGED <<request, relation, pushed, told>>

SamePending(me, friend) ==
  {r \in Requests \ Unused : request[r] = [requester |-> me, recipient |-> friend,
                                           status |-> "pending"]}

\* The unique index makes the INSERT wait for a transaction that is about to end the
\* pending request it collides with.
InsertWaits(t) ==
  \E r \in SamePending(thread[t].me, thread[t].friend), u \in Threads :
    LocksRequest(u, r) /\ thread[u].at # "update"

Stores(t, r) ==
  /\ SamePending(thread[t].me, thread[t].friend) = {}
  /\ request' = [request EXCEPT ![r] = [requester |-> thread[t].me,
                                        recipient |-> thread[t].friend,
                                        status |-> "pending"]]

\* UserRepository::CreateNewFriendship, one statement outside any transaction.  A
\* violation of the pending-pair constraint is the answer 409.
CreateNewFriendship(t) ==
  /\ thread[t].at = "create" /\ ~InsertWaits(t)
  /\ \/ \E r \in Unused :
          Stores(t, r) /\ thread' = [thread EXCEPT ![t] = [at |-> "notify", request |-> r]]
     \/ /\ SamePending(thread[t].me, thread[t].friend) # {}
        /\ Returns(t) /\ UNCHANGED request
  /\ UNCHANGED <<relation, calls, pushed, told>>

\* The server stored the row and the connection broke: the answer is 503.
CreateOutcomeLost(t) ==
  /\ thread[t].at = "create" /\ ~InsertWaits(t) /\ (\E r \in Unused : Stores(t, r)) /\ Returns(t)
  /\ UNCHANGED <<relation, calls, pushed, told>>

\* push_To_User after the row is stored; if it throws, the answer is still 200.
Notify(t) ==
  /\ thread[t].at = "notify"
  /\ pushed' \in {pushed, pushed \union {thread[t].request}}
  /\ Returns(t)
  /\ UNCHANGED <<request, relation, calls, told>>

-----------------------------------------------------------------------------
(* UserRepository::processFriendshipRequest, in withTransaction.            *)

ProcessFriendshipRequest(t, me, r, action) ==
  /\ Begins(t, [at |-> "lock", me |-> me, request |-> r, action |-> action])
  /\ UNCHANGED <<request, relation, pushed, told>>

\* Only a pending request may take a final status.
\* MUTANT: a rejected request may still be accepted.
MayChange_RejectedToo(row) == row.status \in {"pending", "rejected"}
MayChange(row) == row.status = "pending"

Decision(row, me, action) ==
  LET authorizedActor == IF action = "cancelled" THEN row.requester ELSE row.recipient
  IN  CASE me # authorizedActor -> "Forbidden"
        [] me = authorizedActor /\ row.status = action -> "AlreadyProcessed"
        [] me = authorizedActor /\ row.status # action /\ ~MayChange(row) -> "Conflict"
        [] OTHER -> "Success"

\* SELECT ... FOR UPDATE, and what the row read decides.  A result other than Success
\* ends the transaction, which has written nothing; 200 also answers AlreadyProcessed.
LockRequest(t) ==
  LET r == thread[t].request
      action == thread[t].action
      result == IF request[r] = NoRow THEN "NotFound"
                ELSE Decision(request[r], thread[t].me, action)
  IN  /\ thread[t].at = "lock"
      /\ \A u \in Threads : ~LocksRequest(u, r)
      /\ IF result = "Success" THEN Goto(t, "update") ELSE Returns(t)
      /\ told' = IF result = "AlreadyProcessed" THEN told \union {<<r, action>>} ELSE told
      /\ UNCHANGED <<request, relation, calls, pushed>>

\* UPDATE ... WHERE status = 'pending' of the row locked above: no row is Conflict.
UpdateRequest(t) ==
  /\ thread[t].at = "update"
  /\ IF MayChange(request[thread[t].request])
     THEN Goto(t, IF thread[t].action = "accepted" THEN "first" ELSE "commit")
     ELSE Returns(t)
  /\ UNCHANGED <<request, relation, calls, pushed, told>>

\* INSERT ... VALUES ($1, $2), ($2, $1) ON CONFLICT DO NOTHING, row by row.
InsertRelation(t) ==
  /\ thread[t].at \in {"first", "second"} /\ \A u \in Threads : ~WaitsFor(t, u)
  /\ Goto(t, IF thread[t].at = "first" THEN "second" ELSE "commit")
  /\ UNCHANGED <<request, relation, calls, pushed, told>>

\* What COMMIT makes visible at once.
\* MUTANT: only the row of the user who accepts is stored.
CommitWrites_OneDirection(t) ==
  /\ request' = [request EXCEPT ![thread[t].request].status = thread[t].action]
  /\ relation' = relation \union {p \in Inserted(t) : p[1] = thread[t].me}
CommitWrites(t) ==
  /\ request' = [request EXCEPT ![thread[t].request].status = thread[t].action]
  /\ relation' = relation \union Inserted(t)

CommitProcess(t) ==
  /\ thread[t].at = "commit" /\ CommitWrites(t) /\ Returns(t)
  /\ told' = told \union {<<thread[t].request, thread[t].action>>}
  /\ UNCHANGED <<calls, pushed>>

\* The connection breaks during COMMIT: committed, and answered 500, since the error has
\* no SQLSTATE and is no Connection error.
CommitProcessLost(t) ==
  /\ thread[t].at = "commit" /\ CommitWrites(t) /\ Returns(t)
  /\ UNCHANGED <<calls, pushed, told>>

\* MUTANT: the aborted statement is tried again and the transaction not rolled back.
DeadlockAborted_Retried(t) ==
  /\ \E u \in Threads : WaitsFor(t, u) /\ WaitsFor(u, t)
  /\ UNCHANGED friendVars

\* PostgreSQL breaks a cycle of waiting transactions (40P01): rolled back, answer 500.
DeadlockAborted(t) ==
  /\ \E u \in Threads : WaitsFor(t, u) /\ WaitsFor(u, t)
  /\ Returns(t) /\ UNCHANGED <<request, relation, calls, pushed, told>>

\* Any statement may fail: a transaction is rolled back, and the answer is an error.
FriendCallFails(t) ==
  /\ thread[t].at \in {"create", "lock", "update", "first", "second", "commit"}
  /\ Returns(t) /\ UNCHANGED <<request, relation, calls, pushed, told>>

-----------------------------------------------------------------------------
FriendStep(t) ==
  \/ CreateNewFriendship(t) \/ Notify(t)
  \/ LockRequest(t) \/ UpdateRequest(t) \/ InsertRelation(t) \/ CommitProcess(t)
  \/ DeadlockAborted(t)
FriendFault(t) == CreateOutcomeLost(t) \/ CommitProcessLost(t) \/ FriendCallFails(t)

FriendNext ==
  \E t \in Threads :
    \/ \E me \in Users, friend \in Users : RequestFriendship(t, me, friend)
    \/ \E me \in Users, r \in Requests, action \in Actions :
         ProcessFriendshipRequest(t, me, r, action)
    \/ FriendStep(t) \/ FriendFault(t)

FriendSpec == FriendInit /\ [][FriendNext]_friendVars

-----------------------------------------------------------------------------
(* The queries.                                                             *)

\* FetchUnprocessedRequest, FetchFriends and VerifyFriendShip.
UnprocessedFor(u) ==
  {r \in Requests \ Unused : request[r].recipient = u /\ request[r].status = "pending"}
FriendsOf(u) == {f \in Users : <<u, f>> \in relation}
VerifyFriendShip(me, friend) == <<me, friend>> \in relation

\* A transaction that has locked its request found it pending, is alone with it, and
\* finds it so when it commits.
RequestLocks ==
  \A t \in Threads : thread[t].at \in {"update", "first", "second", "commit"} =>
    /\ request[thread[t].request] # NoRow
    /\ request[thread[t].request].status = "pending"
    /\ \A u \in Threads : LocksRequest(u, thread[t].request) => u = t

-----------------------------------------------------------------------------
(* Properties.                                                              *)

\* Two users are friends, each in the list FetchFriends gives the other, exactly when
\* a request between them was accepted: the update of the request and both rows of the
\* relation become visible together, wherever a transaction of
\* processFriendshipRequest fails or loses its COMMIT, and when requests in both
\* directions are accepted at once.
AcceptedIffFriends ==
  \A a, b \in Users :
    /\ b \in FriendsOf(a) <=> a \in FriendsOf(b)
    /\ b \in FriendsOf(a) <=>
         \E r \in Requests \ Unused :
           request[r].status = "accepted" /\ {request[r].requester, request[r].recipient} = {a, b}

\* The final status that an answer 200 of ProcessFriendshipRequest named is the status
\* of the request from then on: two parties who process one request at once are never
\* told different outcomes, and the recipient is not shown the request again.
ToldStatusIsFinal ==
  \A r \in Requests, action \in Actions : <<r, action>> \in told =>
    /\ request[r] # NoRow /\ request[r].status = action
    /\ r \notin UnprocessedFor(request[r].recipient)
=============================================================================
