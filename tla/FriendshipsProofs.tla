------------------------- MODULE FriendshipsProofs -------------------------
(***************************************************************************)
(* Friendships and answers agree with the requests, for every number of    *)
(* users, requests and threads.                                            *)
(*                                                                         *)
(* The lemmas hold whatever other calls the threads run beside the friend  *)
(* requests (the set O), as long as those use other program counters; the  *)
(* proofs of Prekeys use them for the two together.                        *)
(***************************************************************************)
EXTENDS Friendships, TLAPS

FriendSteps == {"idle", "create", "notify", "lock", "update", "first", "second", "commit"}

\* The inductive invariant.
FriendInv == RequestLocks /\ AcceptedIffFriends /\ ToldStatusIsFinal

-----------------------------------------------------------------------------
\* What a thread's record holds follows from how far its call is.
LEMMA CallFields ==
  ASSUME NEW O, \A c \in O : c.at \notin FriendSteps, FriendTypes(O), NEW t \in Threads
  PROVE  /\ thread[t].at \in {"lock", "update", "first", "second", "commit"} =>
              thread[t] \in ProcessCall
         /\ thread[t].at = "create" => thread[t] \in [at : {"create"}, me : Users, friend : Users]
         /\ thread[t].at = "notify" => thread[t] \in [at : {"notify"}, request : Requests]
         /\ thread[t].at = "idle" => thread[t] = Idle
<1>1. thread[t] \in {Idle} \union CreateCall \union ProcessCall \union O
  BY DEF FriendTypes
<1>2. thread[t] = Idle => thread[t].at = "idle"
  BY DEF Idle
<1>3. thread[t] \in CreateCall => \/ thread[t] \in [at : {"create"}, me : Users, friend : Users]
                                  \/ thread[t] \in [at : {"notify"}, request : Requests]
  BY DEF CreateCall
<1>4. thread[t] \in ProcessCall =>
        thread[t].at \in {"lock", "update", "first", "second", "commit"}
  BY DEF ProcessCall
<1>5. thread[t] \in [at : {"create"}, me : Users, friend : Users] => thread[t].at = "create"
  OBVIOUS
<1>6. thread[t] \in [at : {"notify"}, request : Requests] => thread[t].at = "notify"
  OBVIOUS
<1>7. thread[t] \in O => thread[t].at \notin FriendSteps
  OBVIOUS
<1> QED
  BY <1>1, <1>2, <1>3, <1>4, <1>5, <1>6, <1>7 DEF FriendSteps

\* A call that returns, or a process call that takes its next step, keeps the types.
LEMMA ThreadMoves ==
  ASSUME NEW O, \A c \in O : c.at \notin FriendSteps, FriendTypes(O), NEW t \in Threads
  PROVE  LET calling == [Threads -> {Idle} \union CreateCall \union ProcessCall \union O]
         IN  /\ Returns(t) => thread' \in calling
             /\ \A step \in {"update", "first", "second", "commit"} :
                  /\ thread[t].at \in {"lock", "update", "first", "second", "commit"}
                  /\ Goto(t, step)
                  => /\ thread' \in calling
                     /\ thread' = [thread EXCEPT ![t] = [at |-> step, me |-> thread[t].me,
                                     request |-> thread[t].request,
                                     action |-> thread[t].action]]
<1> DEFINE calling == [Threads -> {Idle} \union CreateCall \union ProcessCall \union O]
<1>1. thread \in calling
  BY DEF FriendTypes
<1>2. Returns(t) => thread' \in calling
  BY <1>1 DEF Returns
<1>3. ASSUME NEW step \in {"update", "first", "second", "commit"},
             thread[t].at \in {"lock", "update", "first", "second", "commit"}, Goto(t, step)
      PROVE  /\ thread' \in calling
             /\ thread' = [thread EXCEPT ![t] = [at |-> step, me |-> thread[t].me,
                             request |-> thread[t].request, action |-> thread[t].action]]
  <2>1. thread[t] \in ProcessCall
    BY <1>3, CallFields
  <2>2. thread[t] = [at |-> thread[t].at, me |-> thread[t].me,
                     request |-> thread[t].request, action |-> thread[t].action]
    BY <2>1 DEF ProcessCall
  <2>3. [thread[t] EXCEPT !.at = step] =
          [at |-> step, me |-> thread[t].me, request |-> thread[t].request,
           action |-> thread[t].action]
    BY <2>2
  <2>4. thread' = [thread EXCEPT ![t] = [thread[t] EXCEPT !.at = step]]
    BY <1>3 DEF Goto
  <2>5. [at |-> step, me |-> thread[t].me, request |-> thread[t].request,
         action |-> thread[t].action] \in ProcessCall
    BY <2>1 DEF ProcessCall
  <2> QED
    BY <1>1, <2>3, <2>4, <2>5
<1> QED
  BY <1>2, <1>3

\* A step that writes no table keeps the invariant, if the thread that moves locks no
\* request that it had not locked.
LEMMA QuietStep ==
  ASSUME NEW O, FriendTypes(O), FriendInv, NEW t \in Threads, NEW c,
         thread' = [thread EXCEPT ![t] = c],
         c.at \in {"update", "first", "second", "commit"} => LocksRequest(t, c.request),
         UNCHANGED <<request, relation, told>>
  PROVE  FriendInv'
<1>1. thread \in [Threads -> {Idle} \union CreateCall \union ProcessCall \union O]
  BY DEF FriendTypes
<1>2. RequestLocks'
  <2> SUFFICES ASSUME NEW x \in Threads,
                      thread'[x].at \in {"update", "first", "second", "commit"}
               PROVE  /\ request[thread'[x].request] # NoRow
                      /\ request[thread'[x].request].status = "pending"
                      /\ \A u \in Threads : LocksRequest(u, thread[x].request)' => u = x
    BY DEF RequestLocks
  <2>1. /\ thread[x].at \in {"update", "first", "second", "commit"}
        /\ thread[x].request = thread'[x].request
    BY <1>1 DEF LocksRequest
  <2>2. ASSUME NEW u \in Threads, LocksRequest(u, thread[x].request)'
        PROVE  LocksRequest(u, thread[x].request)
    BY <1>1, <2>1, <2>2 DEF LocksRequest
  <2> QED
    BY <2>1, <2>2 DEF FriendInv, RequestLocks
<1>3. AcceptedIffFriends' /\ ToldStatusIsFinal'
  BY DEF FriendInv, AcceptedIffFriends, ToldStatusIsFinal, FriendsOf, Unused, UnprocessedFor
<1> QED
  BY <1>2, <1>3 DEF FriendInv

\* RequestFriendship and ProcessFriendshipRequest begin.
LEMMA BeginKeeps ==
  ASSUME NEW O, \A c \in O : c.at \notin FriendSteps, FriendTypes(O), FriendInv,
         NEW t \in Threads,
         \/ \E me \in Users, friend \in Users : RequestFriendship(t, me, friend)
         \/ \E me \in Users, r \in Requests, action \in Actions :
              ProcessFriendshipRequest(t, me, r, action)
  PROVE  FriendTypes(O)' /\ FriendInv'
<1>1. CASE \E me \in Users, friend \in Users : RequestFriendship(t, me, friend)
  <2> PICK me \in Users, friend \in Users : RequestFriendship(t, me, friend)
    BY <1>1
  <2> DEFINE c == [at |-> "create", me |-> me, friend |-> friend]
  <2>1. c \in CreateCall /\ c.at = "create"
    BY DEF CreateCall
  <2>2. /\ thread' = [thread EXCEPT ![t] = c] /\ calls' = calls + 1
        /\ UNCHANGED <<request, relation, pushed, told>>
    BY DEF RequestFriendship, Begins
  <2>3. FriendTypes(O)'
    BY <2>1, <2>2 DEF FriendTypes
  <2> HIDE DEF c
  <2> QED
    BY <2>1, <2>2, <2>3, QuietStep
<1>2. CASE \E me \in Users, r \in Requests, action \in Actions :
             ProcessFriendshipRequest(t, me, r, action)
  <2> PICK me \in Users, r \in Requests, action \in Actions :
             ProcessFriendshipRequest(t, me, r, action)
    BY <1>2
  <2> DEFINE c == [at |-> "lock", me |-> me, request |-> r, action |-> action]
  <2>1. c \in ProcessCall /\ c.at = "lock"
    BY DEF ProcessCall
  <2>2. /\ thread' = [thread EXCEPT ![t] = c] /\ calls' = calls + 1
        /\ UNCHANGED <<request, relation, pushed, told>>
    BY DEF ProcessFriendshipRequest, Begins
  <2>3. FriendTypes(O)'
    BY <2>1, <2>2 DEF FriendTypes
  <2> HIDE DEF c
  <2> QED
    BY <2>1, <2>2, <2>3, QuietStep
<1> QED
  BY <1>1, <1>2

\* The steps that write no table: a call that ends or fails, a statement of the
\* transaction whose effect is not visible before the commit.
LEMMA QuietSteps ==
  ASSUME NEW O, \A c \in O : c.at \notin FriendSteps, FriendTypes(O), FriendInv,
         NEW t \in Threads,
         Notify(t) \/ UpdateRequest(t) \/ InsertRelation(t) \/ DeadlockAborted(t)
           \/ FriendCallFails(t)
  PROVE  FriendTypes(O)' /\ FriendInv'
<1>1. UNCHANGED <<request, relation, told, calls>>
  BY DEF Notify, UpdateRequest, InsertRelation, DeadlockAborted, FriendCallFails
<1>2. pushed' \subseteq Requests
  <2>1. CASE Notify(t)
    <3>1. thread[t].request \in Requests
      BY <2>1, CallFields DEF Notify
    <3> QED
      BY <2>1, <3>1 DEF Notify, FriendTypes
  <2>2. CASE UpdateRequest(t) \/ InsertRelation(t) \/ DeadlockAborted(t) \/ FriendCallFails(t)
    BY <2>2 DEF UpdateRequest, InsertRelation, DeadlockAborted, FriendCallFails, FriendTypes
  <2> QED
    BY <2>1, <2>2
<1>3. \/ Returns(t)
      \/ /\ thread[t].at \in {"update", "first", "second"}
         /\ \E step \in {"update", "first", "second", "commit"} : Goto(t, step)
  BY DEF Notify, UpdateRequest, InsertRelation, DeadlockAborted, FriendCallFails
<1>4. CASE Returns(t)
  <2>1. FriendTypes(O)'
    BY <1>1, <1>2, <1>4, ThreadMoves DEF FriendTypes
  <2>2. FriendInv'
    BY <1>1, <1>4, QuietStep DEF Returns, Idle
  <2> QED
    BY <2>1, <2>2
<1>5. CASE /\ thread[t].at \in {"update", "first", "second"}
           /\ \E step \in {"update", "first", "second", "commit"} : Goto(t, step)
  <2> PICK step \in {"update", "first", "second", "commit"} : Goto(t, step)
    BY <1>5
  <2> DEFINE c == [at |-> step, me |-> thread[t].me, request |-> thread[t].request,
                   action |-> thread[t].action]
  <2>1. /\ thread' \in [Threads -> {Idle} \union CreateCall \union ProcessCall \union O]
        /\ thread' = [thread EXCEPT ![t] = c]
    BY <1>5, ThreadMoves
  <2>2. FriendTypes(O)'
    BY <1>1, <1>2, <2>1 DEF FriendTypes
  <2>3. LocksRequest(t, c.request)
    BY <1>5 DEF LocksRequest
  <2> HIDE DEF c
  <2> QED
    BY <1>1, <2>1, <2>2, <2>3, QuietStep
<1> QED
  BY <1>3, <1>4, <1>5

\* SELECT ... FOR UPDATE: the request is locked if it is pending; what an answer 200
\* tells is the status of the row that was read.
LEMMA LockKeeps ==
  ASSUME NEW O, \A c \in O : c.at \notin FriendSteps, FriendTypes(O), FriendInv,
         NEW t \in Threads, LockRequest(t)
  PROVE  FriendTypes(O)' /\ FriendInv'
<1> DEFINE r == thread[t].request
           action == thread[t].action
           result == IF request[r] = NoRow THEN "NotFound"
                     ELSE Decision(request[r], thread[t].me, action)
<1>1. /\ thread[t].at = "lock" /\ \A u \in Threads : ~LocksRequest(u, r)
      /\ IF result = "Success" THEN Goto(t, "update") ELSE Returns(t)
      /\ told' = IF result = "AlreadyProcessed" THEN told \union {<<r, action>>} ELSE told
      /\ UNCHANGED <<request, relation, calls, pushed>>
  BY DEF LockRequest
<1>2. r \in Requests /\ action \in Actions /\ thread[t] \in ProcessCall
  BY <1>1, CallFields DEF ProcessCall
<1>3. CASE result = "Success"
  <2> DEFINE c == [at |-> "update", me |-> thread[t].me, request |-> r, action |-> action]
  <2>1. /\ thread' \in [Threads -> {Idle} \union CreateCall \union ProcessCall \union O]
        /\ thread' = [thread EXCEPT ![t] = c]
    BY <1>1, <1>3, ThreadMoves
  <2>2. request[r] # NoRow /\ request[r].status = "pending"
    BY <1>3 DEF Decision, MayChange
  <2>3. UNCHANGED told
    BY <1>1, <1>3
  <2>4. FriendTypes(O)'
    BY <1>1, <2>1, <2>3 DEF FriendTypes
  <2>5. RequestLocks'
    <3>1. c.at = "update" /\ c.request = r
      OBVIOUS
    <3>2. thread \in [Threads -> {Idle} \union CreateCall \union ProcessCall \union O]
      BY DEF FriendTypes
    <3> HIDE DEF c, r
    <3> SUFFICES ASSUME NEW x \in Threads,
                        thread'[x].at \in {"update", "first", "second", "commit"}
                 PROVE  /\ request[thread'[x].request] # NoRow
                        /\ request[thread'[x].request].status = "pending"
                        /\ \A u \in Threads : LocksRequest(u, thread[x].request)' => u = x
      BY <1>1 DEF RequestLocks
    <3>3. CASE x = t
      <4>1. thread'[x].request = r
        BY <2>1, <3>1, <3>2, <3>3
      <4>2. \A u \in Threads \ {t} : thread'[u] = thread[u]
        BY <2>1, <3>2
      <4> QED
        BY <1>1, <2>2, <3>3, <4>1, <4>2 DEF LocksRequest
    <3>4. CASE x # t
      <4>1. /\ thread'[x] = thread[x] /\ thread'[t] = c
            /\ \A u \in Threads \ {t} : thread'[u] = thread[u]
        BY <2>1, <3>2, <3>4
      <4>2. thread[x].request # r
        BY <1>1, <4>1 DEF LocksRequest
      <4> QED
        BY <3>1, <4>1, <4>2 DEF LocksRequest, FriendInv, RequestLocks
    <3> QED
      BY <3>3, <3>4
  <2>6. AcceptedIffFriends' /\ ToldStatusIsFinal'
    BY <1>1, <2>3 DEF FriendInv, AcceptedIffFriends, ToldStatusIsFinal, FriendsOf, Unused,
                      UnprocessedFor
  <2> QED
    BY <2>4, <2>5, <2>6 DEF FriendInv
<1>4. CASE result # "Success"
  <2>1. Returns(t)
    BY <1>1, <1>4
  <2>2. told' \subseteq Requests \X Actions
    BY <1>1, <1>2 DEF FriendTypes
  <2>3. FriendTypes(O)'
    BY <1>1, <2>1, <2>2, ThreadMoves DEF FriendTypes
  <2>4. RequestLocks' /\ AcceptedIffFriends'
    <3>1. thread \in [Threads -> {Idle} \union CreateCall \union ProcessCall \union O]
      BY DEF FriendTypes
    <3>2. \A u \in Threads : thread'[u] = thread[u] \/ thread'[u].at = "idle"
      BY <2>1, <3>1 DEF Returns, Idle
    <3>3. RequestLocks'
      BY <1>1, <3>2 DEF FriendInv, RequestLocks, LocksRequest
    <3>4. AcceptedIffFriends'
      BY <1>1 DEF FriendInv, AcceptedIffFriends, FriendsOf, Unused
    <3> QED
      BY <3>3, <3>4
  <2>5. ToldStatusIsFinal'
    <3>1. result = "AlreadyProcessed" => request[r] # NoRow /\ request[r].status = action
      BY DEF Decision
    <3>2. action # "pending"
      BY <1>2 DEF Actions
    <3> HIDE DEF result, r, action
    <3> SUFFICES ASSUME NEW q \in Requests, NEW a \in Actions, <<q, a>> \in told'
                 PROVE  /\ request[q] # NoRow /\ request[q].status = a
                        /\ q \notin UnprocessedFor(request[q].recipient)
      BY <1>1 DEF ToldStatusIsFinal, UnprocessedFor, Unused
    <3>3. CASE <<q, a>> \in told
      BY <3>3 DEF FriendInv, ToldStatusIsFinal
    <3>4. CASE <<q, a>> \notin told
      <4>1. q = r /\ a = action /\ result = "AlreadyProcessed"
        BY <1>1, <3>4
      <4> QED
        BY <3>1, <3>2, <4>1 DEF UnprocessedFor
    <3> QED
      BY <3>3, <3>4
  <2> QED
    BY <2>3, <2>4, <2>5 DEF FriendInv
<1> QED
  BY <1>3, <1>4

\* INSERT of a request, answered or not: the row is new and pending.
LEMMA CreateKeeps ==
  ASSUME NEW O, \A c \in O : c.at \notin FriendSteps, FriendTypes(O), FriendInv,
         NEW t \in Threads, CreateNewFriendship(t) \/ CreateOutcomeLost(t)
  PROVE  FriendTypes(O)' /\ FriendInv'
<1>1. thread[t] \in [at : {"create"}, me : Users, friend : Users]
  BY CallFields DEF CreateNewFriendship, CreateOutcomeLost
<1>2. UNCHANGED <<relation, calls, pushed, told>>
  BY DEF CreateNewFriendship, CreateOutcomeLost
<1>3. CASE Returns(t) /\ UNCHANGED request
  <2>1. FriendTypes(O)'
    BY <1>2, <1>3, ThreadMoves DEF FriendTypes
  <2> QED
    BY <1>2, <1>3, <2>1, QuietStep DEF Returns, Idle
<1>4. ASSUME NEW r \in Unused, Stores(t, r),
             Returns(t) \/ thread' = [thread EXCEPT ![t] = [at |-> "notify", request |-> r]]
      PROVE  FriendTypes(O)' /\ FriendInv'
  <2> DEFINE row == [requester |-> thread[t].me, recipient |-> thread[t].friend,
                     status |-> "pending"]
  <2>1. /\ r \in Requests /\ request[r] = NoRow
        /\ request' = [request EXCEPT ![r] = row]
    BY <1>4 DEF Unused, Stores
  <2>2. row \in Row /\ row # NoRow /\ row.status = "pending"
    BY <1>1, NoRowAssumption DEF Row
  <2>3. /\ request \in [Requests -> Row \union {NoRow}]
        /\ thread \in [Threads -> {Idle} \union CreateCall \union ProcessCall \union O]
    BY DEF FriendTypes
  <2> HIDE DEF row
  <2>4. FriendTypes(O)'
    <3>1. [at |-> "notify", request |-> r] \in CreateCall
      BY <2>1 DEF CreateCall
    <3>2. thread' \in [Threads -> {Idle} \union CreateCall \union ProcessCall \union O]
      BY <1>4, <2>3, <3>1 DEF Returns
    <3> QED
      BY <1>2, <2>1, <2>2, <2>3, <3>2 DEF FriendTypes
  <2>5. \A u \in Threads : thread'[u] = thread[u] \/ thread'[u].at \in {"idle", "notify"}
    BY <1>4, <2>3 DEF Returns, Idle
  <2>6. \A q \in Requests : q # r => request'[q] = request[q]
    BY <2>1, <2>3
  <2>7. request'[r] = row
    BY <2>1, <2>3
  <2>8. RequestLocks'
    <3>1. ASSUME NEW u \in Threads, thread'[u].at \in {"update", "first", "second", "commit"}
          PROVE  thread'[u] = thread[u] /\ request'[thread[u].request] = request[thread[u].request]
      <4>1. thread'[u] = thread[u]
        BY <2>5, <3>1
      <4>2. thread[u].request \in Requests
        BY <3>1, <4>1, CallFields DEF ProcessCall
      <4>3. thread[u].request # r
        BY <2>1, <3>1, <4>1 DEF FriendInv, RequestLocks
      <4> QED
        BY <2>6, <4>1, <4>2, <4>3
    <3> QED
      BY <3>1 DEF FriendInv, RequestLocks, LocksRequest
  <2>9. AcceptedIffFriends'
    <3>1. ASSUME NEW a \in Users, NEW b \in Users
          PROVE  (\E q \in Requests \ Unused' : /\ request'[q].status = "accepted"
                     /\ {request'[q].requester, request'[q].recipient} = {a, b})
                 <=> (\E q \in Requests \ Unused : /\ request[q].status = "accepted"
                     /\ {request[q].requester, request[q].recipient} = {a, b})
      <4>1. Unused' = Unused \ {r}
        BY <2>1, <2>2, <2>6, <2>7 DEF Unused
      <4>2. \A q \in Requests \ Unused : q # r
        BY <1>4
      <4> QED
        BY <2>2, <2>6, <2>7, <4>1, <4>2
    <3> QED
      BY <1>2, <3>1 DEF FriendInv, AcceptedIffFriends, FriendsOf
  <2>10. ToldStatusIsFinal'
    <3> SUFFICES ASSUME NEW q \in Requests, NEW a \in Actions, <<q, a>> \in told
                 PROVE  /\ request'[q] # NoRow /\ request'[q].status = a
                        /\ (q \notin UnprocessedFor(request[q].recipient))'
      BY <1>2 DEF ToldStatusIsFinal
    <3>1. /\ request[q] # NoRow /\ request[q].status = a /\ a # "pending"
      BY DEF FriendInv, ToldStatusIsFinal, Actions
    <3>2. request'[q] = request[q]
      BY <2>1, <2>6, <3>1
    <3> QED
      BY <3>1, <3>2 DEF UnprocessedFor
  <2> QED
    BY <2>4, <2>8, <2>9, <2>10 DEF FriendInv
<1> QED
  BY <1>3, <1>4 DEF CreateNewFriendship, CreateOutcomeLost

\* COMMIT, answered or not: the status and both rows of the relation appear at once.
LEMMA CommitKeeps ==
  ASSUME NEW O, \A c \in O : c.at \notin FriendSteps, FriendTypes(O), FriendInv,
         NEW t \in Threads, CommitProcess(t) \/ CommitProcessLost(t)
  PROVE  FriendTypes(O)' /\ FriendInv'
<1> DEFINE r == thread[t].request
           action == thread[t].action
           x == request[r].requester
           y == request[r].recipient
<1>1. /\ thread[t].at = "commit" /\ CommitWrites(t) /\ Returns(t)
      /\ told' \in {told, told \union {<<r, action>>}}
      /\ UNCHANGED <<calls, pushed>>
  BY DEF CommitProcess, CommitProcessLost
<1>2. thread[t] \in ProcessCall /\ r \in Requests /\ action \in Actions
  BY <1>1, CallFields DEF ProcessCall
<1>3. /\ request \in [Requests -> Row \union {NoRow}]
      /\ thread \in [Threads -> {Idle} \union CreateCall \union ProcessCall \union O]
      /\ relation \subseteq Users \X Users /\ told \subseteq Requests \X Actions
      /\ calls \in Nat /\ pushed \subseteq Requests
  BY DEF FriendTypes
<1>4. /\ request[r] # NoRow /\ request[r].status = "pending"
      /\ \A u \in Threads : LocksRequest(u, r) => u = t
  BY <1>1 DEF FriendInv, RequestLocks
<1>5. request[r] \in Row /\ x \in Users /\ y \in Users
  BY <1>2, <1>3, <1>4 DEF Row
<1>6. /\ request'[r] = [requester |-> x, recipient |-> y, status |-> action]
      /\ \A q \in Requests : q # r => request'[q] = request[q]
      /\ request' \in [Requests -> Row \union {NoRow}]
  <2>1. request' = [request EXCEPT ![r] = [request[r] EXCEPT !.status = action]]
    BY <1>1 DEF CommitWrites
  <2>2. request[r] = [requester |-> x, recipient |-> y, status |-> request[r].status]
    BY <1>5 DEF Row
  <2>3. [request[r] EXCEPT !.status = action] =
          [requester |-> x, recipient |-> y, status |-> action]
    BY <2>2
  <2>4. [requester |-> x, recipient |-> y, status |-> action] \in Row
    BY <1>2, <1>5 DEF Row
  <2> QED
    BY <1>2, <1>3, <2>1, <2>3, <2>4
<1>7. relation' = IF action = "accepted" THEN relation \union {<<x, y>>, <<y, x>>} ELSE relation
  <2>1. relation' = relation \union Inserted(t)
    BY <1>1 DEF CommitWrites
  <2>2. action # "accepted" => Inserted(t) = {}
    BY DEF Inserted, Accepts
  <2>3. action = "accepted" => Inserted(t) = {PairAt(r, s) : s \in {"first", "second"}} \ relation
    BY <1>1 DEF Inserted, Accepts
  <2>4. {PairAt(r, s) : s \in {"first", "second"}} = {<<x, y>>, <<y, x>>}
    BY DEF PairAt
  <2> QED
    BY <2>1, <2>2, <2>3, <2>4
<1>8. request'[r] # NoRow
  <2>1. request'[r] \in Row
    BY <1>2, <1>5, <1>6 DEF Row
  <2> QED
    BY <2>1, NoRowAssumption
<1>9. Unused' = Unused /\ r \notin Unused
  BY <1>2, <1>4, <1>6, <1>8 DEF Unused
<1>10. \A u \in Threads : thread'[u] = IF u = t THEN Idle ELSE thread[u]
  BY <1>1, <1>3 DEF Returns
<1>11. FriendTypes(O)'
  <2>1. relation' \subseteq Users \X Users
    BY <1>3, <1>5, <1>7
  <2>2. told' \subseteq Requests \X Actions
    BY <1>1, <1>2, <1>3
  <2>3. thread' \in [Threads -> {Idle} \union CreateCall \union ProcessCall \union O]
    BY <1>1, ThreadMoves
  <2> QED
    BY <1>1, <1>3, <1>6, <2>1, <2>2, <2>3 DEF FriendTypes
<1> HIDE DEF r, action, x, y
<1>12. RequestLocks'
  <2>1. ASSUME NEW u \in Threads, thread'[u].at \in {"update", "first", "second", "commit"}
        PROVE  /\ thread'[u] = thread[u] /\ u # t
               /\ request'[thread[u].request] = request[thread[u].request]
    <3>1. u # t /\ thread'[u] = thread[u]
      BY <1>10, <2>1 DEF Idle
    <3>2. thread[u].request \in Requests
      BY <2>1, <3>1, CallFields DEF ProcessCall
    <3>3. thread[u].request # r
      BY <1>4, <2>1, <3>1 DEF LocksRequest
    <3> QED
      BY <1>6, <3>1, <3>2, <3>3
  <2> QED
    BY <2>1 DEF FriendInv, RequestLocks, LocksRequest
<1>13. AcceptedIffFriends'
  <2> DEFINE Agreed(q, a, b) ==
               /\ request[q].status = "accepted"
               /\ {request[q].requester, request[q].recipient} = {a, b}
             Agreed1(q, a, b) ==
               /\ request'[q].status = "accepted"
               /\ {request'[q].requester, request'[q].recipient} = {a, b}
  <2>1. ASSUME NEW a \in Users, NEW b \in Users
        PROVE  (\E q \in Requests \ Unused' : Agreed1(q, a, b)) <=>
                 \/ \E q \in Requests \ Unused : Agreed(q, a, b)
                 \/ action = "accepted" /\ {x, y} = {a, b}
    <3>1. Agreed1(r, a, b) <=> action = "accepted" /\ {x, y} = {a, b}
      BY <1>6
    <3>2. ~Agreed(r, a, b)
      BY <1>4
    <3>3. \A q \in Requests : q # r => (Agreed1(q, a, b) <=> Agreed(q, a, b))
      BY <1>6
    <3> HIDE DEF Agreed, Agreed1
    <3> QED
      BY <1>2, <1>9, <3>1, <3>2, <3>3
  <2>2. ASSUME NEW a \in Users, NEW b \in Users
        PROVE  <<a, b>> \in relation' <=>
                 \/ <<a, b>> \in relation
                 \/ action = "accepted" /\ {x, y} = {a, b}
    BY <1>7
  <2>3. ASSUME NEW a \in Users, NEW b \in Users
        PROVE  /\ <<a, b>> \in relation <=> <<b, a>> \in relation
               /\ <<a, b>> \in relation <=> \E q \in Requests \ Unused : Agreed(q, a, b)
    BY DEF FriendInv, AcceptedIffFriends, FriendsOf
  <2>4. ASSUME NEW a \in Users, NEW b \in Users
        PROVE  /\ <<a, b>> \in relation' <=> <<b, a>> \in relation'
               /\ <<a, b>> \in relation' <=> \E q \in Requests \ Unused' : Agreed1(q, a, b)
    <3>1. {x, y} = {a, b} <=> {x, y} = {b, a}
      OBVIOUS
    <3> HIDE DEF Agreed, Agreed1
    <3> QED
      BY <2>1, <2>2, <2>3, <3>1
  <2> QED
    BY <2>4 DEF AcceptedIffFriends, FriendsOf
<1>14. ToldStatusIsFinal'
  <2> SUFFICES ASSUME NEW q \in Requests, NEW a \in Actions, <<q, a>> \in told'
               PROVE  /\ request'[q] # NoRow /\ request'[q].status = a
                      /\ (q \notin UnprocessedFor(request[q].recipient))'
    BY DEF ToldStatusIsFinal
  <2>1. a # "pending"
    BY DEF Actions
  <2>2. request'[q] # NoRow /\ request'[q].status = a
    <3>1. CASE q = r /\ a = action
      BY <1>6, <1>8, <3>1
    <3>2. CASE ~(q = r /\ a = action)
      <4>1. <<q, a>> \in told
        BY <1>1, <3>2 DEF r, action
      <4>2. request[q] # NoRow /\ request[q].status = a
        BY <4>1 DEF FriendInv, ToldStatusIsFinal
      <4> QED
        BY <1>4, <1>6, <2>1, <4>2
    <3> QED
      BY <3>1, <3>2
  <2> QED
    BY <2>1, <2>2 DEF UnprocessedFor
<1> QED
  BY <1>11, <1>12, <1>13, <1>14 DEF FriendInv

-----------------------------------------------------------------------------
\* No step of a friend request breaks the invariant, whatever runs beside it.
LEMMA FriendNextKeeps ==
  ASSUME NEW O, \A c \in O : c.at \notin FriendSteps, FriendTypes(O), FriendInv, FriendNext
  PROVE  FriendTypes(O)' /\ FriendInv'
<1> PICK t \in Threads :
      \/ \E me \in Users, friend \in Users : RequestFriendship(t, me, friend)
      \/ \E me \in Users, r \in Requests, action \in Actions :
           ProcessFriendshipRequest(t, me, r, action)
      \/ FriendStep(t) \/ FriendFault(t)
  BY DEF FriendNext
<1>1. CASE \/ \E me \in Users, friend \in Users : RequestFriendship(t, me, friend)
           \/ \E me \in Users, r \in Requests, action \in Actions :
                ProcessFriendshipRequest(t, me, r, action)
  BY <1>1, BeginKeeps
<1>2. CASE CreateNewFriendship(t) \/ CreateOutcomeLost(t)
  BY <1>2, CreateKeeps
<1>3. CASE LockRequest(t)
  BY <1>3, LockKeeps
<1>4. CASE CommitProcess(t) \/ CommitProcessLost(t)
  BY <1>4, CommitKeeps
<1>5. CASE Notify(t) \/ UpdateRequest(t) \/ InsertRelation(t) \/ DeadlockAborted(t)
             \/ FriendCallFails(t)
  BY <1>5, QuietSteps
<1> QED
  BY <1>1, <1>2, <1>3, <1>4, <1>5 DEF FriendStep, FriendFault

\* A database that holds pending requests only, and no call.
LEMMA FriendInitHolds == ASSUME NEW O, FriendInit PROVE FriendTypes(O) /\ FriendInv
<1>1. FriendTypes(O)
  BY InitialAssumption DEF FriendInit, FriendTypes
<1>2. RequestLocks
  BY DEF FriendInit, RequestLocks, Idle
<1>3. AcceptedIffFriends
  <2>1. \A r \in Requests \ Unused : request[r].status = "pending"
    BY InitialAssumption DEF FriendInit, Unused
  <2> QED
    BY <2>1 DEF FriendInit, AcceptedIffFriends, FriendsOf
<1>4. ToldStatusIsFinal
  BY DEF FriendInit, ToldStatusIsFinal
<1> QED
  BY <1>1, <1>2, <1>3, <1>4 DEF FriendInv

\* Stuttering.
LEMMA FriendStutters ==
  ASSUME NEW O, FriendTypes(O), FriendInv, UNCHANGED friendVars
  PROVE  FriendTypes(O)' /\ FriendInv'
<1>1. FriendTypes(O)'
  BY DEF friendVars, FriendTypes
<1>2. RequestLocks'
  BY DEF friendVars, FriendInv, RequestLocks, LocksRequest
<1>3. AcceptedIffFriends' /\ ToldStatusIsFinal'
  BY DEF friendVars, FriendInv, AcceptedIffFriends, ToldStatusIsFinal, FriendsOf, Unused,
         UnprocessedFor
<1> QED
  BY <1>1, <1>2, <1>3 DEF FriendInv

\* What a friend request leaves to the calls beside it.
LEMMA FriendFrame ==
  ASSUME NEW O, \A c \in O : c.at \notin FriendSteps, FriendTypes(O), FriendNext
  PROVE  /\ \A u \in Threads : thread'[u] = thread[u] \/ thread'[u].at \in FriendSteps
         /\ relation \subseteq relation'
         /\ calls' = calls \/ (calls' = calls + 1 /\ calls < MaxCalls)
<1> PICK t \in Threads :
      \/ \E me \in Users, friend \in Users : RequestFriendship(t, me, friend)
      \/ \E me \in Users, r \in Requests, action \in Actions :
           ProcessFriendshipRequest(t, me, r, action)
      \/ FriendStep(t) \/ FriendFault(t)
  BY DEF FriendNext
<1>1. relation \subseteq relation' /\ (calls' = calls \/ (calls' = calls + 1 /\ calls < MaxCalls))
  <2>1. CASE CommitProcess(t) \/ CommitProcessLost(t)
    BY <2>1 DEF CommitProcess, CommitProcessLost, CommitWrites
  <2>2. CASE ~(CommitProcess(t) \/ CommitProcessLost(t))
    BY <2>2 DEF RequestFriendship, ProcessFriendshipRequest, Begins, FriendStep, FriendFault,
       CreateNewFriendship, CreateOutcomeLost, Notify, LockRequest, UpdateRequest,
       InsertRelation, DeadlockAborted, FriendCallFails
  <2> QED
    BY <2>1, <2>2
<1>2. thread \in [Threads -> {Idle} \union CreateCall \union ProcessCall \union O]
  BY DEF FriendTypes
<1> DEFINE Enters == \E c : thread' = [thread EXCEPT ![t] = c] /\ c.at \in FriendSteps
           Continues == /\ thread[t].at \in {"lock", "update", "first", "second", "commit"}
                        /\ \E step \in {"update", "first", "second", "commit"} : Goto(t, step)
<1>3. Enters \/ Continues
  <2>1. Idle.at \in FriendSteps
    BY DEF Idle, FriendSteps
  <2>2. CASE Returns(t)
    BY <2>1, <2>2 DEF Returns
  <2>3. ASSUME NEW me, NEW friend, RequestFriendship(t, me, friend)
        PROVE  Enters
    <3> DEFINE c == [at |-> "create", me |-> me, friend |-> friend]
    <3>1. thread' = [thread EXCEPT ![t] = c] /\ c.at \in FriendSteps
      BY <2>3 DEF RequestFriendship, Begins, FriendSteps
    <3> QED
      BY <3>1
  <2>4. ASSUME NEW me, NEW r, NEW action, ProcessFriendshipRequest(t, me, r, action)
        PROVE  Enters
    <3> DEFINE c == [at |-> "lock", me |-> me, request |-> r, action |-> action]
    <3>1. thread' = [thread EXCEPT ![t] = c] /\ c.at \in FriendSteps
      BY <2>4 DEF ProcessFriendshipRequest, Begins, FriendSteps
    <3> QED
      BY <3>1
  <2>5. ASSUME NEW r, thread' = [thread EXCEPT ![t] = [at |-> "notify", request |-> r]]
        PROVE  Enters
    <3>1. [at |-> "notify", request |-> r].at \in FriendSteps
      BY DEF FriendSteps
    <3> QED
      BY <2>5, <3>1
  <2>6. CASE FriendStep(t) \/ FriendFault(t)
    <3>1. CASE LockRequest(t)
      BY <2>2, <3>1 DEF LockRequest
    <3>2. CASE CreateNewFriendship(t)
      BY <2>2, <2>5, <3>2 DEF CreateNewFriendship
    <3>3. CASE UpdateRequest(t) \/ InsertRelation(t)
      BY <2>2, <3>3 DEF UpdateRequest, InsertRelation
    <3>4. CASE Notify(t) \/ CommitProcess(t) \/ DeadlockAborted(t) \/ CreateOutcomeLost(t)
                \/ CommitProcessLost(t) \/ FriendCallFails(t)
      BY <2>2, <3>4 DEF Notify, CommitProcess, DeadlockAborted, CreateOutcomeLost,
                        CommitProcessLost, FriendCallFails
    <3> QED
      BY <2>6, <3>1, <3>2, <3>3, <3>4 DEF FriendStep, FriendFault
  <2> QED
    BY <2>3, <2>4, <2>6
<1>4. CASE Enters
  BY <1>1, <1>2, <1>4
<1>5. CASE Continues
  <2> PICK step \in {"update", "first", "second", "commit"} : Goto(t, step)
    BY <1>5
  <2> DEFINE c == [at |-> step, me |-> thread[t].me, request |-> thread[t].request,
                   action |-> thread[t].action]
  <2>1. thread' = [thread EXCEPT ![t] = c]
    BY <1>5, ThreadMoves
  <2>2. c.at \in FriendSteps
    BY DEF FriendSteps
  <2> HIDE DEF c
  <2> QED
    BY <1>1, <1>2, <2>1, <2>2
<1> QED
  BY <1>3, <1>4, <1>5

-----------------------------------------------------------------------------
\* Of friend requests alone: two users are friends exactly when a request between them
\* was accepted, and no caller of ProcessFriendshipRequest was told an outcome that is
\* not the final one.
THEOREM FriendInvariant == FriendSpec => [](AcceptedIffFriends /\ ToldStatusIsFinal)
<1> DEFINE Inv == FriendTypes({}) /\ FriendInv
<1>1. FriendInit => Inv
  BY FriendInitHolds
<1>2. Inv /\ [FriendNext]_friendVars => Inv'
  BY FriendNextKeeps, FriendStutters
<1>3. Inv => AcceptedIffFriends /\ ToldStatusIsFinal
  BY DEF FriendInv
<1> QED
  BY <1>1, <1>2, <1>3, PTL DEF FriendSpec
=============================================================================
