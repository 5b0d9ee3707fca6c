-------------------------- MODULE FriendSerialProofs ---------------------------
(***************************************************************************)
(* A Profiles service that serves one call at a time implements            *)
(* FriendRules, for any users and requests and whatever fails: what the    *)
(* handler has checked is still true when it writes.                       *)
(***************************************************************************)
EXTENDS FriendGraphProofs

\* What a handler has learnt from the reads it has made.
Checked(h) ==
  LET c == call[h] IN
  /\ pc[h] \in Reading \cup {"block"} => c.by # c.with
  /\ pc[h] \in {"are_friends", "pending_between", "create"} => ~IsBlockedEitherWay(c.by, c.with)
  /\ pc[h] \in {"pending_between", "create"} => ~AreFriends(c.by, c.with)
  /\ pc[h] = "create" => PendingBetween(c.by, c.with) = {}
  /\ pc[h] \in {"accept", "decline"} => requests[c.rid].status = "PENDING"

Mutual == \A u, v \in Users : <<u, v>> \in friendships => <<v, u>> \in friendships

TablesInv == Mutual /\ BlockedApart /\ AskedOnce

SerialInv == /\ TypeInv /\ OnePendingPerPair /\ TablesInv
             /\ \A h \in Handlers : Checked(h)

LEMMA SerialInit == Init => SerialInv
<1> SUFFICES ASSUME Init PROVE SerialInv
  OBVIOUS
<1>1. TypeInv
  BY TypeInit
<1>2. PendingPairs = {}
  BY DEF Init, PendingPairs, Pending, NoRow
<1>3. OnePendingPerPair
  BY DEF Init, OnePendingPerPair, Pending, NoRow
<1>4. \A h \in Handlers : Checked(h)
  BY DEF Init, Checked, Reading
<1> QED BY <1>1, <1>2, <1>3, <1>4 DEF SerialInv, TablesInv, Init, Mutual, BlockedApart, AskedOnce

--------------------------------------------------------------------------------
\* What each write does to the pairs that have a waiting request.

LEMMA PairsAsked ==
  ASSUME SerialInv, NEW h \in Handlers, CreateFriendRequest(h), requests' # requests
  PROVE  PendingPairs' = PendingPairs \cup {<<call[h].by, call[h].with>>}
<1> DEFINE u == call[h].by  v == call[h].with
           row == [from |-> u, to |-> v, status |-> "PENDING"]
<1>1. u \in Users /\ v \in Users
  BY DEF SerialInv, TypeInv, Shape, CreateFriendRequest, Reading
<1>2. PICK r \in Rids : requests[r].status = "ABSENT" /\ requests' = [requests EXCEPT ![r] = row]
  BY DEF CreateFriendRequest
<1>3. /\ requests'[r] = row
      /\ \A s \in Rids \ {r} : requests'[s] = requests[s]
  BY <1>2 DEF SerialInv, TypeInv, TypeOK
<1>4. \A a, b \in Users : Pending(a, b)' # {} <=> Pending(a, b) # {} \/ (a = u /\ b = v)
  BY <1>2, <1>3 DEF Pending
<1> QED BY <1>1, <1>4 DEF PendingPairs

LEMMA PairsResolved ==
  ASSUME SerialInv, NEW h \in Handlers, pc[h] \in {"accept", "decline"},
         NEW status \in {"ACCEPTED", "DECLINED"}, Resolve(call[h].rid, status)
  PROVE  LET row == requests[call[h].rid] IN
         /\ <<row.from, row.to>> \in PendingPairs
         /\ row.from \in Users /\ row.to \in Users
         /\ PendingPairs' = PendingPairs \ {<<row.from, row.to>>}
<1> DEFINE i == call[h].rid  row == requests[i]
<1>1. i \in Rids /\ row.status = "PENDING" /\ row.from \in Users /\ row.to \in Users
  BY DEF SerialInv, TypeInv, Shape, Checked
<1>2. /\ requests'[i].status = status
      /\ \A r \in Rids \ {i} : requests'[r] = requests[r]
  BY <1>1 DEF Resolve, SerialInv, TypeInv, TypeOK, Row
<1>3. \A r \in Rids \ {i} : requests[r].status = "PENDING" => ~(requests[r].from = row.from /\ requests[r].to = row.to)
  BY <1>1 DEF SerialInv, OnePendingPerPair, Pending
<1>4. <<row.from, row.to>> \in PendingPairs
  BY <1>1 DEF PendingPairs, Pending
<1>5. \A a, b \in Users : Pending(a, b)' # {} <=> Pending(a, b) # {} /\ ~(a = row.from /\ b = row.to)
  BY <1>1, <1>2, <1>3 DEF Pending
<1>6. PendingPairs' = PendingPairs \ {<<row.from, row.to>>}
  BY <1>5 DEF PendingPairs
<1> QED BY <1>1, <1>4, <1>6

LEMMA PairsBlocked ==
  ASSUME SerialInv, NEW h \in Handlers, Block(h)
  PROVE  /\ call[h].by \in Users /\ call[h].with \in Users /\ call[h].by # call[h].with
         /\ PendingPairs' = PendingPairs \ Both(call[h].by, call[h].with)
<1> DEFINE u == call[h].by  v == call[h].with
<1>1. u \in Users /\ v \in Users /\ u # v
  BY DEF SerialInv, TypeInv, Shape, Checked, Block, Writing
<1>2. \A r \in Rids : IF r \in PendingBetween(u, v)
                      THEN requests'[r].status = "DECLINED"
                      ELSE requests'[r] = requests[r]
  BY DEF Block, Cancelled, SerialInv, TypeInv, TypeOK, Row
<1>3. \A a, b \in Users : Pending(a, b)' # {} <=> Pending(a, b) # {} /\ <<a, b>> \notin Both(u, v)
  BY <1>1, <1>2 DEF PendingBetween, Pending, Both
<1>4. PendingPairs' = PendingPairs \ Both(u, v)
  BY <1>3 DEF PendingPairs
<1> QED BY <1>1, <1>4

--------------------------------------------------------------------------------
\* Each write is the step of FriendRules it is named for, and keeps the pairs
\* apart.

LEMMA AskStep ==
  ASSUME SerialInv, NEW h \in Handlers, CreateFriendRequest(h), requests' # requests
  PROVE  [Rules!Next]_Rules!vars /\ TablesInv'
<1> DEFINE u == call[h].by  v == call[h].with
<1>1. u \in Users /\ v \in Users /\ u # v /\ UNCHANGED <<friendships, blocks>>
  BY DEF SerialInv, TypeInv, Shape, Checked, CreateFriendRequest, Reading
<1>2. ~IsBlockedEitherWay(u, v) /\ ~AreFriends(u, v) /\ PendingBetween(u, v) = {}
  BY DEF SerialInv, Checked, CreateFriendRequest
<1>3. Both(u, v) \cap blocks = {} /\ Both(v, u) \cap blocks = {}
  BY <1>2 DEF IsBlockedEitherWay, Both
<1>4. Both(u, v) \cap friendships = {}
  BY <1>1, <1>2 DEF AreFriends, Both, SerialInv, TablesInv, Mutual
<1>5. Both(u, v) \cap PendingPairs = {}
  BY <1>1, <1>2 DEF PendingBetween, Both, PendingPairs
<1>6. PendingPairs' = PendingPairs \cup {<<u, v>>}
  BY PairsAsked
<1>7. Rules!Ask(u, v)
  BY <1>1, <1>3, <1>4, <1>5, <1>6 DEF Rules!Ask, Rules!Both, Both
<1>8. Mutual'
  BY <1>1 DEF Mutual, SerialInv, TablesInv
<1>9. Blocked' = Blocked /\ <<u, v>> \notin Blocked
  BY <1>1, <1>3 DEF Blocked, IsBlockedEitherWay
<1>10. BlockedApart'
  BY <1>1, <1>6, <1>9 DEF BlockedApart, SerialInv, TablesInv
<1>11. AskedOnce'
  <2>1. PendingPairs' \cap friendships' = {}
    BY <1>1, <1>4, <1>6 DEF AskedOnce, Both, SerialInv, TablesInv
  <2>2. ASSUME NEW p \in PendingPairs'
        PROVE  <<p[2], p[1]>> \notin PendingPairs'
    <3>1. p \in Users \X Users
      BY <2>2, <1>1, <1>6 DEF PendingPairs
    <3>2. <<v, u>> \notin PendingPairs /\ <<u, v>> \notin PendingPairs
      BY <1>5 DEF Both
    <3>3. CASE p = <<u, v>>
      BY <1>1, <1>6, <3>2, <3>3
    <3>4. CASE p \in PendingPairs
      <4>1. <<p[2], p[1]>> \notin PendingPairs
        BY <3>4 DEF AskedOnce, SerialInv, TablesInv
      <4>2. <<p[2], p[1]>> # <<u, v>>
        BY <3>1, <3>2, <3>4
      <4> QED BY <1>6, <4>1, <4>2
    <3> QED BY <1>6, <3>3, <3>4
  <2> QED BY <2>1, <2>2 DEF AskedOnce
<1> QED BY <1>1, <1>7, <1>8, <1>10, <1>11 DEF Rules!Next, TablesInv

LEMMA ResolveStep ==
  ASSUME SerialInv, NEW h \in Handlers, AcceptFriendRequest(h) \/ DeclineFriendRequest(h)
  PROVE  [Rules!Next]_Rules!vars /\ TablesInv'
<1> DEFINE row == requests[call[h].rid]  u == row.from  v == row.to
<1>1. /\ <<u, v>> \in PendingPairs /\ u \in Users /\ v \in Users
      /\ PendingPairs' = PendingPairs \ {<<u, v>>} /\ blocks' = blocks
  BY PairsResolved DEF AcceptFriendRequest, DeclineFriendRequest
<1> HIDE DEF row
<1>2. Blocked' = Blocked /\ <<u, v>> \notin Blocked /\ <<v, u>> \notin Blocked
  BY <1>1 DEF Blocked, IsBlockedEitherWay, Both, SerialInv, TablesInv, BlockedApart
<1>3. <<v, u>> \notin PendingPairs
  BY <1>1 DEF SerialInv, TablesInv, AskedOnce
<1>4. CASE AcceptFriendRequest(h)
  <2>1. friendships' = friendships \cup Both(u, v)
    BY <1>4 DEF AcceptFriendRequest, row
  <2>2. Rules!Accept(u, v)
    BY <1>1, <2>1 DEF Rules!Accept, Rules!Both, Both
  <2>3. Mutual'
    BY <2>1 DEF Mutual, Both, SerialInv, TablesInv
  <2>4. BlockedApart'
    BY <1>1, <1>2, <2>1 DEF BlockedApart, Both, SerialInv, TablesInv
  <2>5. AskedOnce'
    BY <1>1, <1>3, <2>1 DEF AskedOnce, Both, SerialInv, TablesInv
  <2> QED BY <1>1, <2>2, <2>3, <2>4, <2>5 DEF Rules!Next, TablesInv
<1>5. CASE DeclineFriendRequest(h)
  <2>1. friendships' = friendships
    BY <1>5 DEF DeclineFriendRequest
  <2>2. Rules!Decline(u, v)
    BY <1>1, <2>1 DEF Rules!Decline
  <2>3. Mutual' /\ BlockedApart' /\ AskedOnce'
    BY <1>1, <1>2, <2>1 DEF Mutual, BlockedApart, AskedOnce, SerialInv, TablesInv
  <2> QED BY <1>1, <2>2, <2>3 DEF Rules!Next, TablesInv
<1> QED BY <1>4, <1>5

LEMMA RemovalStep ==
  ASSUME SerialInv, NEW h \in Handlers, RemoveFriendship(h) \/ Block(h) \/ Unblock(h)
  PROVE  [Rules!Next]_Rules!vars /\ TablesInv'
<1> DEFINE u == call[h].by  v == call[h].with
<1>1. u \in Users /\ v \in Users
  BY DEF SerialInv, TypeInv, Shape, RemoveFriendship, Block, Unblock, Writing
<1>2. ASSUME requests' = requests
      PROVE  PendingPairs' = PendingPairs
  BY <1>2 DEF PendingPairs, Pending
<1>3. CASE RemoveFriendship(h)
  <2>1. friendships' = friendships \ Both(u, v) /\ PendingPairs' = PendingPairs /\ blocks' = blocks
    BY <1>2, <1>3 DEF RemoveFriendship
  <2>2. Rules!Unfriend(u, v)
    BY <2>1 DEF Rules!Unfriend, Rules!Both, Both
  <2>3. Mutual' /\ AskedOnce'
    BY <2>1 DEF Mutual, AskedOnce, Both, SerialInv, TablesInv
  <2>4. BlockedApart'
    BY <2>1 DEF BlockedApart, Blocked, IsBlockedEitherWay, SerialInv, TablesInv
  <2> QED BY <1>1, <2>2, <2>3, <2>4 DEF Rules!Next, TablesInv
<1>4. CASE Block(h)
  <2>1. /\ friendships' = friendships \ Both(u, v) /\ PendingPairs' = PendingPairs \ Both(u, v)
        /\ blocks' = blocks \cup {<<u, v>>} /\ u # v
    BY <1>4, PairsBlocked DEF Block
  <2>2. Rules!Block(u, v)
    BY <2>1 DEF Rules!Block, Rules!Both, Both
  <2>3. Mutual' /\ AskedOnce'
    BY <2>1 DEF Mutual, AskedOnce, Both, SerialInv, TablesInv
  <2>4. Blocked' \subseteq Blocked \cup Both(u, v)
    BY <2>1 DEF Blocked, IsBlockedEitherWay, Both
  <2>5. BlockedApart'
    BY <2>1, <2>4 DEF BlockedApart, SerialInv, TablesInv
  <2> QED BY <1>1, <2>2, <2>3, <2>5 DEF Rules!Next, TablesInv
<1>5. CASE Unblock(h)
  <2>1. friendships' = friendships /\ PendingPairs' = PendingPairs /\ blocks' = blocks \ {<<u, v>>}
    BY <1>2, <1>5 DEF Unblock
  <2>2. Rules!Unblock(u, v)
    BY <2>1 DEF Rules!Unblock
  <2>3. Mutual' /\ AskedOnce'
    BY <2>1 DEF Mutual, AskedOnce, SerialInv, TablesInv
  <2>4. Blocked' \subseteq Blocked
    BY <2>1 DEF Blocked, IsBlockedEitherWay
  <2>5. BlockedApart'
    BY <2>1, <2>4 DEF BlockedApart, SerialInv, TablesInv
  <2> QED BY <1>1, <2>2, <2>3, <2>5 DEF Rules!Next, TablesInv
<1> QED BY <1>3, <1>4, <1>5

\* Steps that leave the tables alone.
LEMMA QuietStep ==
  ASSUME SerialInv, UNCHANGED <<friendships, requests, blocks>>
  PROVE  [Rules!Next]_Rules!vars /\ TablesInv'
<1>1. PendingPairs' = PendingPairs /\ Blocked' = Blocked
  BY DEF PendingPairs, Pending, Blocked, IsBlockedEitherWay
<1> QED BY <1>1 DEF Rules!vars, SerialInv, TablesInv, Mutual, BlockedApart, AskedOnce

--------------------------------------------------------------------------------
\* What the handler learns stays true until it writes: no other call is served.

LEMMA CheckedReads ==
  ASSUME SerialInv, NEW h \in Handlers,
         CheckBlocked(h) \/ CheckFriends(h) \/ CheckPending(h) \/ GetPendingRequest(h)
  PROVE  Checked(h)'
<1>1. TypeInv /\ Checked(h) /\ pc[h] # "done"
  BY DEF SerialInv, CheckBlocked, CheckFriends, CheckPending, GetPendingRequest, ReadStep
<1>2. UNCHANGED <<friendships, requests, blocks>>
  BY DEF CheckBlocked, CheckFriends, CheckPending, GetPendingRequest, ReadStep
<1>3. ASSUME NEW r, Reply(h, r)
      PROVE  Checked(h)'
  <2>1. pc'[h] = "done"
    BY <1>1, <1>3 DEF Reply, Goto, TypeInv, TypeOK
  <2> QED BY <2>1 DEF Checked, Reading
<1>4. ASSUME NEW step, Goto(h, step), UNCHANGED call
      PROVE  pc'[h] = step /\ call'[h] = call[h]
  BY <1>1, <1>4 DEF Goto, TypeInv, TypeOK
<1>5. CASE CheckBlocked(h)
  <2>1. CASE Goto(h, "are_friends") /\ UNCHANGED call /\ ~IsBlockedEitherWay(call[h].by, call[h].with)
    BY <1>1, <1>2, <1>4, <1>5, <2>1 DEF CheckBlocked, ReadStep, Checked, Reading, IsBlockedEitherWay
  <2> QED BY <1>3, <1>5, <2>1 DEF CheckBlocked, Verdict
<1>6. CASE CheckFriends(h)
  <2>1. CASE Goto(h, "pending_between") /\ UNCHANGED call /\ ~AreFriends(call[h].by, call[h].with)
    BY <1>1, <1>2, <1>4, <1>6, <2>1
       DEF CheckFriends, ReadStep, Checked, Reading, IsBlockedEitherWay, AreFriends
  <2> QED BY <1>3, <1>6, <2>1 DEF CheckFriends, Verdict
<1>7. CASE CheckPending(h)
  <2>1. CASE Goto(h, "create") /\ UNCHANGED call /\ PendingBetween(call[h].by, call[h].with) = {}
    BY <1>1, <1>2, <1>4, <1>7, <2>1
       DEF CheckPending, ReadStep, Checked, Reading, IsBlockedEitherWay, AreFriends, PendingBetween, Pending
  <2> QED BY <1>3, <1>7, <2>1 DEF CheckPending, Verdict
<1>8. CASE GetPendingRequest(h)
  <2> DEFINE row == requests[call[h].rid]
  <2>1. CASE IsPending(row) /\ IsAddressee(call[h].by, row)
    <3>1. call[h].op \in {"accept", "decline"} /\ call[h].rid \in Rids
      BY <1>1, <1>8 DEF GetPendingRequest, TypeInv, Shape
    <3>2. pc'[h] = call[h].op /\ call'[h].rid = call[h].rid
      BY <1>1, <1>8, <2>1 DEF GetPendingRequest, Goto, TypeInv, TypeOK, CallRecord
    <3> QED BY <1>2, <2>1, <3>1, <3>2 DEF Checked, Reading, IsPending
  <2> QED BY <1>3, <1>8, <2>1 DEF GetPendingRequest
<1> QED BY <1>5, <1>6, <1>7, <1>8

LEMMA CheckedBegin ==
  ASSUME SerialInv, NEW h \in Handlers, Begin(h)
  PROVE  Checked(h)'
<1>1. TypeInv
  BY DEF SerialInv
<1>2. ASSUME NEW u \in Users, NEW v \in Users, NEW op, NEW step \in {"is_blocked"} \cup Writing,
             Start(h, op, u, v, step)
      PROVE  Checked(h)'
  <2>1. pc'[h] = step /\ call'[h].by = u /\ call'[h].with = v /\ u # v
    BY <1>1, <1>2 DEF Start, Goto, NewCall, TypeInv, TypeOK
  <2> QED BY <1>2, <2>1 DEF Checked, Reading, Writing
<1>3. ASSUME NEW u \in Users, NEW r \in Rids, NEW op \in {"accept", "decline"},
             SendFriendResponse(h, u, r, op)
      PROVE  Checked(h)'
  <2>1. pc'[h] = "get_pending"
    BY <1>1, <1>3 DEF SendFriendResponse, Goto, TypeInv, TypeOK
  <2> QED BY <2>1 DEF Checked, Reading
<1> QED BY <1>2, <1>3 DEF Begin, GetUserInfo, SendFriendRequest, RemoveFriend, BlockUser, UnblockUser, Writing

\* After a write, an error or a step of a refresh the handler relies on nothing.
LEMMA CheckedRest ==
  ASSUME SerialInv, NEW h \in Handlers,
         \/ CreateFriendRequest(h) \/ DeclineFriendRequest(h) \/ AcceptFriendRequest(h)
         \/ RemoveFriendship(h) \/ Block(h) \/ Unblock(h)
         \/ ReadFriendIDs(h) \/ Del(h) \/ Sadd(h) \/ Return(h) \/ Fail(h)
  PROVE  Checked(h)'
<1>1. TypeInv
  BY DEF SerialInv
<1>2. pc'[h] \in {"idle", "done"} \cup RefreshSteps
  BY <1>1 DEF CreateFriendRequest, DeclineFriendRequest, AcceptFriendRequest, RemoveFriendship, Block,
     Unblock, ReadFriendIDs, Del, Sadd, Return, Fail, BeginRefresh, NextUser, Reply, Goto,
     TypeInv, TypeOK, RefreshSteps
<1> QED BY <1>2 DEF Checked, Reading, RefreshSteps

LEMMA SerialNext ==
  ASSUME NEW one, Handlers = {one}
  PROVE  SerialInv /\ [Next]_vars => SerialInv' /\ [Rules!Next]_Rules!vars
<1> SUFFICES ASSUME SerialInv, [Next]_vars PROVE SerialInv' /\ [Rules!Next]_Rules!vars
  OBVIOUS
<1>1. TypeInv' /\ OnePendingPerPair'
  BY TypeNext, OnePendingNext DEF SerialInv
<1>2. CASE UNCHANGED vars
  <2>1. \A h \in Handlers : Checked(h)'
    BY <1>2 DEF vars, SerialInv, Checked, IsBlockedEitherWay, AreFriends, PendingBetween, Pending
  <2> QED BY <1>1, <1>2, <2>1, QuietStep DEF vars, SerialInv
<1>3. ASSUME NEW h \in Handlers, Begin(h) \/ Step(h) \/ Fail(h)
      PROVE  SerialInv' /\ [Rules!Next]_Rules!vars
  <2>1. [Rules!Next]_Rules!vars /\ TablesInv'
    <3>1. \/ CreateFriendRequest(h) /\ requests' # requests
          \/ AcceptFriendRequest(h) \/ DeclineFriendRequest(h)
          \/ RemoveFriendship(h) \/ Block(h) \/ Unblock(h)
          \/ UNCHANGED <<friendships, requests, blocks>>
      BY <1>3 DEF Begin, GetUserInfo, SendFriendRequest, RemoveFriend, BlockUser, UnblockUser,
         SendFriendResponse, Start, Step, Fail, CheckBlocked, CheckFriends, CheckPending,
         CreateFriendRequest, GetPendingRequest, ReadFriendIDs, Del, Sadd, Return, ReadStep
    <3> QED BY <3>1, AskStep, ResolveStep, RemovalStep, QuietStep
  <2>2. Checked(h)'
    BY <1>3, CheckedBegin, CheckedReads, CheckedRest DEF Step
  <2>3. Handlers = {h}
    BY <1>3
  <2> QED BY <1>1, <2>1, <2>2, <2>3 DEF SerialInv
<1> QED BY <1>2, <1>3 DEF Next

--------------------------------------------------------------------------------
\* The refresh of the sets that Map reads.

Listed(s) == {s[i] : i \in DOMAIN s}

\* How far a call that changes friendships is: the users it names are those of the
\* row, and a user whom the loop has left behind has the right set.
Refreshing(h) ==
  LET c == call[h]  row == requests[c.rid] IN
  /\ pc[h] \in {"accept", "decline", "remove", "block", "unblock"} => c.op = pc[h]
  /\ pc[h] = "accept" => c.with = row.from /\ c.by = row.to
  /\ pc[h] \in RefreshSteps =>
       /\ {c.by, c.with} \subseteq Users
       /\ \A w \in {c.by, c.with} \ Listed(c.todo) : cache[w] = FriendIDs(w)
  /\ pc[h] \in {"del", "sadd"} => c.ids = FriendIDs(Head(c.todo))
  /\ pc[h] = "sadd" => cache[Head(c.todo)] = {}

FreshInv == SerialInv /\ OkMeansFresh /\ \A h \in Handlers : Refreshing(h)

\* What is proved of the handler that takes a step, in primed form.
Settled(h) ==
  /\ Refreshing(h)
  /\ pc[h] = "done" /\ call[h].reply = "ok" /\ call[h].op \in {"accept", "remove", "block"}
       => \A u \in {call[h].by, call[h].with} : cache[u] = FriendIDs(u)

LEMMA ListedParts ==
  ASSUME NEW S, NEW s \in Seq(S), s # <<>>
  PROVE  Listed(s) = {Head(s)} \cup Listed(Tail(s))
<1>1. Len(s) \in Nat \ {0} /\ DOMAIN s = 1..Len(s)
  OBVIOUS
<1>2. DOMAIN Tail(s) = 1..(Len(s) - 1) /\ \A i \in 1..(Len(s) - 1) : Tail(s)[i] = s[i + 1]
  BY <1>1
<1>3. ASSUME NEW i \in 1..Len(s) PROVE s[i] \in {Head(s)} \cup Listed(Tail(s))
  <2>1. CASE i = 1
    BY <1>1, <2>1
  <2>2. CASE i # 1
    <3>1. i - 1 \in 1..(Len(s) - 1) /\ s[i] = Tail(s)[i - 1]
      BY <1>1, <1>2, <2>2
    <3> QED BY <1>2, <3>1 DEF Listed
  <2> QED BY <2>1, <2>2
<1>4. Head(s) \in Listed(s)
  BY <1>1 DEF Listed
<1>5. ASSUME NEW i \in 1..(Len(s) - 1) PROVE Tail(s)[i] \in Listed(s)
  <2>1. i + 1 \in 1..Len(s)
    BY <1>1
  <2> QED BY <1>1, <1>2, <2>1 DEF Listed
<1>6. Listed(s) \subseteq {Head(s)} \cup Listed(Tail(s))
  BY <1>1, <1>3 DEF Listed
<1>7. Listed(Tail(s)) \subseteq Listed(s)
  BY <1>2, <1>5 DEF Listed
<1> QED BY <1>4, <1>6, <1>7

\* A call begins, reads, or ends without having changed friendships.
LEMMA FreshQuiet ==
  ASSUME FreshInv, NEW h \in Handlers,
         \/ Begin(h) \/ CheckBlocked(h) \/ CheckFriends(h) \/ CheckPending(h) \/ GetPendingRequest(h)
         \/ CreateFriendRequest(h) \/ DeclineFriendRequest(h) \/ Unblock(h) \/ Return(h) \/ Fail(h)
  PROVE  Settled(h)'
<1>1. TypeInv /\ Refreshing(h) /\ pc \in [Handlers -> Steps] /\ call \in [Handlers -> CallRecord]
  BY DEF FreshInv, SerialInv, TypeInv, TypeOK
<1>2. ASSUME NEW r, Reply(h, r), r = "ok" => call[h].op \notin {"accept", "remove", "block"}
      PROVE  Settled(h)'
  <2>1. pc'[h] = "done" /\ call'[h] = [call[h] EXCEPT !.reply = r]
    BY <1>1, <1>2 DEF Reply, Goto
  <2>2. call'[h].reply = r /\ call'[h].op = call[h].op
    BY <1>1, <2>1 DEF CallRecord
  <2> QED BY <1>2, <2>1, <2>2 DEF Settled, Refreshing, RefreshSteps
<1>3. ASSUME pc'[h] \in {"idle", "is_blocked", "are_friends", "pending_between", "create", "get_pending"}
      PROVE  Settled(h)'
  BY <1>3 DEF Settled, Refreshing, RefreshSteps
<1>4. CASE Begin(h)
  <2>1. ASSUME NEW u \in Users, NEW v \in Users, NEW op, NEW step, Start(h, op, u, v, step),
               step = "is_blocked" \/ (step \in Writing /\ op = step)
        PROVE  Settled(h)'
    <3>1. pc'[h] = step /\ call'[h].op = op
      BY <1>1, <2>1 DEF Start, Goto, NewCall
    <3> QED BY <1>3, <2>1, <3>1 DEF Settled, Refreshing, RefreshSteps, Writing
  <2>2. ASSUME NEW u \in Users, NEW r \in Rids, NEW op \in {"accept", "decline"},
               SendFriendResponse(h, u, r, op)
        PROVE  Settled(h)'
    BY <1>1, <1>3, <2>2 DEF SendFriendResponse, Goto
  <2> QED BY <1>4, <2>1, <2>2
          DEF Begin, GetUserInfo, SendFriendRequest, RemoveFriend, BlockUser, UnblockUser, Writing
<1>5. CASE CheckBlocked(h) \/ CheckFriends(h) \/ CheckPending(h)
  <2>1. \/ \E r \in Replies \ {"ok"} : Reply(h, r)
        \/ \E step \in {"are_friends", "pending_between", "create"} : Goto(h, step)
    BY <1>5 DEF CheckBlocked, CheckFriends, CheckPending, Verdict, Replies
  <2> QED BY <1>1, <1>2, <1>3, <2>1 DEF Goto
<1>6. CASE GetPendingRequest(h)
  <2> DEFINE c == call[h]  row == requests[c.rid]
  <2>1. CASE Reply(h, "refused")
    BY <1>2, <2>1
  <2>2. CASE ~Reply(h, "refused")
    <3>1. /\ pc' = [pc EXCEPT ![h] = c.op] /\ call' = [call EXCEPT ![h].with = row.from]
          /\ requests' = requests /\ row.to = c.by
      BY <1>6, <2>2 DEF GetPendingRequest, Goto, IsAddressee
    <3>2. pc'[h] = c.op /\ c.op \in {"accept", "decline"}
      BY <1>1, <1>6, <3>1 DEF GetPendingRequest, TypeInv, Shape
    <3>3. /\ call'[h].op = c.op /\ call'[h].rid = c.rid /\ call'[h].by = c.by
          /\ call'[h].with = row.from
      BY <1>1, <3>1 DEF CallRecord
    <3> QED BY <3>1, <3>2, <3>3 DEF Settled, Refreshing, RefreshSteps
  <2> QED BY <2>1, <2>2
<1>7. CASE CreateFriendRequest(h) \/ DeclineFriendRequest(h) \/ Unblock(h)
  <2>1. call[h].op \in {"send", "decline", "unblock"} /\ \E r : Reply(h, r)
    BY <1>1, <1>7 DEF CreateFriendRequest, DeclineFriendRequest, Unblock, TypeInv, Shape, Refreshing
  <2> QED BY <1>2, <2>1
<1>8. CASE Return(h)
  BY <1>1, <1>3, <1>8 DEF Return, Goto
<1>9. CASE Fail(h)
  BY <1>2, <1>9 DEF Fail
<1> QED BY <1>4, <1>5, <1>6, <1>7, <1>8, <1>9

\* A write leaves both users to the loop.
LEMMA FreshWrite ==
  ASSUME FreshInv, NEW h \in Handlers, AcceptFriendRequest(h) \/ RemoveFriendship(h) \/ Block(h)
  PROVE  Settled(h)'
<1>1. TypeInv /\ Refreshing(h) /\ pc \in [Handlers -> Steps] /\ call \in [Handlers -> CallRecord]
  BY DEF FreshInv, SerialInv, TypeInv, TypeOK
<1>2. \E u, v \in Users : {u, v} = {call[h].by, call[h].with} /\ BeginRefresh(h, u, v)
  <2>1. CASE AcceptFriendRequest(h)
    <3> DEFINE row == requests[call[h].rid]
    <3>1. call[h].with = row.from /\ call[h].by = row.to /\ BeginRefresh(h, row.from, row.to)
      BY <1>1, <2>1 DEF Refreshing, AcceptFriendRequest
    <3>2. row.from \in Users /\ row.to \in Users
      BY <1>1, <2>1 DEF AcceptFriendRequest, TypeInv, Shape
    <3> QED BY <3>1, <3>2
  <2>2. CASE RemoveFriendship(h) \/ Block(h)
    BY <1>1, <2>2 DEF RemoveFriendship, Block, TypeInv, Shape, Writing
  <2> QED BY <2>1, <2>2
<1>3. PICK u \in Users, v \in Users : {u, v} = {call[h].by, call[h].with} /\ BeginRefresh(h, u, v)
  BY <1>2
<1>4. pc'[h] = "read" /\ call'[h] = [call[h] EXCEPT !.todo = <<u, v>>]
  BY <1>1, <1>3 DEF BeginRefresh, Refreshed, Goto
<1>5. call'[h].by = call[h].by /\ call'[h].with = call[h].with /\ call'[h].todo = <<u, v>>
  BY <1>1, <1>4 DEF CallRecord
<1>6. Listed(<<u, v>>) = {u, v}
  <2>1. DOMAIN <<u, v>> = {1, 2}
    OBVIOUS
  <2> QED BY <2>1 DEF Listed
<1> QED BY <1>3, <1>4, <1>5, <1>6 DEF Settled, Refreshing

\* The loop: read, DEL, SADD, and the next user or the reply.
LEMMA FreshLoop ==
  ASSUME FreshInv, NEW h \in Handlers, ReadFriendIDs(h) \/ Del(h) \/ Sadd(h)
  PROVE  Settled(h)'
<1>0. TypeInv /\ Refreshing(h) /\ pc \in [Handlers -> Steps] /\ call \in [Handlers -> CallRecord]
      /\ cache \in [Users -> SUBSET Users]
  BY DEF FreshInv, SerialInv, TypeInv, TypeOK
<1> DEFINE todo == call[h].todo  who == Head(todo)
<1>1. pc[h] \in RefreshSteps
  BY DEF ReadFriendIDs, ReadStep, Del, Sadd, RefreshSteps
<1>2. todo \in Seq(Users) /\ todo # <<>> /\ call[h] \in CallRecord
  BY <1>0, <1>1 DEF TypeInv, Shape, CallRecord
<1>3. who \in Users /\ Listed(todo) = {who} \cup Listed(Tail(todo))
  BY <1>2, SeqFacts, ListedParts
<1>4. /\ {call[h].by, call[h].with} \subseteq Users
      /\ \A w \in {call[h].by, call[h].with} \ Listed(todo) : cache[w] = FriendIDs(w)
  BY <1>0, <1>1 DEF Refreshing
<1>5. \A w : FriendIDs(w)' = FriendIDs(w)
  BY DEF ReadFriendIDs, ReadStep, Del, Sadd, FriendIDs
<1> HIDE DEF todo, who
<1>6. ASSUME NextUser(h), cache' = [cache EXCEPT ![who] = FriendIDs(who)]
      PROVE  Settled(h)'
  <2> DEFINE rest == Tail(todo)
             c == [call[h] EXCEPT !.todo = rest, !.ids = {}, !.reply = IF rest = <<>> THEN "ok" ELSE @]
  <2>1. pc'[h] = (IF rest = <<>> THEN "done" ELSE "read") /\ call'[h] = c
    BY <1>0, <1>6 DEF NextUser, Goto, todo
  <2>2. c.by = call[h].by /\ c.with = call[h].with /\ c.todo = rest
    BY <1>2 DEF CallRecord
  <2> HIDE DEF c
  <2>3. \A w \in {call[h].by, call[h].with} \ Listed(rest) : cache'[w] = FriendIDs(w)
    BY <1>0, <1>3, <1>4, <1>6
  <2>4. rest = <<>> => Listed(rest) = {}
    BY DEF Listed
  <2> QED BY <1>4, <1>5, <2>1, <2>2, <2>3, <2>4 DEF Settled, Refreshing, RefreshSteps
<1>7. CASE ReadFriendIDs(h)
  <2> DEFINE c == [call[h] EXCEPT !.ids = FriendIDs(who)]
  <2>1. pc'[h] = "del" /\ call'[h] = c /\ cache' = cache
    BY <1>0, <1>7 DEF ReadFriendIDs, ReadStep, Goto, who, todo
  <2>2. c.by = call[h].by /\ c.with = call[h].with /\ c.todo = todo /\ c.ids = FriendIDs(who)
    BY <1>2 DEF CallRecord, todo
  <2> HIDE DEF c
  <2> QED BY <1>4, <1>5, <2>1, <2>2 DEF Settled, Refreshing, RefreshSteps, who
<1>8. CASE Del(h)
  <2>1. call[h].ids = FriendIDs(who) /\ cache' = [cache EXCEPT ![who] = {}]
    BY <1>0, <1>8 DEF Refreshing, Del, who, todo
  <2>2. CASE call[h].ids = {}
    BY <1>6, <1>8, <2>1, <2>2 DEF Del
  <2>3. CASE call[h].ids # {}
    <3>1. pc'[h] = "sadd" /\ call'[h] = call[h]
      BY <1>0, <1>8, <2>3 DEF Del, Goto
    <3>2. cache'[who] = {} /\ \A w \in Users \ {who} : cache'[w] = cache[w]
      BY <1>0, <1>3, <2>1
    <3> QED BY <1>3, <1>4, <1>5, <2>1, <3>1, <3>2 DEF Settled, Refreshing, RefreshSteps, who, todo
  <2> QED BY <2>2, <2>3
<1>9. CASE Sadd(h)
  <2>1. call[h].ids = FriendIDs(who) /\ cache[who] = {} /\ cache' = [cache EXCEPT ![who] = cache[who] \cup call[h].ids]
    BY <1>0, <1>9 DEF Refreshing, Sadd, who, todo
  <2> QED BY <1>6, <1>9, <2>1 DEF Sadd
<1> QED BY <1>7, <1>8, <1>9

LEMMA FreshNext ==
  ASSUME NEW one, Handlers = {one}
  PROVE  FreshInv /\ [Next]_vars => FreshInv'
<1> SUFFICES ASSUME FreshInv, [Next]_vars PROVE FreshInv'
  OBVIOUS
<1>1. SerialInv'
  BY SerialNext DEF FreshInv
<1>2. CASE UNCHANGED vars
  BY <1>1, <1>2 DEF vars, FreshInv, OkMeansFresh, Refreshing, FriendIDs
<1>3. ASSUME NEW h \in Handlers, Begin(h) \/ Step(h) \/ Fail(h)
      PROVE  FreshInv'
  <2>1. Settled(h)'
    BY <1>3, FreshQuiet, FreshWrite, FreshLoop DEF Step
  <2>2. Handlers = {h}
    BY <1>3
  <2> QED BY <1>1, <2>1, <2>2 DEF Settled, FreshInv, OkMeansFresh
<1> QED BY <1>2, <1>3 DEF Next

--------------------------------------------------------------------------------
\* One call at a time: the store calls of the handlers are a correct
\* implementation of the atomic operations of FriendRules.
THEOREM SerialRules ==
  ASSUME NEW one, Handlers = {one}
  PROVE  Spec => RulesKept
<1>1. Init => Rules!Init
  BY DEF Init, Rules!Init, PendingPairs, Pending, NoRow
<1> QED BY SerialInit, SerialNext, <1>1, PTL DEF Spec, RulesKept, Rules!Spec

\* One call at a time: a blocked pair shares no friendship and no waiting
\* request (the cascade of Block, the checks before every insert).
THEOREM SerialBlocks ==
  ASSUME NEW one, Handlers = {one}
  PROVE  Spec => []BlockedApart
<1>1. SerialInv => BlockedApart
  BY DEF SerialInv, TablesInv
<1> QED BY SerialInit, SerialNext, <1>1, PTL DEF Spec

\* One call at a time: friends have no waiting request and a pair has at most one.
THEOREM SerialAsks ==
  ASSUME NEW one, Handlers = {one}
  PROVE  Spec => []AskedOnce
<1>1. SerialInv => AskedOnce
  BY DEF SerialInv, TablesInv
<1> QED BY SerialInit, SerialNext, <1>1, PTL DEF Spec

\* One call at a time: an ok of Accept, RemoveFriend or BlockUser means that both
\* users' sets in Valkey are their friends in Postgres, whatever an earlier call
\* that failed has left there (refreshFriendCaches).
THEOREM SerialFresh ==
  ASSUME NEW one, Handlers = {one}
  PROVE  Spec => []OkMeansFresh
<1>1. Init => FreshInv
  BY SerialInit DEF Init, FreshInv, OkMeansFresh, Refreshing, RefreshSteps
<1>2. FreshInv => OkMeansFresh
  BY DEF FreshInv
<1> QED BY <1>1, <1>2, FreshNext, PTL DEF Spec
================================================================================
