--------------------------- MODULE FriendGraphProofs ---------------------------
(***************************************************************************)
(* What holds of the friend graph for any users, any number of requests    *)
(* and any number of overlapping calls, whatever fails.                    *)
(***************************************************************************)
EXTENDS FriendGraph, TLAPS

\* What the locals of a handler hold at the step it is about to take.
Reading == {"is_blocked", "are_friends", "pending_between", "create"}
Writing == {"remove", "block", "unblock"}

Shape ==
  /\ \A r \in Rids : requests[r].status # "ABSENT"
       => requests[r].from \in Users /\ requests[r].to \in Users
  /\ \A h \in Handlers :
       /\ pc[h] # "done" => call[h].reply = "none"
       /\ pc[h] \in Reading \cup Writing => call[h].by \in Users /\ call[h].with \in Users
       /\ pc[h] \in {"is_blocked", "are_friends", "pending_between"} => call[h].op \in {"view", "send"}
       /\ pc[h] = "create" => call[h].op = "send"
       /\ pc[h] = "get_pending" => call[h].by \in Users /\ call[h].rid \in Rids
                                   /\ call[h].op \in {"accept", "decline"}
       /\ pc[h] \in {"accept", "decline"} => /\ call[h].by \in Users /\ call[h].rid \in Rids
                                             /\ requests[call[h].rid].status # "ABSENT"
       /\ pc[h] \in RefreshSteps => call[h].todo # <<>>

TypeInv == TypeOK /\ Shape

LEMMA SeqFacts ==
  ASSUME NEW S, NEW s \in Seq(S), s # <<>>
  PROVE  Head(s) \in S /\ Tail(s) \in Seq(S)
  OBVIOUS

\* A reply touches the handler that replies and nothing else.
LEMMA ReplyTyped ==
  ASSUME pc \in [Handlers -> Steps], call \in [Handlers -> CallRecord],
         NEW h \in Handlers, NEW r \in Replies, Reply(h, r)
  PROVE  /\ pc' \in [Handlers -> Steps]
         /\ call' \in [Handlers -> CallRecord]
<1>1. pc' = [pc EXCEPT ![h] = "done"] /\ "done" \in Steps
  BY DEF Reply, Goto, Steps
<1>2. [call[h] EXCEPT !.reply = r] \in CallRecord
  <2> HIDE DEF Replies, Ops
  <2> QED BY DEF CallRecord
<1>3. call' = [call EXCEPT ![h] = [call[h] EXCEPT !.reply = r]]
  BY DEF Reply
<1> QED BY <1>1, <1>2, <1>3

LEMMA ReplyShaped ==
  ASSUME TypeInv, NEW h \in Handlers, NEW reply \in Replies, Reply(h, reply),
         \A r \in Rids : /\ requests'[r].status # "ABSENT"
                             => requests'[r].from \in Users /\ requests'[r].to \in Users
                         /\ requests[r].status # "ABSENT" => requests'[r].status # "ABSENT"
  PROVE  Shape'
<1>1. /\ pc'[h] = "done"
      /\ \A g \in Handlers \ {h} : pc'[g] = pc[g] /\ call'[g] = call[g]
  BY DEF Reply, Goto, TypeInv, TypeOK
<1> QED BY <1>1 DEF TypeInv, Shape, Reading, Writing, RefreshSteps

LEMMA TypeInit == Init => TypeInv
  BY DEF Init, TypeInv, TypeOK, Shape, NoRow, IdleCall, NewCall, RowStatus, Steps, Ops, Replies, Row, CallRecord,
         Reading, Writing, RefreshSteps

LEMMA TypeBegin ==
  ASSUME TypeInv, NEW h \in Handlers, Begin(h)
  PROVE  TypeInv'
<1> USE DEF TypeInv, Ops
<1>1. ASSUME NEW u \in Users, NEW v \in Users, NEW op \in Ops, NEW step,
             step \in {"is_blocked"} \cup Writing, op \in {"view", "send", "remove", "block", "unblock"},
             step = "is_blocked" => op \in {"view", "send"},
             Start(h, op, u, v, step), agreed' \in {agreed, agreed \cup {<<u, v>>}}
      PROVE  TypeInv'
  <2> DEFINE c == NewCall(op, u, v, None)
  <2>1. /\ pc' = [pc EXCEPT ![h] = step] /\ call' = [call EXCEPT ![h] = c]
        /\ UNCHANGED <<friendships, requests, blocks, cache>>
    BY <1>1 DEF Start, Goto
  <2>2. c \in CallRecord
    BY <1>1 DEF NewCall, CallRecord, Replies
  <2>4. TypeOK'
    <3>1. call' \in [Handlers -> CallRecord]
      BY <2>1, <2>2 DEF TypeOK
    <3>2. pc' \in [Handlers -> Steps]
      BY <1>1, <2>1 DEF TypeOK, Steps, Writing
    <3>3. agreed' \subseteq Users \X Users
      BY <1>1 DEF TypeOK
    <3> QED BY <2>1, <3>1, <3>2, <3>3 DEF TypeOK
  <2>5. Shape'
    BY <1>1, <2>1 DEF NewCall, TypeOK, Shape, Reading, Writing, RefreshSteps
  <2> QED BY <2>4, <2>5
<1>2. ASSUME NEW u \in Users, NEW v \in Users, GetUserInfo(h, u, v)
      PROVE  TypeInv'
  BY <1>1, <1>2 DEF GetUserInfo, Writing
<1>3. ASSUME NEW u \in Users, NEW v \in Users, SendFriendRequest(h, u, v)
      PROVE  TypeInv'
  BY <1>1, <1>3 DEF SendFriendRequest, Writing
<1>4. ASSUME NEW u \in Users, NEW v \in Users,
             RemoveFriend(h, u, v) \/ BlockUser(h, u, v) \/ UnblockUser(h, u, v)
      PROVE  TypeInv'
  BY <1>1, <1>4 DEF RemoveFriend, BlockUser, UnblockUser, Writing
<1>5. ASSUME NEW u \in Users, NEW r \in Rids, NEW op \in {"accept", "decline"},
             SendFriendResponse(h, u, r, op)
      PROVE  TypeInv'
  <2> DEFINE c == NewCall(op, u, None, r)
  <2>1. /\ pc' = [pc EXCEPT ![h] = "get_pending"] /\ call' = [call EXCEPT ![h] = c]
        /\ UNCHANGED <<friendships, requests, blocks, cache, agreed>>
    BY <1>5 DEF SendFriendResponse, Goto
  <2>2. c \in CallRecord
    BY <1>5 DEF NewCall, CallRecord, Replies
  <2>3. TypeOK'
    BY <2>1, <2>2 DEF TypeOK, Steps
  <2>4. Shape'
    BY <2>1 DEF NewCall, TypeOK, Shape, Reading, Writing, RefreshSteps
  <2> QED BY <2>3, <2>4
<1> QED BY <1>2, <1>3, <1>4, <1>5 DEF Begin

LEMMA TypeReads ==
  ASSUME TypeInv, NEW h \in Handlers,
         CheckBlocked(h) \/ CheckFriends(h) \/ CheckPending(h) \/ Unblock(h)
         \/ DeclineFriendRequest(h) \/ Fail(h)
  PROVE  TypeInv'
<1> USE DEF TypeInv
<1>1. ASSUME UNCHANGED <<friendships, requests, blocks, cache, agreed>>,
             NEW r \in Replies, Reply(h, r)
      PROVE  TypeInv'
  <2>1. TypeOK'
    BY <1>1, ReplyTyped DEF TypeOK
  <2>2. Shape'
    BY <1>1, ReplyShaped DEF Shape
  <2> QED BY <2>1, <2>2
<1>2. ASSUME UNCHANGED <<friendships, requests, blocks, cache, agreed, call>>,
             pc[h] \in {"is_blocked", "are_friends", "pending_between"},
             NEW step \in {"are_friends", "pending_between", "create"}, Goto(h, step),
             step = "create" => call[h].op = "send"
      PROVE  TypeInv'
  BY <1>2 DEF Goto, TypeOK, Shape, Steps, Reading, Writing, RefreshSteps
<1>3. CASE CheckBlocked(h)
  BY <1>1, <1>2, <1>3 DEF CheckBlocked, ReadStep, Verdict, Replies
<1>4. CASE CheckFriends(h)
  BY <1>1, <1>2, <1>4 DEF CheckFriends, ReadStep, Verdict, Replies
<1>5. CASE CheckPending(h)
  BY <1>1, <1>2, <1>5 DEF CheckPending, ReadStep, Verdict, Replies, Shape
<1>6. CASE Unblock(h)
  <2>1. TypeOK'
    <3>1. Reply(h, "ok") /\ "ok" \in Replies /\ UNCHANGED <<friendships, requests, cache, agreed>>
      BY <1>6 DEF Unblock, Replies
    <3>2. blocks' \subseteq Users \X Users
      BY <1>6 DEF Unblock, TypeOK
    <3> QED BY <3>1, <3>2, ReplyTyped DEF TypeOK
  <2>2. Shape'
    BY <1>6, ReplyShaped DEF Unblock, Replies, Shape
  <2> QED BY <2>1, <2>2
<1>7. CASE DeclineFriendRequest(h)
  <2>1. requests' \in [Rids -> Row]
    BY <1>7 DEF DeclineFriendRequest, Resolve, TypeOK, Shape, Row, RowStatus
  <2>2. TypeOK'
    <3>1. Reply(h, "ok") /\ "ok" \in Replies /\ UNCHANGED <<friendships, blocks, cache, agreed>>
      BY <1>7 DEF DeclineFriendRequest, Replies
    <3> QED BY <2>1, <3>1, ReplyTyped DEF TypeOK
  <2>3. Shape'
    <3>1. Reply(h, "ok") /\ "ok" \in Replies
      BY <1>7 DEF DeclineFriendRequest, Replies
    <3>2. \A r \in Rids : /\ requests'[r].from = requests[r].from /\ requests'[r].to = requests[r].to
                          /\ requests'[r].status = "ABSENT" => requests[r].status = "ABSENT"
      BY <1>7 DEF DeclineFriendRequest, Resolve, TypeOK, Row, Shape
    <3>3. \A r \in Rids : requests'[r].status # "ABSENT" => requests[r].status # "ABSENT"
      BY <1>7 DEF DeclineFriendRequest, Resolve, TypeOK, Row, Shape
    <3> QED BY <3>1, <3>2, <3>3, ReplyShaped DEF Shape
  <2> QED BY <2>2, <2>3
<1>8. CASE Fail(h)
  BY <1>1, <1>8 DEF Fail, Replies
<1> QED BY <1>3, <1>4, <1>5, <1>6, <1>7, <1>8

LEMMA TypeRefresh ==
  ASSUME TypeInv, NEW h \in Handlers, ReadFriendIDs(h) \/ Del(h) \/ Sadd(h)
  PROVE  TypeInv'
<1> USE DEF TypeInv
<1>1. call[h].todo \in Seq(Users) /\ call[h].todo # <<>> /\ call[h] \in CallRecord
  BY DEF TypeOK, Shape, CallRecord, ReadFriendIDs, ReadStep, Del, Sadd, RefreshSteps
<1>2. Head(call[h].todo) \in Users /\ Tail(call[h].todo) \in Seq(Users)
  BY <1>1, SeqFacts
<1>open. call[h].reply = "none"
  BY DEF Shape, ReadFriendIDs, ReadStep, Del, Sadd
<1>3. ASSUME NextUser(h), cache' \in [Users -> SUBSET Users],
             UNCHANGED <<friendships, requests, blocks, agreed>>
      PROVE  TypeInv'
  <2> DEFINE rest == Tail(call[h].todo)
             c == [call[h] EXCEPT !.todo = rest, !.ids = {},
                                  !.reply = IF rest = <<>> THEN "ok" ELSE @]
  <2>1. c \in CallRecord
    BY <1>1, <1>2 DEF CallRecord, Replies
  <2>2. c.todo = rest /\ (rest # <<>> => c.reply = call[h].reply)
    BY <1>1 DEF CallRecord
  <2>3. call' = [call EXCEPT ![h] = c] /\ pc' = [pc EXCEPT ![h] = IF rest = <<>> THEN "done" ELSE "read"]
    BY <1>1, <1>3 DEF NextUser, Goto, TypeOK
  <2> HIDE DEF c
  <2>4. TypeOK'
    BY <1>2, <1>3, <2>1, <2>3 DEF TypeOK, Steps, RefreshSteps
  <2>5. Shape'
    BY <1>2, <1>open, <1>3, <2>2, <2>3 DEF TypeOK, Shape, Reading, Writing, RefreshSteps
  <2> QED BY <2>4, <2>5
<1>4. CASE ReadFriendIDs(h)
  <2> DEFINE ids == FriendIDs(Head(call[h].todo))
             c == [call[h] EXCEPT !.ids = ids]
  <2>1. ids \in SUBSET Users
    BY DEF FriendIDs
  <2> HIDE DEF ids
  <2>2. c \in CallRecord /\ c.todo = call[h].todo /\ c.reply = call[h].reply
    BY <1>1, <2>1 DEF CallRecord
  <2>3. /\ call' = [call EXCEPT ![h] = c] /\ pc' = [pc EXCEPT ![h] = "del"]
        /\ UNCHANGED <<friendships, requests, blocks, cache, agreed>>
    BY <1>4 DEF ReadFriendIDs, ReadStep, Goto, ids
  <2> HIDE DEF c
  <2>4. TypeOK'
    BY <2>2, <2>3 DEF TypeOK, Steps, RefreshSteps
  <2>5. Shape'
    BY <1>1, <1>open, <2>2, <2>3 DEF TypeOK, Shape, Reading, Writing, RefreshSteps
  <2> QED BY <2>4, <2>5
<1>5. CASE Del(h)
  <2>1. cache' \in [Users -> SUBSET Users]
    BY <1>2, <1>5 DEF Del, TypeOK
  <2>2. CASE NextUser(h)
    BY <1>3, <1>5, <2>1, <2>2 DEF Del
  <2>3. CASE Goto(h, "sadd") /\ UNCHANGED call
    BY <1>1, <1>5, <2>1, <2>3 DEF Del, Goto, TypeOK, Shape, Steps, Reading, Writing, RefreshSteps
  <2> QED BY <1>5, <2>2, <2>3 DEF Del
<1>6. CASE Sadd(h)
  <2>1. cache' \in [Users -> SUBSET Users]
    BY <1>1, <1>2, <1>6 DEF Sadd, TypeOK, CallRecord
  <2> QED BY <1>3, <1>6, <2>1 DEF Sadd
<1> QED BY <1>4, <1>5, <1>6

LEMMA TypeGraph ==
  ASSUME TypeInv, NEW h \in Handlers,
         CreateFriendRequest(h) \/ GetPendingRequest(h) \/ AcceptFriendRequest(h)
         \/ RemoveFriendship(h) \/ Block(h) \/ Return(h)
  PROVE  TypeInv'
<1> USE DEF TypeInv
<1>1. ASSUME NEW u \in Users, NEW v \in Users, BeginRefresh(h, u, v), pc[h] # "done",
             friendships' \subseteq Users \X Users, blocks' \subseteq Users \X Users,
             requests' \in [Rids -> Row], UNCHANGED <<cache, agreed>>,
             \A r \in Rids : /\ requests'[r].from = requests[r].from /\ requests'[r].to = requests[r].to
                             /\ requests'[r].status = "ABSENT" <=> requests[r].status = "ABSENT"
      PROVE  TypeInv'
  <2>1. <<u, v>> \in Seq(Users) /\ <<u, v>> # <<>>
    BY <1>1
  <2> DEFINE both == <<u, v>>  c == [call[h] EXCEPT !.todo = both]
  <2>2. call' = [call EXCEPT ![h] = c] /\ pc' = [pc EXCEPT ![h] = "read"]
    BY <1>1 DEF BeginRefresh, Refreshed, Goto
  <2> HIDE DEF both
  <2>3. c \in CallRecord /\ c.todo = both /\ c.reply = call[h].reply
    BY <2>1 DEF TypeOK, CallRecord, both
  <2> HIDE DEF c
  <2>4. TypeOK'
    BY <1>1, <2>2, <2>3 DEF TypeOK, Steps, RefreshSteps
  <2>5. /\ pc'[h] = "read" /\ call'[h].todo # <<>> /\ call'[h].reply = "none"
        /\ \A g \in Handlers \ {h} : pc'[g] = pc[g] /\ call'[g] = call[g]
    BY <1>1, <2>1, <2>2, <2>3 DEF TypeOK, Shape, both
  <2>6. Shape'
    BY <1>1, <2>5 DEF Shape, Reading, Writing, RefreshSteps
  <2> QED BY <2>4, <2>6
<1>2. CASE CreateFriendRequest(h)
  <2> DEFINE c == call[h]  row == [from |-> c.by, to |-> c.with, status |-> "PENDING"]
  <2>1. row \in Row /\ c.by \in Users /\ c.with \in Users
    BY <1>2 DEF CreateFriendRequest, TypeOK, Shape, Row, RowStatus, CallRecord, Reading
  <2>2. \/ requests' = requests
        \/ \E r \in Rids : requests[r].status = "ABSENT" /\ requests' = [requests EXCEPT ![r] = row]
    BY <1>2 DEF CreateFriendRequest
  <2>3. requests' \in [Rids -> Row] /\ UNCHANGED <<friendships, blocks, cache, agreed>>
    BY <1>2, <2>1, <2>2 DEF CreateFriendRequest, TypeOK
  <2>4. \A r \in Rids : /\ requests'[r].status # "ABSENT"
                            => requests'[r].from \in Users /\ requests'[r].to \in Users
                        /\ requests[r].status # "ABSENT" => requests'[r].status # "ABSENT"
    BY <2>1, <2>2 DEF TypeOK, Shape
  <2>5. PICK reply \in Replies : Reply(h, reply)
    BY <1>2 DEF CreateFriendRequest, Replies
  <2> HIDE DEF row
  <2>6. TypeOK'
    BY <2>3, <2>5, ReplyTyped DEF TypeOK
  <2>7. Shape'
    BY <2>4, <2>5, ReplyShaped
  <2> QED BY <2>6, <2>7
<1>3. CASE GetPendingRequest(h)
  <2> DEFINE c == call[h]  row == requests[c.rid]
  <2>1. c.rid \in Rids /\ c.by \in Users /\ c.op \in {"accept", "decline"} /\ row \in Row
    BY <1>3 DEF GetPendingRequest, TypeOK, Shape
  <2>2. CASE IsPending(row) /\ IsAddressee(c.by, row)
    <3>1. row.from \in Users
      BY <2>1, <2>2 DEF IsPending, Shape
    <3>2. /\ pc' = [pc EXCEPT ![h] = c.op] /\ call' = [call EXCEPT ![h].with = row.from]
          /\ agreed' \in {agreed, agreed \cup {<<c.by, row.from>>}}
          /\ UNCHANGED <<friendships, requests, blocks, cache>>
      BY <1>3, <2>2 DEF GetPendingRequest, Goto
    <3>3. agreed' \subseteq Users \X Users
      BY <2>1, <3>1, <3>2 DEF TypeOK
    <3>4. call' \in [Handlers -> CallRecord]
      <4>1. [c EXCEPT !.with = row.from] \in CallRecord
        <5>1. c \in CallRecord
          BY DEF TypeOK
        <5> HIDE DEF c, row
        <5> QED BY <3>1, <5>1 DEF CallRecord
      <4>2. call' = [call EXCEPT ![h] = [c EXCEPT !.with = row.from]]
        BY <3>2
      <4> QED BY <4>1, <4>2 DEF TypeOK
    <3>5. pc' \in [Handlers -> Steps]
      BY <2>1, <3>2 DEF TypeOK, Steps
    <3>6. TypeOK'
      BY <3>2, <3>3, <3>4, <3>5 DEF TypeOK
    <3>7. row.status # "ABSENT"
      BY <2>2 DEF IsPending
    <3>8. pc[h] = "get_pending" /\ c.reply = "none"
      BY <1>3 DEF GetPendingRequest, Shape
    <3>9. /\ call'[h].by = c.by /\ call'[h].rid = c.rid /\ call'[h].op = c.op /\ call'[h].reply = "none"
          /\ pc'[h] = c.op
          /\ \A g \in Handlers \ {h} : pc'[g] = pc[g] /\ call'[g] = call[g]
      BY <3>2, <3>8 DEF TypeOK, CallRecord
    <3>10. Shape'
      BY <2>1, <3>2, <3>7, <3>9 DEF Shape, Reading, Writing, RefreshSteps
    <3> QED BY <3>6, <3>10
  <2>3. CASE ~(IsPending(row) /\ IsAddressee(c.by, row))
    <3>1. Reply(h, "refused") /\ UNCHANGED <<friendships, requests, blocks, cache, agreed>>
      BY <1>3, <2>3 DEF GetPendingRequest
    <3>2. TypeOK'
      <4>1. "refused" \in Replies
        BY DEF Replies
      <4> QED BY <3>1, <4>1, ReplyTyped DEF TypeOK
    <3>3. Shape'
      BY <3>1, ReplyShaped DEF Shape, Replies
    <3> QED BY <3>2, <3>3
  <2> QED BY <2>2, <2>3
<1>4. CASE AcceptFriendRequest(h)
  <2> DEFINE row == requests[call[h].rid]
  <2>1. call[h].rid \in Rids /\ row.from \in Users /\ row.to \in Users
    BY <1>4 DEF AcceptFriendRequest, Shape
  <2>2. friendships' \subseteq Users \X Users
    BY <1>4, <2>1 DEF AcceptFriendRequest, Both, TypeOK
  <2>3. requests' \in [Rids -> Row]
    BY <1>4, <2>1 DEF AcceptFriendRequest, Resolve, TypeOK, Row, RowStatus
  <2>4. \A r \in Rids : /\ requests'[r].from = requests[r].from /\ requests'[r].to = requests[r].to
                        /\ requests'[r].status = "ABSENT" <=> requests[r].status = "ABSENT"
    BY <1>4, <2>1 DEF AcceptFriendRequest, Resolve, TypeOK, Shape, Row
  <2> QED BY <1>1, <1>4, <2>1, <2>2, <2>3, <2>4 DEF AcceptFriendRequest, TypeOK
<1>5. CASE RemoveFriendship(h)
  <2>1. call[h].by \in Users /\ call[h].with \in Users
    BY <1>5 DEF RemoveFriendship, Shape, Writing
  <2> QED BY <1>1, <1>5, <2>1 DEF RemoveFriendship, TypeOK
<1>6. CASE Block(h)
  <2>1. call[h].by \in Users /\ call[h].with \in Users
    BY <1>6 DEF Block, Shape, Writing
  <2>2. blocks' \subseteq Users \X Users
    BY <1>6, <2>1 DEF Block, TypeOK
  <2>3. requests' \in [Rids -> Row]
    BY <1>6 DEF Block, TypeOK, Row, RowStatus
  <2>4. \A r \in Rids : /\ requests'[r].from = requests[r].from /\ requests'[r].to = requests[r].to
                        /\ requests'[r].status = "ABSENT" <=> requests[r].status = "ABSENT"
    BY <1>6, <2>1 DEF Block, Cancelled, PendingBetween, Pending, TypeOK, Row
  <2> QED BY <1>1, <1>6, <2>1, <2>2, <2>3, <2>4 DEF Block, TypeOK
<1>7. CASE Return(h)
  <2>1. IdleCall \in CallRecord
    BY DEF IdleCall, NewCall, CallRecord, Replies
  <2>2. TypeOK'
    BY <1>7, <2>1 DEF Return, Goto, TypeOK, Steps
  <2>3. Shape'
    BY <1>7 DEF Return, Goto, IdleCall, NewCall, TypeOK, Shape, Reading, Writing, RefreshSteps
  <2> QED BY <2>2, <2>3
<1> QED BY <1>2, <1>3, <1>4, <1>5, <1>6, <1>7

LEMMA TypeNext == TypeInv /\ [Next]_vars => TypeInv'
<1> SUFFICES ASSUME TypeInv, [Next]_vars PROVE TypeInv'
  OBVIOUS
<1>1. CASE UNCHANGED vars
  BY <1>1 DEF vars, TypeInv, TypeOK, Shape
<1>2. ASSUME NEW h \in Handlers, Begin(h) \/ Step(h) \/ Fail(h)
      PROVE  TypeInv'
  BY <1>2, TypeBegin, TypeReads, TypeRefresh, TypeGraph DEF Step
<1> QED BY <1>1, <1>2 DEF Next

\* Every row and every local has its type, at any number of overlapping calls.
THEOREM TypeCorrect == Spec => []TypeOK
<1>1. TypeInv => TypeOK
  BY DEF TypeInv
<1> QED BY TypeInit, TypeNext, <1>1, PTL DEF Spec

--------------------------------------------------------------------------------
(***************************************************************************)
(* Consent.  A friendship is written from a row that was read earlier, and *)
(* a cached set from friendships read earlier, so the invariant follows    *)
(* the agreement through the rows and the locals of the calls in between.  *)
(* Nothing removes from agreed, which is why no interleaving matters.      *)
(***************************************************************************)
RowsAgreed == \A r \in Rids :
  requests[r].status # "ABSENT" => <<requests[r].from, requests[r].to>> \in agreed

CallAgreed(h) ==
  /\ call[h].reply = "FRIENDS" => Consented(call[h].by, call[h].with)
  /\ call[h].op = "send" => <<call[h].by, call[h].with>> \in agreed
  /\ pc[h] = "accept"
       => <<requests[call[h].rid].to, requests[call[h].rid].from>> \in agreed
  /\ pc[h] \in {"del", "sadd"} => \A v \in call[h].ids : Consented(Head(call[h].todo), v)

GraphAgreed ==
  /\ \A p \in friendships : Consented(p[1], p[2])
  /\ \A u \in Users : \A v \in cache[u] : Consented(u, v)

ConsentInv == /\ TypeInv /\ GraphAgreed /\ RowsAgreed
              /\ \A h \in Handlers : CallAgreed(h)

LEMMA ConsentInit == Init => ConsentInv
<1> SUFFICES ASSUME Init PROVE ConsentInv
  OBVIOUS
<1> QED BY TypeInit DEF Init, ConsentInv, GraphAgreed, RowsAgreed, CallAgreed, NoRow, IdleCall, NewCall

\* What a step of handler h has to show.
LEMMA ConsentStep ==
  ASSUME ConsentInv, TypeInv', NEW h \in Handlers,
         agreed \subseteq agreed',
         \A g \in Handlers \ {h} : pc'[g] = pc[g] /\ call'[g] = call[g],
         \A r \in Rids : requests[r].status # "ABSENT"
           => requests'[r].from = requests[r].from /\ requests'[r].to = requests[r].to,
         \A r \in Rids : requests[r].status = "ABSENT" /\ requests'[r].status # "ABSENT"
           => <<requests'[r].from, requests'[r].to>> \in agreed',
         \A p \in friendships' \ friendships : Both(p[1], p[2]) \subseteq agreed,
         \A u \in Users : \A v \in cache'[u] \ cache[u] : Both(u, v) \subseteq agreed,
         CallAgreed(h)'
  PROVE  ConsentInv'
<1> USE DEF Consented
<1>1. GraphAgreed'
  <2>1. \A p \in friendships' : Both(p[1], p[2]) \subseteq agreed'
    BY DEF ConsentInv, GraphAgreed
  <2>2. \A u \in Users : \A v \in cache'[u] : Both(u, v) \subseteq agreed'
    BY DEF ConsentInv, GraphAgreed
  <2> QED BY <2>1, <2>2 DEF GraphAgreed
<1>2. RowsAgreed'
  BY DEF ConsentInv, RowsAgreed
<1>3. ASSUME NEW g \in Handlers \ {h}
      PROVE  CallAgreed(g)'
  <2>1. pc'[g] = pc[g] /\ call'[g] = call[g] /\ CallAgreed(g)
    BY DEF ConsentInv
  <2>2. pc[g] = "accept" => call[g].rid \in Rids /\ requests[call[g].rid].status # "ABSENT"
    BY DEF ConsentInv, TypeInv, Shape
  <2>3. pc[g] = "accept" => /\ requests'[call[g].rid].from = requests[call[g].rid].from
                            /\ requests'[call[g].rid].to = requests[call[g].rid].to
    BY <2>2
  <2> QED BY <2>1, <2>3 DEF CallAgreed
<1> QED BY <1>1, <1>2, <1>3 DEF ConsentInv

\* Steps that leave the rows and the sets as they are.
LEMMA ConsentQuiet ==
  ASSUME ConsentInv, TypeInv', NEW h \in Handlers,
         UNCHANGED <<friendships, requests, cache>>, agreed \subseteq agreed',
         \A g \in Handlers \ {h} : pc'[g] = pc[g] /\ call'[g] = call[g],
         CallAgreed(h)'
  PROVE  ConsentInv'
  BY ConsentStep

LEMMA ConsentBegin ==
  ASSUME ConsentInv, NEW h \in Handlers, Begin(h)
  PROVE  ConsentInv'
<1>1. TypeInv /\ TypeInv'
  BY TypeBegin DEF ConsentInv
<1>2. /\ UNCHANGED <<friendships, requests, cache>> /\ agreed \subseteq agreed'
      /\ pc'[h] \notin {"accept", "del", "sadd"} /\ call'[h].reply = "none"
      /\ \A g \in Handlers \ {h} : pc'[g] = pc[g] /\ call'[g] = call[g]
  BY <1>1 DEF Begin, GetUserInfo, SendFriendRequest, RemoveFriend, BlockUser, UnblockUser,
              SendFriendResponse, Start, Goto, NewCall, TypeInv, TypeOK
<1>3. call'[h].op = "send" => <<call'[h].by, call'[h].with>> \in agreed'
  <2>1. ASSUME NEW u \in Users, NEW v \in Users, NEW op, NEW step, Start(h, op, u, v, step)
        PROVE  call'[h].op = op /\ call'[h].by = u /\ call'[h].with = v
    BY <1>1, <2>1 DEF Start, NewCall, TypeInv, TypeOK
  <2>2. ASSUME NEW u \in Users, NEW r \in Rids, NEW op \in {"accept", "decline"},
               SendFriendResponse(h, u, r, op)
        PROVE  call'[h].op # "send"
    BY <1>1, <2>2 DEF SendFriendResponse, NewCall, TypeInv, TypeOK
  <2> QED BY <2>1, <2>2 DEF Begin, GetUserInfo, SendFriendRequest, RemoveFriend, BlockUser, UnblockUser
<1>4. CallAgreed(h)'
  BY <1>2, <1>3 DEF CallAgreed
<1> QED BY <1>1, <1>2, <1>4, ConsentQuiet

LEMMA ConsentReads ==
  ASSUME ConsentInv, NEW h \in Handlers,
         CheckBlocked(h) \/ CheckFriends(h) \/ CheckPending(h) \/ Fail(h) \/ Unblock(h) \/ Return(h)
  PROVE  ConsentInv'
<1>1. TypeInv /\ TypeInv' /\ CallAgreed(h)
  BY TypeReads, TypeGraph DEF ConsentInv
<1>2. /\ UNCHANGED <<friendships, requests, cache, agreed>>
      /\ \A g \in Handlers \ {h} : pc'[g] = pc[g] /\ call'[g] = call[g]
  BY <1>1 DEF CheckBlocked, CheckFriends, CheckPending, Fail, Unblock, Return, ReadStep, Verdict,
              Reply, Goto, TypeInv, TypeOK
<1>3. ASSUME NEW r, Reply(h, r), r = "FRIENDS" => Consented(call[h].by, call[h].with)
      PROVE  CallAgreed(h)'
  <2>1. /\ call'[h].reply = r /\ call'[h].op = call[h].op /\ pc'[h] = "done"
        /\ call'[h].by = call[h].by /\ call'[h].with = call[h].with
    BY <1>1, <1>3 DEF Reply, Goto, TypeInv, TypeOK, CallRecord
  <2> QED BY <1>1, <1>2, <1>3, <2>1 DEF CallAgreed, Consented
<1>4. ASSUME NEW step \in {"are_friends", "pending_between", "create"}, Goto(h, step), UNCHANGED call
      PROVE  CallAgreed(h)'
  BY <1>1, <1>2, <1>4 DEF CallAgreed, Consented, Goto, TypeInv, TypeOK
<1>5. CASE CheckBlocked(h)
  <2>1. \/ \E r \in {"BLOCKED", "refused"} : Reply(h, r)
        \/ Goto(h, "are_friends") /\ UNCHANGED call
    BY <1>5 DEF CheckBlocked, Verdict
  <2> QED BY <1>1, <1>2, <1>3, <1>4, <2>1, ConsentQuiet
<1>6. CASE CheckFriends(h)
  <2>1. AreFriends(call[h].by, call[h].with) => Consented(call[h].by, call[h].with)
    BY DEF AreFriends, ConsentInv, GraphAgreed
  <2>2. \/ AreFriends(call[h].by, call[h].with) /\ \E r \in {"FRIENDS", "refused"} : Reply(h, r)
        \/ Goto(h, "pending_between") /\ UNCHANGED call
    BY <1>6 DEF CheckFriends, Verdict
  <2> QED BY <1>1, <1>2, <1>3, <1>4, <2>1, <2>2, ConsentQuiet
<1>7. CASE CheckPending(h)
  <2>1. \/ \E r \in {"PENDING", "NONE", "refused"} : Reply(h, r)
        \/ Goto(h, "create") /\ UNCHANGED call
    BY <1>7 DEF CheckPending, Verdict
  <2> QED BY <1>1, <1>2, <1>3, <1>4, <2>1, ConsentQuiet
<1>8. CASE Fail(h) \/ Unblock(h)
  <2>1. Reply(h, "error") \/ Reply(h, "ok")
    BY <1>8 DEF Fail, Unblock
  <2> QED BY <1>1, <1>2, <1>3, <2>1, ConsentQuiet
<1>9. CASE Return(h)
  <2>1. pc'[h] = "idle" /\ call'[h] = IdleCall
    BY <1>1, <1>9 DEF Return, Goto, TypeInv, TypeOK
  <2>2. CallAgreed(h)'
    BY <2>1 DEF CallAgreed, IdleCall, NewCall
  <2> QED BY <1>1, <1>2, <2>2, ConsentQuiet
<1> QED BY <1>5, <1>6, <1>7, <1>8, <1>9

LEMMA ConsentRefresh ==
  ASSUME ConsentInv, NEW h \in Handlers, ReadFriendIDs(h) \/ Del(h) \/ Sadd(h)
  PROVE  ConsentInv'
<1>1. TypeInv /\ TypeInv' /\ CallAgreed(h)
  BY TypeRefresh DEF ConsentInv
<1>2. /\ UNCHANGED <<friendships, requests, agreed>>
      /\ \A g \in Handlers \ {h} : pc'[g] = pc[g] /\ call'[g] = call[g]
      /\ call[h] \in CallRecord /\ call[h].reply = "none"
  <2>1. UNCHANGED <<friendships, requests, agreed>>
    BY DEF ReadFriendIDs, Del, Sadd, ReadStep
  <2>2. \A g \in Handlers \ {h} : pc'[g] = pc[g] /\ call'[g] = call[g]
    BY <1>1 DEF ReadFriendIDs, Del, Sadd, ReadStep, NextUser, Goto, TypeInv, TypeOK
  <2>3. call[h] \in CallRecord /\ call[h].reply = "none"
    BY <1>1 DEF ReadFriendIDs, Del, Sadd, ReadStep, TypeInv, TypeOK, Shape
  <2> QED BY <2>1, <2>2, <2>3
<1>3. call[h].todo \in Seq(Users) /\ call[h].todo # <<>>
  BY <1>1, <1>2 DEF TypeInv, Shape, CallRecord, ReadFriendIDs, ReadStep, Del, Sadd, RefreshSteps
<1>4. Head(call[h].todo) \in Users
  BY <1>3, SeqFacts
<1>5. ASSUME NextUser(h)
      PROVE  CallAgreed(h)'
  <2>1. /\ pc'[h] \in {"read", "done"} /\ call'[h].op = call[h].op
        /\ call'[h].by = call[h].by /\ call'[h].with = call[h].with
        /\ call'[h].reply \in {"none", "ok"}
    BY <1>1, <1>2, <1>5 DEF NextUser, Goto, TypeInv, TypeOK, CallRecord
  <2> QED BY <1>1, <1>2, <2>1 DEF CallAgreed
<1>6. CASE ReadFriendIDs(h)
  <2>1. /\ call'[h].op = call[h].op /\ call'[h].by = call[h].by /\ call'[h].with = call[h].with
        /\ call'[h].todo = call[h].todo /\ call'[h].reply = "none" /\ pc'[h] = "del"
        /\ call'[h].ids = FriendIDs(Head(call[h].todo))
    BY <1>1, <1>2, <1>6 DEF ReadFriendIDs, Goto, TypeInv, TypeOK, CallRecord
  <2>2. \A v \in FriendIDs(Head(call[h].todo)) : Both(Head(call[h].todo), v) \subseteq agreed
    <3> SUFFICES ASSUME NEW v \in FriendIDs(Head(call[h].todo))
                 PROVE  Both(Head(call[h].todo), v) \subseteq agreed
      OBVIOUS
    <3>1. <<Head(call[h].todo), v>> \in friendships
      BY DEF FriendIDs
    <3> QED BY <3>1 DEF ConsentInv, GraphAgreed, Consented
  <2>3. CallAgreed(h)'
    BY <1>1, <1>2, <2>1, <2>2 DEF CallAgreed, Consented
  <2>4. cache' = cache
    BY <1>6 DEF ReadFriendIDs, ReadStep
  <2> QED BY <1>1, <1>2, <2>3, <2>4, ConsentQuiet
<1>7. CASE Del(h)
  <2>1. \A u \in Users : cache'[u] \subseteq cache[u]
    BY <1>1, <1>4, <1>7 DEF Del, TypeInv, TypeOK
  <2>2. CallAgreed(h)'
    <3>1. CASE NextUser(h)
      BY <1>5, <3>1
    <3>2. CASE Goto(h, "sadd") /\ UNCHANGED call
      <4>1. pc[h] = "del" /\ pc'[h] = "sadd"
        BY <1>1, <1>7, <3>2 DEF Del, Goto, TypeInv, TypeOK
      <4> QED BY <1>1, <1>2, <3>2, <4>1 DEF CallAgreed, Consented
    <3> QED BY <1>7, <3>1, <3>2 DEF Del
  <2> QED BY <1>1, <1>2, <2>1, <2>2, ConsentStep
<1>8. CASE Sadd(h)
  <2>1. \A u \in Users : \A v \in cache'[u] \ cache[u] : Both(u, v) \subseteq agreed
    <3>1. \A v \in call[h].ids : Both(Head(call[h].todo), v) \subseteq agreed
      BY <1>1, <1>8 DEF Sadd, CallAgreed, Consented
    <3>2. cache' = [cache EXCEPT ![Head(call[h].todo)] = @ \cup call[h].ids]
      BY <1>8 DEF Sadd
    <3> QED BY <1>1, <1>4, <3>1, <3>2 DEF TypeInv, TypeOK
  <2>2. CallAgreed(h)'
    BY <1>5, <1>8 DEF Sadd
  <2> QED BY <1>1, <1>2, <2>1, <2>2, ConsentStep
<1> QED BY <1>6, <1>7, <1>8

LEMMA ConsentRemovals ==
  ASSUME ConsentInv, NEW h \in Handlers,
         RemoveFriendship(h) \/ Block(h) \/ DeclineFriendRequest(h)
  PROVE  ConsentInv'
<1>1. TypeInv /\ TypeInv' /\ CallAgreed(h)
  BY TypeReads, TypeGraph DEF ConsentInv
<1>2. /\ UNCHANGED <<cache, agreed>> /\ friendships' \subseteq friendships
      /\ \A g \in Handlers \ {h} : pc'[g] = pc[g] /\ call'[g] = call[g]
      /\ call[h] \in CallRecord /\ call[h].reply = "none"
  BY <1>1 DEF RemoveFriendship, Block, DeclineFriendRequest, BeginRefresh, Reply, Goto, TypeInv, TypeOK, Shape
<1>3. \A r \in Rids : /\ requests'[r].from = requests[r].from /\ requests'[r].to = requests[r].to
                      /\ requests[r].status = "ABSENT" => requests'[r].status = "ABSENT"
  <2>1. CASE RemoveFriendship(h)
    BY <2>1 DEF RemoveFriendship
  <2>2. CASE Block(h)
    BY <1>1, <2>2 DEF Block, Cancelled, PendingBetween, Pending, TypeInv, TypeOK, Row
  <2>3. CASE DeclineFriendRequest(h)
    BY <1>1, <2>3 DEF DeclineFriendRequest, Resolve, TypeInv, TypeOK, Shape, Row
  <2> QED BY <2>1, <2>2, <2>3
<1>4. /\ pc'[h] \in {"read", "done"} /\ call'[h].op = call[h].op
      /\ call'[h].by = call[h].by /\ call'[h].with = call[h].with
      /\ call'[h].reply \in {"none", "ok"}
  BY <1>1, <1>2 DEF RemoveFriendship, Block, DeclineFriendRequest, BeginRefresh, Reply, Goto,
                    TypeInv, TypeOK, CallRecord
<1>5. CallAgreed(h)'
  BY <1>1, <1>2, <1>4 DEF CallAgreed
<1> QED BY <1>1, <1>2, <1>3, <1>5, ConsentStep

LEMMA ConsentRequests ==
  ASSUME ConsentInv, NEW h \in Handlers,
         CreateFriendRequest(h) \/ GetPendingRequest(h) \/ AcceptFriendRequest(h)
  PROVE  ConsentInv'
<1>1. TypeInv /\ TypeInv' /\ CallAgreed(h)
  BY TypeGraph DEF ConsentInv
<1>2. /\ cache' = cache /\ agreed \subseteq agreed'
      /\ \A g \in Handlers \ {h} : pc'[g] = pc[g] /\ call'[g] = call[g]
      /\ call[h] \in CallRecord /\ call[h].reply = "none"
  BY <1>1 DEF CreateFriendRequest, GetPendingRequest, AcceptFriendRequest, BeginRefresh, Reply, Goto,
              TypeInv, TypeOK, Shape
<1>3. ASSUME NEW r \in {"ok", "error", "refused"}, Reply(h, r)
      PROVE  CallAgreed(h)'
  <2>1. /\ call'[h].reply = r /\ call'[h].op = call[h].op /\ pc'[h] = "done"
        /\ call'[h].by = call[h].by /\ call'[h].with = call[h].with
    BY <1>1, <1>3 DEF Reply, Goto, TypeInv, TypeOK, CallRecord
  <2> QED BY <1>1, <1>2, <1>3, <2>1 DEF CallAgreed, Consented
<1>4. CASE CreateFriendRequest(h)
  <2> DEFINE row == [from |-> call[h].by, to |-> call[h].with, status |-> "PENDING"]
  <2>1. <<call[h].by, call[h].with>> \in agreed
    BY <1>1, <1>4 DEF CreateFriendRequest, TypeInv, Shape, CallAgreed
  <2>2. \/ requests' = requests
        \/ \E r \in Rids : requests[r].status = "ABSENT" /\ requests' = [requests EXCEPT ![r] = row]
    BY <1>4 DEF CreateFriendRequest
  <2>3. /\ \A r \in Rids : requests[r].status # "ABSENT"
             => requests'[r].from = requests[r].from /\ requests'[r].to = requests[r].to
        /\ \A r \in Rids : requests[r].status = "ABSENT" /\ requests'[r].status # "ABSENT"
             => <<requests'[r].from, requests'[r].to>> \in agreed'
    BY <1>1, <1>2, <2>1, <2>2 DEF TypeInv, TypeOK
  <2>4. CallAgreed(h)'
    BY <1>3, <1>4 DEF CreateFriendRequest
  <2>5. friendships' = friendships
    BY <1>4 DEF CreateFriendRequest
  <2> QED BY <1>1, <1>2, <2>3, <2>4, <2>5, ConsentStep
<1>5. CASE GetPendingRequest(h)
  <2> DEFINE row == requests[call[h].rid]
  <2>1. UNCHANGED <<friendships, requests, cache>>
    BY <1>5 DEF GetPendingRequest
  <2>2. CASE IsPending(row) /\ IsAddressee(call[h].by, row)
    <3>1. call[h].rid \in Rids /\ call[h].op \in {"accept", "decline"} /\ row.to = call[h].by
      BY <1>1, <1>5, <2>2 DEF GetPendingRequest, IsAddressee, TypeInv, Shape
    <3>2. /\ pc'[h] = call[h].op /\ call'[h].op = call[h].op /\ call'[h].rid = call[h].rid
          /\ call'[h].reply = "none"
      BY <1>1, <1>2, <1>5, <2>2 DEF GetPendingRequest, Goto, TypeInv, TypeOK, CallRecord
    <3>3. call[h].op = "accept" => <<row.to, row.from>> \in agreed'
      BY <1>5, <2>2, <3>1 DEF GetPendingRequest
    <3>4. CallAgreed(h)'
      BY <2>1, <3>1, <3>2, <3>3 DEF CallAgreed
    <3> QED BY <1>1, <1>2, <2>1, <3>4, ConsentQuiet
  <2>3. CASE ~(IsPending(row) /\ IsAddressee(call[h].by, row))
    <3>1. CallAgreed(h)'
      BY <1>3, <1>5, <2>3 DEF GetPendingRequest
    <3> QED BY <1>1, <1>2, <2>1, <3>1, ConsentQuiet
  <2> QED BY <2>2, <2>3
<1>6. CASE AcceptFriendRequest(h)
  <2> DEFINE row == requests[call[h].rid]
  <2>1. call[h].rid \in Rids /\ row.status # "ABSENT" /\ pc[h] = "accept"
    BY <1>1, <1>6 DEF AcceptFriendRequest, TypeInv, Shape
  <2>2. Both(row.from, row.to) \subseteq agreed
    BY <1>1, <2>1 DEF Both, CallAgreed, ConsentInv, RowsAgreed
  <2>3. \A p \in friendships' \ friendships : Both(p[1], p[2]) \subseteq agreed
    BY <1>6, <2>2 DEF AcceptFriendRequest, Both
  <2>4. \A r \in Rids : /\ requests'[r].from = requests[r].from /\ requests'[r].to = requests[r].to
                        /\ requests[r].status = "ABSENT" => requests'[r].status = "ABSENT"
    BY <1>1, <1>6, <2>1 DEF AcceptFriendRequest, Resolve, TypeInv, TypeOK, Row
  <2>5. /\ pc'[h] = "read" /\ call'[h].op = call[h].op /\ call'[h].reply = "none"
    BY <1>1, <1>2, <1>6 DEF AcceptFriendRequest, BeginRefresh, Goto, TypeInv, TypeOK, CallRecord
  <2>6. call'[h].by = call[h].by /\ call'[h].with = call[h].with
    BY <1>1, <1>2, <1>6 DEF AcceptFriendRequest, BeginRefresh, TypeInv, TypeOK, CallRecord
  <2>7. CallAgreed(h)'
    BY <1>1, <1>2, <2>5, <2>6 DEF CallAgreed
  <2> QED BY <1>1, <1>2, <2>3, <2>4, <2>7, ConsentStep
<1> QED BY <1>4, <1>5, <1>6

LEMMA ConsentNext == ConsentInv /\ [Next]_vars => ConsentInv'
<1> SUFFICES ASSUME ConsentInv, [Next]_vars PROVE ConsentInv'
  OBVIOUS
<1>1. CASE UNCHANGED vars
  <2>1. TypeInv'
    BY <1>1, TypeNext DEF ConsentInv
  <2> QED BY <1>1, <2>1 DEF vars, ConsentInv, GraphAgreed, RowsAgreed, CallAgreed, Consented
<1>2. ASSUME NEW h \in Handlers, Begin(h) \/ Step(h) \/ Fail(h)
      PROVE  ConsentInv'
  BY <1>2, ConsentBegin, ConsentReads, ConsentRefresh, ConsentRemovals, ConsentRequests DEF Step
<1> QED BY <1>1, <1>2 DEF Next

\* Friendships, the sets Map reads and the contact data GetUserInfo shows never
\* go to somebody who has not agreed, for any number of overlapping calls and
\* wherever they fail.
THEOREM ConsentHolds == Spec => []Consent
<1>1. ConsentInv => Consent
  BY DEF ConsentInv, GraphAgreed, CallAgreed, Consent
<1> QED BY ConsentInit, ConsentNext, <1>1, PTL DEF Spec

--------------------------------------------------------------------------------
\* The index alone keeps one waiting request for each ordered pair.
LEMMA OnePendingNext == TypeInv /\ OnePendingPerPair /\ [Next]_vars => OnePendingPerPair'
<1> SUFFICES ASSUME TypeInv, OnePendingPerPair, [Next]_vars PROVE OnePendingPerPair'
  OBVIOUS
<1>1. ASSUME \A r \in Rids : /\ requests'[r].from = requests[r].from /\ requests'[r].to = requests[r].to
                             /\ requests'[r].status = "PENDING" => requests[r].status = "PENDING"
      PROVE  OnePendingPerPair'
  BY <1>1 DEF OnePendingPerPair, Pending
<1>2. CASE UNCHANGED requests
  BY <1>1, <1>2
<1>3. ASSUME NEW h \in Handlers, CreateFriendRequest(h), requests' # requests
      PROVE  OnePendingPerPair'
  <2> DEFINE u == call[h].by  v == call[h].with
             row == [from |-> u, to |-> v, status |-> "PENDING"]
  <2>1. PICK r \in Rids : requests' = [requests EXCEPT ![r] = row]
    BY <1>3 DEF CreateFriendRequest
  <2>2. \A s \in Rids : ~(requests[s].status = "PENDING" /\ requests[s].from = u /\ requests[s].to = v)
    BY <1>3 DEF CreateFriendRequest, UniquePending, Pending
  <2>3. /\ requests'[r] = row
        /\ \A s \in Rids \ {r} : requests'[s] = requests[s]
    BY <2>1 DEF TypeInv, TypeOK
  <2> QED BY <2>2, <2>3 DEF OnePendingPerPair, Pending
<1>4. ASSUME NEW h \in Handlers, AcceptFriendRequest(h) \/ DeclineFriendRequest(h) \/ Block(h)
      PROVE  OnePendingPerPair'
  BY <1>1, <1>4 DEF AcceptFriendRequest, DeclineFriendRequest, Resolve, Block, TypeInv, TypeOK, Row
<1>5. ASSUME NEW h \in Handlers, Begin(h) \/ Step(h) \/ Fail(h)
      PROVE  OnePendingPerPair'
  BY <1>2, <1>3, <1>4, <1>5 DEF Begin, GetUserInfo, SendFriendRequest, RemoveFriend, BlockUser,
     UnblockUser, SendFriendResponse, Start, Step, Fail, CheckBlocked, CheckFriends, CheckPending,
     GetPendingRequest, RemoveFriendship, Unblock, ReadFriendIDs, Del, Sadd, Return, ReadStep
<1>6. CASE UNCHANGED vars
  BY <1>2, <1>6 DEF vars
<1> QED BY <1>5, <1>6 DEF Next

\* However many calls race past the check, a user is asked once at a time.
THEOREM OnePending == Spec => []OnePendingPerPair
<1>1. Init => OnePendingPerPair
  BY DEF Init, OnePendingPerPair, Pending, NoRow
<1> QED BY TypeInit, TypeNext, OnePendingNext, <1>1, PTL DEF Spec
================================================================================
