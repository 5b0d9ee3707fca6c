------------------------------ MODULE FriendGraph ------------------------------
(***************************************************************************)
(* The friend graph of the Profiles service: the tables friendships,       *)
(* friend_requests and blocks in Postgres, the friends:{uid} sets in       *)
(* Valkey, and the handlers of profiles_server.go that run against them.   *)
(*                                                                         *)
(* A handler makes several store calls and nothing holds them together, so *)
(* each call is one action and the handlers interleave between them.  A    *)
(* statement or a transaction of postgres.go is one action: what Block and *)
(* AcceptFriendRequest leave behind when their statements interleave under *)
(* READ COMMITTED is what one of the two serial orders leaves behind.  The *)
(* DEL and the SADD of SetFriends are a pipeline, not a MULTI, so they are *)
(* two actions.                                                            *)
(***************************************************************************)
EXTENDS Integers, Sequences, FiniteSets

CONSTANTS Users,          \* user ids, minted by Auth
          Rids,           \* friend request ids; bounds the number of requests
          Handlers,       \* calls the service may serve at the same time
          None,           \* no user, no request
          StoresMayFail   \* a store error, a cancelled context or a crash may cut a call short

ASSUME ConstantsAssumption ==
  /\ None \notin Users \cup Rids
  /\ StoresMayFail \in BOOLEAN

VARIABLES friendships,  \* rows (user_id, friend_id)
          requests,     \* rows of friend_requests, by id
          blocks,       \* rows (user_id, blocked_user_id)
          cache,        \* friends:{uid}
          pc,           \* the store call a handler makes next
          call,         \* its arguments, locals and reply
          agreed        \* history: <<u, v>> when u sent v a request or accepted one of v's

vars == <<friendships, requests, blocks, cache, pc, call, agreed>>

NoRow    == [from |-> None, to |-> None, status |-> "ABSENT"]
NewCall(op, u, v, r) == [op |-> op, by |-> u, with |-> v, rid |-> r,
                         todo |-> <<>>, ids |-> {}, reply |-> "none"]
IdleCall == NewCall("none", None, None, None)

RowStatus    == {"ABSENT", "PENDING", "ACCEPTED", "DECLINED"}
RefreshSteps == {"read", "del", "sadd"}
Steps == {"idle", "is_blocked", "are_friends", "pending_between", "create", "get_pending",
          "accept", "decline", "remove", "block", "unblock", "done"} \cup RefreshSteps
Ops     == {"view", "send", "accept", "decline", "remove", "block", "unblock"}
Replies == {"none", "ok", "refused", "error", "BLOCKED", "FRIENDS", "PENDING", "NONE"}

\* The rows the store queries return.
Both(u, v)     == {<<u, v>>, <<v, u>>}
FriendIDs(u)   == {v \in Users : <<u, v>> \in friendships}
IsBlockedEitherWay(u, v) == Both(u, v) \cap blocks # {}
AreFriends(u, v) == <<u, v>> \in friendships
Pending(u, v)  == {r \in Rids : requests[r].status = "PENDING"
                                /\ requests[r].from = u /\ requests[r].to = v}
\* Mutant of PendingBetween: only the caller's own requests.
PendingOneWay(u, v)  == Pending(u, v)
PendingBetween(u, v) == Pending(u, v) \cup Pending(v, u)

Init ==
  /\ friendships = {}
  /\ requests = [r \in Rids |-> NoRow]
  /\ blocks = {}
  /\ cache = [u \in Users |-> {}]
  /\ pc = [h \in Handlers |-> "idle"]
  /\ call = [h \in Handlers |-> IdleCall]
  /\ agreed = {}

--------------------------------------------------------------------------------
\* Control of a handler.

Goto(h, step) == pc' = [pc EXCEPT ![h] = step]

Reply(h, r) ==
  /\ Goto(h, "done")
  /\ call' = [call EXCEPT ![h].reply = r]

\* The caller is the owner of a live session.  A call on oneself is a bad request,
\* or shows one's own data; it changes nothing and is left out.
Start(h, op, u, v, step) ==
  /\ pc[h] = "idle"
  /\ u # v
  /\ Goto(h, step)
  /\ call' = [call EXCEPT ![h] = NewCall(op, u, v, None)]
  /\ UNCHANGED <<friendships, requests, blocks, cache>>

GetUserInfo(h, u, v) == Start(h, "view", u, v, "is_blocked") /\ UNCHANGED agreed

\* Bounds the model: a request that may still be created has an id to take.
IdLeft == Cardinality({r \in Rids : requests[r].status = "ABSENT"})
            > Cardinality({h \in Handlers : call[h].op = "send"})

SendFriendRequest(h, u, v) ==
  /\ IdLeft
  /\ Start(h, "send", u, v, "is_blocked")
  /\ agreed' = agreed \cup {<<u, v>>}

RemoveFriend(h, u, v) == Start(h, "remove", u, v, "remove") /\ UNCHANGED agreed
BlockUser(h, u, v)    == Start(h, "block", u, v, "block") /\ UNCHANGED agreed
UnblockUser(h, u, v)  == Start(h, "unblock", u, v, "unblock") /\ UNCHANGED agreed

\* Anyone may present any request id, with either resolution.
SendFriendResponse(h, u, r, op) ==
  /\ pc[h] = "idle"
  /\ requests[r].status # "ABSENT"
  /\ Goto(h, "get_pending")
  /\ call' = [call EXCEPT ![h] = NewCall(op, u, None, r)]
  /\ UNCHANGED <<friendships, requests, blocks, cache, agreed>>

--------------------------------------------------------------------------------
\* The three reads that SendFriendRequest and friendStatus share, in their order.

ReadStep(h, step) ==
  /\ pc[h] = step
  /\ UNCHANGED <<friendships, requests, blocks, cache, agreed>>

Verdict(h, status) == Reply(h, IF call[h].op = "view" THEN status ELSE "refused")

CheckBlocked(h) ==
  /\ ReadStep(h, "is_blocked")
  /\ IF IsBlockedEitherWay(call[h].by, call[h].with)
     THEN Verdict(h, "BLOCKED")
     ELSE Goto(h, "are_friends") /\ UNCHANGED call

CheckFriends(h) ==
  /\ ReadStep(h, "are_friends")
  /\ IF AreFriends(call[h].by, call[h].with)
     THEN Verdict(h, "FRIENDS")
     ELSE Goto(h, "pending_between") /\ UNCHANGED call

CheckPending(h) ==
  /\ ReadStep(h, "pending_between")
  /\ IF PendingBetween(call[h].by, call[h].with) # {}
     THEN Verdict(h, "PENDING")
     ELSE IF call[h].op = "view" THEN Reply(h, "NONE")
          ELSE Goto(h, "create") /\ UNCHANGED call

\* Mutant of UniquePending: no index.
NoUniqueIndex(u, v) == TRUE

\* friend_requests_pending_uidx: one PENDING row for each ordered pair.
UniquePending(u, v) == Pending(u, v) = {}

CreateFriendRequest(h) ==
  LET c == call[h] IN
  /\ pc[h] = "create"
  /\ IF UniquePending(c.by, c.with)
     THEN /\ \E r \in Rids :
               /\ requests[r].status = "ABSENT"
               /\ requests' = [requests EXCEPT ![r] =
                                 [from |-> c.by, to |-> c.with, status |-> "PENDING"]]
          /\ Reply(h, "ok")
     ELSE UNCHANGED requests /\ Reply(h, "error")
  /\ UNCHANGED <<friendships, blocks, cache, agreed>>

--------------------------------------------------------------------------------
\* Answering a request: the row is read first and resolved in a later call,
\* which names the row by its id alone.

\* Mutants: anyone answers; an answered request is answered again.
AnyoneAnswers(u, row) == TRUE
AnsweredAgain(row)    == row.status # "ABSENT"

IsAddressee(u, row) == row.to = u
IsPending(row)      == row.status = "PENDING"

GetPendingRequest(h) ==
  LET c == call[h]  row == requests[c.rid] IN
  /\ pc[h] = "get_pending"
  /\ IF IsPending(row) /\ IsAddressee(c.by, row)
     THEN /\ Goto(h, c.op)
          /\ call' = [call EXCEPT ![h].with = row.from]
          /\ agreed' = IF c.op = "accept" THEN agreed \cup {<<c.by, row.from>>} ELSE agreed
     ELSE Reply(h, "refused") /\ UNCHANGED agreed
  /\ UNCHANGED <<friendships, requests, blocks, cache>>

\* Mutant of Resolve: a status outside the CHECK of the table.
ResolveUnknown(r, status) == requests' = [requests EXCEPT ![r].status = "RESOLVED"]

Resolve(r, status) == requests' = [requests EXCEPT ![r].status = status]

DeclineFriendRequest(h) ==
  /\ pc[h] = "decline"
  /\ Resolve(call[h].rid, "DECLINED")
  /\ Reply(h, "ok")
  /\ UNCHANGED <<friendships, blocks, cache, agreed>>

--------------------------------------------------------------------------------
\* The calls that change friendships rebuild both users' sets from Postgres.

\* Mutant of Refreshed: the caller's side only.
RefreshedOne(u, v) == <<u>>

Refreshed(u, v) == <<u, v>>

BeginRefresh(h, u, v) ==
  /\ Goto(h, "read")
  /\ call' = [call EXCEPT ![h].todo = Refreshed(u, v)]

AcceptFriendRequest(h) ==
  LET row == requests[call[h].rid] IN
  /\ pc[h] = "accept"
  /\ Resolve(call[h].rid, "ACCEPTED")
  /\ friendships' = friendships \cup Both(row.from, row.to)
  /\ BeginRefresh(h, row.from, row.to)
  /\ UNCHANGED <<blocks, cache, agreed>>

RemoveFriendship(h) ==
  LET c == call[h] IN
  /\ pc[h] = "remove"
  /\ friendships' = friendships \ Both(c.by, c.with)
  /\ BeginRefresh(h, c.by, c.with)
  /\ UNCHANGED <<requests, blocks, cache, agreed>>

\* Mutant of Cancelled: a block leaves the requests waiting.
CancelledNone(u, v) == {}

\* The pending requests a block cancels.
Cancelled(u, v) == PendingBetween(u, v)

Block(h) ==
  LET c == call[h] IN
  /\ pc[h] = "block"
  /\ blocks' = blocks \cup {<<c.by, c.with>>}
  /\ friendships' = friendships \ Both(c.by, c.with)
  /\ requests' = [r \in Rids |-> IF r \in Cancelled(c.by, c.with)
                                 THEN [requests[r] EXCEPT !.status = "DECLINED"]
                                 ELSE requests[r]]
  /\ BeginRefresh(h, c.by, c.with)
  /\ UNCHANGED <<cache, agreed>>

Unblock(h) ==
  /\ pc[h] = "unblock"
  /\ blocks' = blocks \ {<<call[h].by, call[h].with>>}
  /\ Reply(h, "ok")
  /\ UNCHANGED <<friendships, requests, cache, agreed>>

\* refreshFriendCaches: FriendIDs from Postgres, then SetFriends to Valkey.
ReadFriendIDs(h) ==
  /\ ReadStep(h, "read")
  /\ Goto(h, "del")
  /\ call' = [call EXCEPT ![h].ids = FriendIDs(Head(call[h].todo))]

\* The next user of the loop, or the reply.
NextUser(h) ==
  LET rest == Tail(call[h].todo) IN
  /\ Goto(h, IF rest = <<>> THEN "done" ELSE "read")
  /\ call' = [call EXCEPT ![h].todo = rest, ![h].ids = {},
                          ![h].reply = IF rest = <<>> THEN "ok" ELSE @]

Del(h) ==
  /\ pc[h] = "del"
  /\ cache' = [cache EXCEPT ![Head(call[h].todo)] = {}]
  /\ IF call[h].ids = {} THEN NextUser(h) ELSE Goto(h, "sadd") /\ UNCHANGED call
  /\ UNCHANGED <<friendships, requests, blocks, agreed>>

Sadd(h) ==
  /\ pc[h] = "sadd"
  /\ cache' = [cache EXCEPT ![Head(call[h].todo)] = @ \cup call[h].ids]
  /\ NextUser(h)
  /\ UNCHANGED <<friendships, requests, blocks, agreed>>

--------------------------------------------------------------------------------
\* A store error, a cancelled context or a crash: the caller sees an error, and
\* what was committed stays.  From "done" it is a reply that never arrives.
Fail(h) ==
  /\ StoresMayFail
  /\ pc[h] # "idle" /\ call[h].reply # "error"
  /\ Reply(h, "error")
  /\ UNCHANGED <<friendships, requests, blocks, cache, agreed>>

Return(h) ==
  /\ pc[h] = "done"
  /\ Goto(h, "idle")
  /\ call' = [call EXCEPT ![h] = IdleCall]
  /\ UNCHANGED <<friendships, requests, blocks, cache, agreed>>

Begin(h) ==
  \/ \E u, v \in Users : \/ GetUserInfo(h, u, v) \/ SendFriendRequest(h, u, v)
                         \/ RemoveFriend(h, u, v) \/ BlockUser(h, u, v) \/ UnblockUser(h, u, v)
  \/ \E u \in Users, r \in Rids, op \in {"accept", "decline"} : SendFriendResponse(h, u, r, op)

Step(h) ==
  \/ CheckBlocked(h) \/ CheckFriends(h) \/ CheckPending(h) \/ CreateFriendRequest(h)
  \/ GetPendingRequest(h) \/ DeclineFriendRequest(h) \/ AcceptFriendRequest(h)
  \/ RemoveFriendship(h) \/ Block(h) \/ Unblock(h)
  \/ ReadFriendIDs(h) \/ Del(h) \/ Sadd(h) \/ Return(h)

Next == \E h \in Handlers : Begin(h) \/ Step(h) \/ Fail(h)

Spec == Init /\ [][Next]_vars

--------------------------------------------------------------------------------
Row == [from : Users \cup {None}, to : Users \cup {None}, status : RowStatus]
CallRecord == [op : Ops \cup {"none"}, by : Users \cup {None}, with : Users \cup {None},
               rid : Rids \cup {None}, todo : Seq(Users), ids : SUBSET Users, reply : Replies]

\* The type invariant: rows, sets and locals hold what the schema and the
\* handlers put there.
TypeOK ==
  /\ friendships \subseteq Users \X Users
  /\ requests \in [Rids -> Row]
  /\ blocks \subseteq Users \X Users
  /\ cache \in [Users -> SUBSET Users]
  /\ pc \in [Handlers -> Steps]
  /\ call \in [Handlers -> CallRecord]
  /\ agreed \subseteq Users \X Users

\* Nobody becomes a friend, enters the set Map reads, or is shown somebody's
\* contact data, unless each of the two sent the other a request or accepted
\* one: however calls interleave and wherever they stop (the addressee check of
\* SendFriendResponse, the inserts of AcceptFriendRequest, the sets SetFriends
\* writes, the has_pii decision of GetUserInfo).
Consented(u, v) == Both(u, v) \subseteq agreed
Consent ==
  /\ \A p \in friendships : Consented(p[1], p[2])
  /\ \A u \in Users : \A v \in cache[u] : Consented(u, v)
  /\ \A h \in Handlers : call[h].reply = "FRIENDS" => Consented(call[h].by, call[h].with)

\* However many requests race, a user is asked at most once at a time by the
\* same other user (the check of PendingBetween is stale when
\* CreateFriendRequest inserts; friend_requests_pending_uidx decides).
OnePendingPerPair == \A u, v \in Users : \A r, s \in Pending(u, v) : r = s

\* What a service that serves one call at a time keeps, whatever fails:
\* a blocked pair shares neither a friendship nor a waiting request, friends
\* have no waiting request, and no two requests of a pair wait (the checks of
\* SendFriendRequest and the cascade of Block).
Blocked == {p \in Users \X Users : IsBlockedEitherWay(p[1], p[2])}
PendingPairs == {p \in Users \X Users : Pending(p[1], p[2]) # {}}
BlockedApart == Blocked \cap (friendships \cup PendingPairs) = {}
AskedOnce ==
  /\ PendingPairs \cap friendships = {}
  /\ \A p \in PendingPairs : <<p[2], p[1]>> \notin PendingPairs

\* When Accept, RemoveFriend or BlockUser replies ok, the sets Map reads for the
\* two users are exactly their friends: a retry after an error heals what the
\* failed call left (refreshFriendCaches before every ok).
OkMeansFresh == \A h \in Handlers :
  pc[h] = "done" /\ call[h].reply = "ok" /\ call[h].op \in {"accept", "remove", "block"}
    => \A u \in {call[h].by, call[h].with} : cache[u] = FriendIDs(u)

\* The abstract rules, implemented while calls do not overlap.
Rules == INSTANCE FriendRules
           WITH friends <- friendships, pending <- PendingPairs, blocked <- blocks
RulesKept == Rules!Spec

--------------------------------------------------------------------------------
\* What the comments say and the code does not keep.

\* profiles_server.go:367: BlockUser "refreshes both caches so Map immediately
\* stops leaking presence".  (Said only of pairs that are not friends again.)
BlockHides == \A h \in Handlers :
  pc[h] = "done" /\ call[h].op = "block" /\ call[h].reply = "ok"
    => \A u \in {call[h].by, call[h].with} :
         {call[h].by, call[h].with} \cap (cache[u] \ FriendIDs(u)) = {}
================================================================================
