--------------------------- MODULE ProfileDataProofs ---------------------------
(* Proofs about the profiles, for any users and any number of overlapping      *)
(* calls.                                                                      *)
EXTENDS ProfileData, TLAPS

--------------------------------------------------------------------------------
\* The invariants that the proofs rest on.

ReadSteps  == {"login", "row", "pets", "is_blocked", "are_friends", "pending_between"}
HeldSteps  == {"delete", "insert", "commit"}
WriteSteps == {"update"} \cup HeldSteps
ListSteps  == {"friends", "incoming", "outgoing"}
StatusSteps == {"is_blocked", "are_friends", "pending_between"}

\* Which calls run which statements, and on whose rows.
Shape == \A h \in Handlers :
  /\ Running(h) => call[h].by \in Users
  /\ pc[h] \in ReadSteps => call[h].of \in Users /\ call[h].op # "list"
  /\ pc[h] = "login" => call[h].op # "edit"
  /\ pc[h] \in WriteSteps => h \in Editors /\ call[h].op = "edit"
  /\ pc[h] \in ListSteps => call[h].op = "list"
  /\ call[h].op = "edit" => call[h].of = call[h].by

\* A lock belongs to an edit of that user between its UPDATE and its COMMIT, and
\* the edit has it all that time.
Locked ==
  /\ \A u \in Users : lock[u] # None => pc[lock[u]] \in HeldSteps /\ call[lock[u]].by = u
  /\ \A h \in Handlers : pc[h] \in HeldSteps =>
       lock[call[h].by] = h /\ rows[call[h].by] # None

\* Under the lock the rows that DELETE took are still all there are at COMMIT.
Taken == \A h \in Handlers : pc[h] \in {"insert", "commit"} => call[h].pets = pets[call[h].by]

\* A call that runs has noted its caller's present friends, and one that answers
\* "friends" has noted the other.
Noted == \A h \in Handlers :
  /\ Running(h) => \A v \in Users : <<call[h].by, v>> \in friends => v \in seen[h].met
  /\ call[h].status = "FRIENDS" => call[h].of \in seen[h].met

\* Only a call that is done has answered.
Unanswered == \A h \in Handlers : call[h].reply = "ok" => pc[h] = "done"

\* A call of whose user nobody committed an edit meanwhile has of the row and the
\* pets what is stored now, and an edit its own.
Whole == \A h \in Handlers :
  LET c    == call[h]
      mine == c.op = "edit" => c.row = h
  IN c.of \notin seen[h].edited =>
       /\ pc[h] = "row" /\ c.op = "edit" => rows[c.of] = h
       /\ pc[h] = "pets" => c.row = rows[c.of] /\ c.row # None /\ mine
       /\ pc[h] \in StatusSteps \/ (c.reply = "ok" /\ c.op # "list") => c.pets = PetsOf(c.row) /\ mine

\* No request waits between friends, nor two between the same users.
Apart == \A u, v \in Users :
  /\ <<u, v>> \in friends => <<u, v>> \notin pending /\ <<v, u>> \notin pending
  /\ <<u, v>> \in pending => <<v, u>> \notin pending

\* Whom a list must have: those it had when the call began, and nothing changed.
Holds(h, list) == {v \in Users : seen[h].place[v] = list /\ v \notin seen[h].changed}

\* What did not change is now as it was when the call began.
Placed == \A h \in Handlers : pc[h] \in ListSteps =>
  \A v \in Users \ seen[h].changed : seen[h].place[v] = Place(call[h].by, v)

\* Whoever was listed as a friend still is one, or the tie was cut.
FriendsListed == \A h \in Handlers : pc[h] \in {"incoming", "outgoing"} =>
  /\ Holds(h, "friends") \subseteq call[h].friends
  /\ \A v \in call[h].friends \ seen[h].parted : Tie(call[h].by, v) = "friends"

\* Whoever was listed as asking still does or became a friend, or the tie was cut.
IncomingListed == \A h \in Handlers : pc[h] = "outgoing" =>
  /\ Holds(h, "incoming") \subseteq call[h].incoming
  /\ call[h].friends \cap call[h].incoming \subseteq seen[h].parted
  /\ \A v \in call[h].incoming \ seen[h].parted : Tie(call[h].by, v) \in {"incoming", "friends"}

--------------------------------------------------------------------------------
\* The order of statements and lists.

LEMMA Thens ==
  Then("update") = "delete" /\ Then("delete") = "insert" /\ Then("insert") = "commit"
<1>1. DOMAIN Statements = 1..4
  BY DEF Statements
<1>2. Statements[1] = "update" /\ Statements[2] = "delete" /\ Statements[3] = "insert"
      /\ Statements[4] = "commit"
  BY DEF Statements
<1>3. (CHOOSE i \in 1..4 : Statements[i] = "update") = 1
  BY <1>2
<1>4. (CHOOSE i \in 1..4 : Statements[i] = "delete") = 2
  BY <1>2
<1>5. (CHOOSE i \in 1..4 : Statements[i] = "insert") = 3
  BY <1>2
<1> QED BY <1>1, <1>2, <1>3, <1>4, <1>5 DEF Then

LEMMA NextLists ==
  /\ ListOrder[1] = "friends"
  /\ NextList("friends") = "incoming"
  /\ NextList("incoming") = "outgoing"
  /\ NextList("outgoing") = "done"
<1>1. DOMAIN ListOrder = 1..4
  BY DEF ListOrder
<1>2. ListOrder[1] = "friends" /\ ListOrder[2] = "incoming" /\ ListOrder[3] = "outgoing"
      /\ ListOrder[4] = "done"
  BY DEF ListOrder
<1>3. (CHOOSE i \in 1..4 : ListOrder[i] = "friends") = 1
  BY <1>2
<1>4. (CHOOSE i \in 1..4 : ListOrder[i] = "incoming") = 2
  BY <1>2
<1>5. (CHOOSE i \in 1..4 : ListOrder[i] = "outgoing") = 3
  BY <1>2
<1> QED BY <1>1, <1>2, <1>3, <1>4, <1>5 DEF NextList

--------------------------------------------------------------------------------
\* What one step does to the call that takes it.

\* Call h begins an operation of u on v.
Begins(h) == \E op \in {"info", "find", "edit", "list"}, u \in Users, v \in Users \cup {None},
                step \in {"row", "login", "update", "friends"} :
  /\ Start(h, op, u, v, step)
  /\ step \in ReadSteps => v \in Users /\ op \in {"info", "find"}
  /\ step \in WriteSteps => h \in Editors /\ op = "edit"
  /\ step \in ListSteps => op = "list"
  /\ op = "edit" => v = u

\* Call h goes on to step s, with record r.
Goes(h, s, r) ==
  /\ pc' = [pc EXCEPT ![h] = s]
  /\ call' = [call EXCEPT ![h] = r]
  /\ s \in Steps \ {"idle", "login"}
  /\ r \in CallRecord
  /\ r.op = call[h].op /\ r.by = call[h].by /\ r.of = call[h].of
  /\ s # "done" => Running(h) /\ r.reply = call[h].reply
  /\ s \in ReadSteps => call[h].of \in Users /\ call[h].op # "list"
  /\ s \in WriteSteps => pc[h] \in WriteSteps
  /\ s \in ListSteps => pc[h] \in ListSteps
  /\ r.status = "FRIENDS" => \/ call[h].status = "FRIENDS"
                             \/ Running(h) /\ call[h].of \in Users /\ Ask(h) \in friends

\* The steps that begin an operation, and the others of one handler.
LEMMA StepsBegin ==
  ASSUME NEW h \in Handlers,
         \/ h \in Editors /\ \E u \in Users : EditUser(h, u)
         \/ \E u, v \in Users : GetUserInfo(h, u, v) \/ FindUserByLogin(h, u, v) \/ ListFriends(h, u)
  PROVE  Begins(h)
<1>1. CASE h \in Editors /\ \E u \in Users : EditUser(h, u)
  <2>1. PICK u \in Users : EditUser(h, u)
    BY <1>1
  <2>2. Start(h, "edit", u, u, "update")
    BY <2>1 DEF EditUser, Statements
  <2> QED BY <1>1, <2>2 DEF Begins, ReadSteps, ListSteps
<1>2. CASE \E u, v \in Users : GetUserInfo(h, u, v) \/ FindUserByLogin(h, u, v) \/ ListFriends(h, u)
  <2>1. PICK u \in Users, v \in Users :
          GetUserInfo(h, u, v) \/ FindUserByLogin(h, u, v) \/ ListFriends(h, u)
    BY <1>2
  <2>2. CASE GetUserInfo(h, u, v)
    BY <2>2 DEF GetUserInfo, Begins, ReadSteps, WriteSteps, HeldSteps, ListSteps
  <2>3. CASE FindUserByLogin(h, u, v)
    BY <2>3 DEF FindUserByLogin, Begins, ReadSteps, WriteSteps, HeldSteps, ListSteps
  <2>4. CASE ListFriends(h, u)
    BY <2>4, NextLists DEF ListFriends, Begins, ReadSteps, WriteSteps, HeldSteps, ListSteps
  <2> QED BY <2>1, <2>2, <2>3, <2>4
<1> QED BY <1>1, <1>2

\* A reply, a next step, and a read: the forms the steps have.
LEMMA ReplyGoes ==
  ASSUME NEW h \in Handlers, call[h] \in CallRecord, NEW r \in CallRecord,
         NEW answer \in {"ok", "refused", "not_found", "internal"},
         r.op = call[h].op, r.by = call[h].by, r.of = call[h].of,
         r.status = "FRIENDS" => \/ call[h].status = "FRIENDS"
                                 \/ Running(h) /\ call[h].of \in Users /\ Ask(h) \in friends,
         Reply(h, r, answer)
  PROVE  \E t \in CallRecord : Goes(h, "done", t)
<1> DEFINE t == [r EXCEPT !.reply = answer]
<1>1. t \in CallRecord
  BY DEF CallRecord
<1>2. pc' = [pc EXCEPT ![h] = "done"] /\ call' = [call EXCEPT ![h] = t]
  BY DEF Reply, Goto
<1>3. t.op = r.op /\ t.by = r.by /\ t.of = r.of /\ t.status = r.status
  BY DEF CallRecord
<1> HIDE DEF t
<1>4. Goes(h, "done", t)
  BY <1>1, <1>2, <1>3 DEF Goes, Steps, ReadSteps, WriteSteps, HeldSteps, ListSteps
<1> QED BY <1>1, <1>4

LEMMA StepsGo ==
  ASSUME TypeOK, Shape, NEW h \in Handlers, Handle(h) \/ Refuse(h)
  PROVE  \E s \in Steps, r \in CallRecord : Goes(h, s, r)
<1>0. call[h] \in CallRecord /\ pc \in [Handlers -> Steps] /\ call \in [Handlers -> CallRecord]
  BY DEF TypeOK
<1>1. "done" \in Steps
  BY DEF Steps
<1>2. ASSUME NEW answer \in {"ok", "refused", "not_found", "internal"}, Reply(h, call[h], answer)
      PROVE  \E s \in Steps, r \in CallRecord : Goes(h, s, r)
  <2>1. \E r \in CallRecord : Goes(h, "done", r)
    BY <1>0, <1>2, ReplyGoes
  <2> QED BY <1>1, <2>1
<1>3. ASSUME NEW s \in Steps \ ({"idle", "login"} \cup ListSteps), Goto(h, s), UNCHANGED call, Running(h),
             s \in ReadSteps => call[h].of \in Users /\ call[h].op # "list",
             s \in WriteSteps => pc[h] \in WriteSteps
      PROVE  \E t \in Steps, r \in CallRecord : Goes(h, t, r)
  <2>1. call' = [call EXCEPT ![h] = call[h]]
    BY <1>0, <1>3
  <2>2. Goes(h, s, call[h])
    BY <1>0, <1>3, <2>1 DEF Goes, Goto
  <2> QED BY <1>0, <2>2
<1>4. CASE Refuse(h)
  BY <1>2, <1>4 DEF Refuse
<1>5. CASE StoreError(h)
  BY <1>2, <1>5 DEF StoreError
<1>6. CASE Update(h)
  <2>1. CASE Reply(h, call[h], "not_found")
    BY <1>2, <2>1
  <2>2. CASE Goto(h, Then("update")) /\ UNCHANGED call
    <3>1. Goto(h, "delete") /\ Running(h) /\ pc[h] \in WriteSteps
      BY <1>6, <2>2, Thens DEF Update, Running, WriteSteps
    <3>2. "delete" \in Steps \ ({"idle", "login"} \cup ListSteps) /\ "delete" \notin ReadSteps
      BY DEF Steps, ReadSteps, ListSteps
    <3> QED BY <1>3, <2>2, <3>1, <3>2
  <2> QED BY <1>6, <2>1, <2>2 DEF Update
<1>7. CASE Delete(h)
  <2> DEFINE r == [call[h] EXCEPT !.pets = pets[call[h].by]]
  <2>1. pc[h] = "delete" /\ call[h].by \in Users
    BY <1>7 DEF Delete, Read, Shape, Running
  <2>2. r \in CallRecord
    BY <1>0, <2>1 DEF CallRecord, TypeOK
  <2>3. r.op = call[h].op /\ r.by = call[h].by /\ r.of = call[h].of /\ r.status = call[h].status
        /\ r.reply = call[h].reply
    BY <1>0 DEF CallRecord
  <2>4. call' = [call EXCEPT ![h] = r] /\ pc' = [pc EXCEPT ![h] = "insert"]
    BY <1>7, Thens DEF Delete, Read, Goto
  <2> HIDE DEF r
  <2>5. Goes(h, "insert", r)
    BY <2>1, <2>2, <2>3, <2>4 DEF Goes, Steps, Running, ReadSteps, WriteSteps, HeldSteps, ListSteps
  <2> QED BY <2>2, <2>5 DEF Steps
<1>8. CASE Insert(h)
  <2>1. pc[h] = "insert" /\ Goto(h, "commit") /\ UNCHANGED call
    BY <1>0, <1>8, Thens DEF Insert, Read
  <2>2. "commit" \in Steps \ ({"idle", "login"} \cup ListSteps) /\ "commit" \notin ReadSteps /\ "insert" \in WriteSteps
    BY DEF Steps, ReadSteps, WriteSteps, HeldSteps, ListSteps
  <2> QED BY <1>3, <2>1, <2>2 DEF Running
<1>9. CASE Commit(h)
  <2>1. CASE Goto(h, "row") /\ call' = [call EXCEPT ![h].pets = {}]
    <3> DEFINE r == [call[h] EXCEPT !.pets = {}]
    <3>1. pc[h] = "commit" /\ call[h].of \in Users /\ call[h].op # "list"
      BY <1>9 DEF Commit, Shape, Running, WriteSteps, HeldSteps
    <3>2. r \in CallRecord
      BY <1>0 DEF CallRecord
    <3>3. r.op = call[h].op /\ r.by = call[h].by /\ r.of = call[h].of /\ r.status = call[h].status
          /\ r.reply = call[h].reply
      BY <1>0 DEF CallRecord
    <3>4. call' = [call EXCEPT ![h] = r] /\ pc' = [pc EXCEPT ![h] = "row"]
      BY <1>0, <2>1 DEF Goto
    <3> HIDE DEF r
    <3>5. Goes(h, "row", r)
      BY <3>1, <3>2, <3>3, <3>4 DEF Goes, Steps, Running, ReadSteps, WriteSteps, HeldSteps, ListSteps
    <3> QED BY <3>2, <3>5 DEF Steps
  <2>2. CASE Reply(h, call[h], "internal")
    BY <1>2, <2>2
  <2> QED BY <1>9, <2>1, <2>2 DEF Commit
<1>10. CASE ReadLogin(h)
  <2>1. CASE Reply(h, call[h], "not_found")
    BY <1>2, <2>1
  <2>2. CASE Goto(h, "row") /\ UNCHANGED call
    <3>1. Running(h) /\ call[h].of \in Users /\ call[h].op # "list"
      BY <1>10 DEF ReadLogin, Running, Shape, ReadSteps
    <3>2. "row" \in Steps \ ({"idle", "login"} \cup ListSteps) /\ "row" \notin WriteSteps
      BY DEF Steps, WriteSteps, HeldSteps, ListSteps
    <3> QED BY <1>3, <2>2, <3>1, <3>2
  <2> QED BY <1>10, <2>1, <2>2 DEF ReadLogin
<1>11. CASE ReadRow(h)
  <2>1. CASE rows[call[h].of] = None
    BY <1>2, <1>11, <2>1 DEF ReadRow
  <2>2. CASE rows[call[h].of] # None
    <3> DEFINE r == [call[h] EXCEPT !.row = rows[call[h].of]]
    <3>1. pc[h] = "row" /\ call[h].of \in Users /\ call[h].op # "list"
      BY <1>11 DEF ReadRow, Shape, ReadSteps
    <3>2. r \in CallRecord
      BY <1>0, <3>1 DEF CallRecord, TypeOK
    <3>3. r.op = call[h].op /\ r.by = call[h].by /\ r.of = call[h].of /\ r.status = call[h].status
          /\ r.reply = call[h].reply
      BY <1>0 DEF CallRecord
    <3>4. call' = [call EXCEPT ![h] = r] /\ pc' = [pc EXCEPT ![h] = "pets"]
      BY <1>0, <1>11, <2>2 DEF ReadRow, Goto
    <3> HIDE DEF r
    <3>5. Goes(h, "pets", r)
      BY <3>1, <3>2, <3>3, <3>4 DEF Goes, Steps, Running, ReadSteps, WriteSteps, HeldSteps, ListSteps
    <3> QED BY <3>2, <3>5 DEF Steps
  <2> QED BY <2>1, <2>2
<1>12. CASE ReadPets(h)
  <2> DEFINE r == [call[h] EXCEPT !.pets = pets[call[h].of]]
  <2>1. pc[h] = "pets" /\ call[h].of \in Users /\ call[h].op # "list"
    BY <1>12 DEF ReadPets, Shape, ReadSteps
  <2>2. r \in CallRecord
    BY <1>0, <2>1 DEF CallRecord, TypeOK
  <2>3. r.op = call[h].op /\ r.by = call[h].by /\ r.of = call[h].of /\ r.status = call[h].status
        /\ r.reply = call[h].reply
    BY <1>0 DEF CallRecord
  <2>4. \/ Reply(h, r, "ok")
        \/ call' = [call EXCEPT ![h] = r] /\ pc' = [pc EXCEPT ![h] = "is_blocked"]
    BY <1>12 DEF ReadPets, Goto
  <2> HIDE DEF r
  <2>5. CASE Reply(h, r, "ok")
    BY <1>0, <1>1, <2>2, <2>3, <2>5, ReplyGoes
  <2>6. CASE call' = [call EXCEPT ![h] = r] /\ pc' = [pc EXCEPT ![h] = "is_blocked"]
    <3>1. Goes(h, "is_blocked", r)
      BY <2>1, <2>2, <2>3, <2>6 DEF Goes, Steps, Running, ReadSteps, WriteSteps, HeldSteps, ListSteps
    <3> QED BY <2>2, <3>1 DEF Steps
  <2> QED BY <2>4, <2>5, <2>6
<1>13. ASSUME NEW step \in {"is_blocked", "are_friends", "pending_between"}, NEW holds \in BOOLEAN,
              NEW status \in {"BLOCKED", "FRIENDS", "PENDING_OUT", "PENDING_IN"},
              NEW next \in {"are_friends", "pending_between", "done"},
              holds /\ status = "FRIENDS" => Ask(h) \in friends,
              FriendStatus(h, step, holds, status, next)
       PROVE  \E s \in Steps, r \in CallRecord : Goes(h, s, r)
  <2>1. pc[h] = step /\ Running(h) /\ call[h].of \in Users /\ call[h].op # "list"
    BY <1>13 DEF FriendStatus, Running, Shape, ReadSteps
  <2>2. CASE holds
    <3> DEFINE r == [call[h] EXCEPT !.status = status]
    <3>1. r \in CallRecord
      BY <1>0 DEF CallRecord
    <3>2. r.op = call[h].op /\ r.by = call[h].by /\ r.of = call[h].of /\ r.status = status
      BY <1>0 DEF CallRecord
    <3>3. Reply(h, r, "ok")
      BY <1>13, <2>2 DEF FriendStatus
    <3> HIDE DEF r
    <3>4. \E t \in CallRecord : Goes(h, "done", t)
      BY <1>0, <1>13, <2>1, <2>2, <3>1, <3>2, <3>3, ReplyGoes
    <3> QED BY <1>1, <3>4
  <2>3. CASE ~holds /\ next = "done"
    BY <1>2, <1>13, <2>3 DEF FriendStatus
  <2>4. CASE ~holds /\ next # "done"
    <3>1. Goto(h, next) /\ UNCHANGED call
      BY <1>13, <2>4 DEF FriendStatus
    <3>2. next \in Steps \ ({"idle", "login"} \cup ListSteps) /\ next \notin WriteSteps
      BY <1>13 DEF Steps, WriteSteps, HeldSteps, ListSteps
    <3> QED BY <1>3, <2>1, <3>1, <3>2
  <2> QED BY <2>2, <2>3, <2>4
<1>14. CASE IsBlockedEitherWay(h)
  <2> DEFINE holds == {Ask(h), Asked(h)} \cap blocked # {}
  <2>1. FriendStatus(h, "is_blocked", holds, "BLOCKED", "are_friends") /\ holds \in BOOLEAN
    BY <1>14 DEF IsBlockedEitherWay
  <2> HIDE DEF holds
  <2> QED BY <1>13, <2>1
<1>15. CASE AreFriends(h)
  <2> DEFINE holds == Ask(h) \in friends
  <2>1. FriendStatus(h, "are_friends", holds, "FRIENDS", "pending_between") /\ holds \in BOOLEAN
        /\ (holds => Ask(h) \in friends)
    BY <1>15 DEF AreFriends
  <2> HIDE DEF holds
  <2> QED BY <1>13, <2>1
<1>16. CASE PendingBetween(h)
  <2> DEFINE holds  == {Ask(h), Asked(h)} \cap pending # {}
             status == IF Ask(h) \in pending THEN "PENDING_OUT" ELSE "PENDING_IN"
  <2>1. FriendStatus(h, "pending_between", holds, status, "done") /\ holds \in BOOLEAN
        /\ status \in {"PENDING_OUT", "PENDING_IN"}
    BY <1>16 DEF PendingBetween
  <2> HIDE DEF holds, status
  <2> QED BY <1>13, <2>1
<1>17. ASSUME NEW step \in ListSteps, NEW next \in {"incoming", "outgoing", "done"}, NEW r \in CallRecord,
              next # "done" => r.reply = call[h].reply,
              r.op = call[h].op, r.by = call[h].by, r.of = call[h].of, r.status = call[h].status,
              Read(h, step, r, next)
       PROVE  \E s \in Steps, t \in CallRecord : Goes(h, s, t)
  <2>1. pc[h] = step /\ pc' = [pc EXCEPT ![h] = next] /\ call' = [call EXCEPT ![h] = r]
    BY <1>17 DEF Read, Goto
  <2>2. Goes(h, next, r)
    BY <1>17, <2>1 DEF Goes, Steps, Running, ListSteps, ReadSteps, WriteSteps, HeldSteps
  <2> QED BY <1>17, <2>2 DEF Steps
<1>18. CASE List(h)
  <2> DEFINE u == call[h].by
             c == [call[h] EXCEPT !.reply = IF NextList(pc[h]) = "done" THEN "ok" ELSE @]
  <2>1. c \in CallRecord
    BY <1>0 DEF CallRecord
  <2>2. c.op = call[h].op /\ c.by = call[h].by /\ c.of = call[h].of /\ c.status = call[h].status
        /\ (NextList(pc[h]) # "done" => c.reply = call[h].reply)
    BY <1>0 DEF CallRecord
  <2>3. \/ Read(h, "friends", [c EXCEPT !.friends = Friends(u)], "incoming")
        \/ Read(h, "incoming", [c EXCEPT !.incoming = IncomingPending(u)], "outgoing")
        \/ Read(h, "outgoing", [c EXCEPT !.outgoing = OutgoingPending(u)], "done")
    BY <1>18, NextLists DEF List
  <2> HIDE DEF c
  <2>4. /\ [c EXCEPT !.friends = Friends(u)] \in CallRecord
        /\ [c EXCEPT !.incoming = IncomingPending(u)] \in CallRecord
        /\ [c EXCEPT !.outgoing = OutgoingPending(u)] \in CallRecord
    BY <2>1 DEF CallRecord, Friends, IncomingPending, OutgoingPending, Known
  <2>5. CASE Read(h, "friends", [c EXCEPT !.friends = Friends(u)], "incoming")
    <3> DEFINE r == [c EXCEPT !.friends = Friends(u)]
    <3>1. r.op = c.op /\ r.by = c.by /\ r.of = c.of /\ r.status = c.status /\ r.reply = c.reply
      BY <2>1 DEF CallRecord
    <3>2. r \in CallRecord /\ Read(h, "friends", r, "incoming")
      BY <2>4, <2>5
    <3>3. NextList(pc[h]) = "incoming"
      BY <3>2, NextLists DEF Read
    <3> HIDE DEF r
    <3> QED BY <1>17, <2>2, <3>1, <3>2, <3>3 DEF ListSteps
  <2>6. CASE Read(h, "incoming", [c EXCEPT !.incoming = IncomingPending(u)], "outgoing")
    <3> DEFINE r == [c EXCEPT !.incoming = IncomingPending(u)]
    <3>1. r.op = c.op /\ r.by = c.by /\ r.of = c.of /\ r.status = c.status /\ r.reply = c.reply
      BY <2>1 DEF CallRecord
    <3>2. r \in CallRecord /\ Read(h, "incoming", r, "outgoing")
      BY <2>4, <2>6
    <3>3. NextList(pc[h]) = "outgoing"
      BY <3>2, NextLists DEF Read
    <3> HIDE DEF r
    <3> QED BY <1>17, <2>2, <3>1, <3>2, <3>3 DEF ListSteps
  <2>7. CASE Read(h, "outgoing", [c EXCEPT !.outgoing = OutgoingPending(u)], "done")
    <3> DEFINE r == [c EXCEPT !.outgoing = OutgoingPending(u)]
    <3>1. r.op = c.op /\ r.by = c.by /\ r.of = c.of /\ r.status = c.status /\ r.reply = c.reply
      BY <2>1 DEF CallRecord
    <3>2. r \in CallRecord /\ Read(h, "outgoing", r, "done")
      BY <2>4, <2>7
    <3> HIDE DEF r
    <3> QED BY <1>17, <2>2, <3>1, <3>2 DEF ListSteps
  <2> QED BY <2>3, <2>5, <2>6, <2>7
<1> QED BY <1>4, <1>5, <1>6, <1>7, <1>8, <1>9, <1>10, <1>11, <1>12, <1>14, <1>15, <1>16, <1>18 DEF Handle

LEMMA BeginsMoves ==
  ASSUME NEW h \in Handlers, Begins(h)
  PROVE  \E step \in {"row", "login", "update", "friends"}, r \in CallRecord :
           /\ pc[h] = "idle" /\ pc' = [pc EXCEPT ![h] = step]
           /\ call' = [call EXCEPT ![h] = r]
           /\ UNCHANGED tables
<1>1. PICK op \in {"info", "find", "edit", "list"}, u \in Users, v \in Users \cup {None},
           step \in {"row", "login", "update", "friends"} : Start(h, op, u, v, step)
  BY DEF Begins
<1> DEFINE r == [NoCall EXCEPT !.op = op, !.by = u, !.of = v]
<1>2. r \in CallRecord
  BY DEF NoCall, CallRecord
<1>3. call' = [call EXCEPT ![h] = r]
  BY <1>1 DEF Start
<1> HIDE DEF r
<1> QED BY <1>1, <1>2, <1>3 DEF Start, Goto

\* The steps of one handler that change neither tables, graph nor history.
ReadOnly(h) ==
  \/ Refuse(h) \/ ReadLogin(h) \/ ReadRow(h) \/ ReadPets(h)
  \/ IsBlockedEitherWay(h) \/ AreFriends(h) \/ PendingBetween(h) \/ List(h)

LEMMA ReadOnlyFrame ==
  ASSUME NEW h \in Handlers, ReadOnly(h)
  PROVE  UNCHANGED <<tables, graph, seen>> /\ pc[h] \notin WriteSteps
BY DEF ReadOnly, Refuse, ReadLogin, ReadRow, ReadPets, IsBlockedEitherWay, AreFriends, PendingBetween,
       FriendStatus, List, Read, WriteSteps, HeldSteps

LEMMA NextCases ==
  ASSUME Next
  PROVE  \/ GraphChanges
         \/ \E u \in Users : CreateProfile(u)
         \/ \E h \in Handlers : Begins(h)
         \/ \E h \in Handlers : ReadOnly(h) \/ Update(h) \/ Delete(h) \/ Insert(h) \/ Commit(h) \/ StoreError(h)
<1>1. CASE \E h \in Editors, u \in Users : EditUser(h, u)
  <2>1. PICK h \in Editors : \E u \in Users : EditUser(h, u)
    BY <1>1
  <2>2. h \in Handlers
    BY DEF Handlers
  <2> QED BY <2>1, <2>2, StepsBegin
<1>2. CASE \E h \in Readers, u, v \in Users :
             GetUserInfo(h, u, v) \/ FindUserByLogin(h, u, v) \/ ListFriends(h, u)
  <2>1. PICK h \in Readers : \E u, v \in Users :
             GetUserInfo(h, u, v) \/ FindUserByLogin(h, u, v) \/ ListFriends(h, u)
    BY <1>2
  <2>2. h \in Handlers
    BY DEF Handlers
  <2> QED BY <2>1, <2>2, StepsBegin
<1>3. CASE \E h \in Handlers : Refuse(h) \/ Handle(h)
  BY <1>3 DEF Handle, ReadOnly
<1> QED BY <1>1, <1>2, <1>3 DEF Next

\* What the steps of one handler do to calls and graph.
LEMMA HandlerSteps ==
  ASSUME TypeOK, Shape, NEW h \in Handlers,
         ReadOnly(h) \/ Update(h) \/ Delete(h) \/ Insert(h) \/ Commit(h) \/ StoreError(h)
  PROVE  UNCHANGED graph /\ \E s \in Steps, r \in CallRecord : Goes(h, s, r)
<1>1. Handle(h) \/ Refuse(h)
  BY DEF Handle, ReadOnly
<1>2. UNCHANGED graph
  <2>1. CASE ReadOnly(h)
    BY <2>1, ReadOnlyFrame
  <2>2. CASE Update(h) \/ Delete(h) \/ Insert(h) \/ Commit(h) \/ StoreError(h)
    BY <2>2 DEF Update, Delete, Insert, Read, Commit, StoreError
  <2> QED BY <2>1, <2>2
<1> QED BY <1>1, <1>2, StepsGo

--------------------------------------------------------------------------------
\* The types.

LEMMA TypeInit == Init => TypeOK
<1> SUFFICES ASSUME Init PROVE TypeOK
  OBVIOUS
<1>1. NoCall \in CallRecord
  BY DEF NoCall, CallRecord
<1>2. Nothing \in History
  BY DEF Nothing, History
<1> QED BY <1>1, <1>2, ProfileDataAssumption DEF Init, Rules!Init, TypeOK, Contents, Steps

\* The rules keep the three relations between users.
LEMMA RulesTyped ==
  ASSUME TypeOK, Rules!Next
  PROVE  {friends', pending', blocked'} \subseteq SUBSET (Users \X Users)
<1>1. PICK u \in Users, v \in Users :
        \/ Rules!Ask(u, v) \/ Rules!Accept(u, v) \/ Rules!Decline(u, v)
        \/ Rules!Unfriend(u, v) \/ Rules!Block(u, v) \/ Rules!Unblock(u, v)
  BY DEF Rules!Next
<1>2. Rules!Both(u, v) \subseteq Users \X Users
  BY DEF Rules!Both
<1> QED BY <1>1, <1>2 DEF TypeOK, Rules!Ask, Rules!Accept, Rules!Decline, Rules!Unfriend,
                          Rules!Block, Rules!Unblock

\* A call begins: its record and its history are typed.
LEMMA BeginsTyped ==
  ASSUME TypeOK, NEW h \in Handlers, Begins(h)
  PROVE  /\ call' \in [Handlers -> CallRecord]
         /\ seen' \in [Handlers -> History]
         /\ pc' \in [Handlers -> Steps]
         /\ UNCHANGED <<tables, graph>>
<1>1. PICK op \in {"info", "find", "edit", "list"}, u \in Users, v \in Users \cup {None},
           step \in {"row", "login", "update", "friends"} : Start(h, op, u, v, step)
  BY DEF Begins
<1>2. [NoCall EXCEPT !.op = op, !.by = u, !.of = v] \in CallRecord
  BY DEF NoCall, CallRecord
<1>3. call' \in [Handlers -> CallRecord]
  BY <1>1, <1>2 DEF Start, TypeOK
<1>4. seen' \in [Handlers -> History]
  <2> DEFINE m == {w \in Users : <<u, w>> \in friends}
             p == [w \in Users |-> Place(u, w)]
  <2>1. m \in SUBSET Users /\ p \in [Users -> {"none", "friends", "outgoing", "incoming"}]
    BY DEF Place, Tie, TieIn
  <2>2. seen' = [seen EXCEPT ![h].met = m, ![h].place = p]
    BY <1>1 DEF Start
  <2> HIDE DEF m, p
  <2>3. seen \in [Handlers -> History] /\ seen[h] \in History
    BY DEF TypeOK
  <2>4. [seen[h] EXCEPT !.met = m, !.place = p] \in History
    BY <2>1, <2>3 DEF History
  <2>5. seen' = [seen EXCEPT ![h] = [seen[h] EXCEPT !.met = m, !.place = p]]
    BY <2>2, <2>3
  <2> QED BY <2>3, <2>4, <2>5
<1> QED BY <1>1, <1>3, <1>4 DEF Start, Goto, TypeOK, Steps

LEMMA TypeStep ==
  ASSUME TypeOK, Shape, [Next]_vars
  PROVE  TypeOK'
<1>1. CASE UNCHANGED vars
  BY <1>1 DEF vars, tables, graph, TypeOK
<1>2. SUFFICES ASSUME Next PROVE TypeOK'
  BY <1>1
<1>3. env' \subseteq Happenings
  BY <1>2 DEF Next, TypeOK
<1>4. CASE GraphChanges
  <2>1. {friends', pending', blocked'} \subseteq SUBSET (Users \X Users)
    BY <1>4, RulesTyped DEF GraphChanges
  <2> DEFINE After(h, v) == TieIn(friends', pending', call[h].by, v)
             m(h) == {v \in Users : After(h, v) = "friends"}
             p(h) == {v \in Users : Tie(call[h].by, v) # "none" /\ After(h, v) = "none"}
             c(h) == {v \in Users : After(h, v) # Tie(call[h].by, v)}
             r(h) == IF ~Running(h) THEN seen[h]
                     ELSE [seen[h] EXCEPT !.met = @ \cup m(h), !.parted = @ \cup p(h),
                                          !.changed = @ \cup c(h)]
  <2>2. \A h \in Handlers : m(h) \subseteq Users /\ p(h) \subseteq Users /\ c(h) \subseteq Users
    OBVIOUS
  <2>3. seen' = [h \in Handlers |-> r(h)]
    BY <1>4 DEF GraphChanges
  <2> HIDE DEF m, p, c
  <2>4. \A h \in Handlers : r(h) \in History
    BY <2>2 DEF TypeOK, History
  <2> HIDE DEF r
  <2>5. seen' \in [Handlers -> History]
    BY <2>3, <2>4
  <2> QED BY <1>3, <1>4, <2>1, <2>5 DEF GraphChanges, tables, TypeOK
<1>5. CASE \E u \in Users : CreateProfile(u)
  <2>1. PICK u \in Users : CreateProfile(u)
    BY <1>5
  <2> DEFINE r(h) == IF Running(h) /\ rows[u] = None
                     THEN [seen[h] EXCEPT !.changed = @ \cup {u}] ELSE seen[h]
  <2>2. seen' = [h \in Handlers |-> r(h)]
    BY <2>1 DEF CreateProfile
  <2>3. \A h \in Handlers : r(h) \in History
    BY DEF TypeOK, History
  <2> HIDE DEF r
  <2>4. seen' \in [Handlers -> History]
    BY <2>2, <2>3
  <2>5. rows' \in [Users -> Contents \cup {None}]
    BY <2>1 DEF CreateProfile, Created, TypeOK, Contents
  <2> QED BY <1>3, <2>1, <2>4, <2>5 DEF CreateProfile, graph, TypeOK
<1>6. CASE \E h \in Handlers : Begins(h)
  BY <1>3, <1>6, BeginsTyped DEF tables, graph, TypeOK
<1>7. ASSUME NEW h \in Handlers,
             ReadOnly(h) \/ Update(h) \/ Delete(h) \/ Insert(h) \/ Commit(h) \/ StoreError(h)
      PROVE  TypeOK'
  <2>1. UNCHANGED graph /\ \E s \in Steps, r \in CallRecord : Goes(h, s, r)
    BY <1>7, HandlerSteps
  <2>2. pc' \in [Handlers -> Steps] /\ call' \in [Handlers -> CallRecord]
    BY <2>1 DEF Goes, TypeOK
  <2>3. rows' \in [Users -> Contents \cup {None}] /\ pets' \in [Users -> SUBSET (Editors \X {1, 2})]
        /\ lock' \in [Users -> Editors \cup {None}]
    <3>1. CASE ReadOnly(h) \/ Delete(h) \/ Insert(h)
      BY <3>1, ReadOnlyFrame DEF Delete, Insert, Read, tables, TypeOK
    <3>2. CASE Update(h)
      BY <3>2 DEF Update, Shape, WriteSteps, TypeOK
    <3>3. CASE Commit(h)
      <4>1. h \in Editors
        BY <3>3 DEF Commit, Shape, WriteSteps, HeldSteps
      <4>2. PetsOf(h) \subseteq Editors \X {1, 2}
        BY <4>1 DEF PetsOf
      <4> QED BY <3>3, <4>1, <4>2 DEF Commit, Committed, TypeOK, Contents
    <3>4. CASE StoreError(h)
      BY <3>4 DEF StoreError, Rollback, TypeOK
    <3> QED BY <1>7, <3>1, <3>2, <3>3, <3>4
  <2>4. seen' \in [Handlers -> History]
    <3>1. CASE Commit(h)
      <4> DEFINE r(k) == IF Running(k) /\ k # h
                         THEN [seen[k] EXCEPT !.edited = @ \cup {call[h].by}] ELSE seen[k]
      <4>1. call[h].by \in Users
        BY <3>1 DEF Commit, Shape, Running
      <4>2. \A k \in Handlers : r(k) \in History
        BY <4>1 DEF TypeOK, History
      <4>3. seen' = [k \in Handlers |-> r(k)]
        BY <3>1 DEF Commit
      <4> HIDE DEF r
      <4> QED BY <4>2, <4>3
    <3>2. CASE ReadOnly(h) \/ Update(h) \/ Delete(h) \/ Insert(h) \/ StoreError(h)
      BY <3>2, ReadOnlyFrame DEF Update, Delete, Insert, Read, StoreError, TypeOK
    <3> QED BY <1>7, <3>1, <3>2
  <2> QED BY <1>3, <2>1, <2>2, <2>3, <2>4 DEF graph, TypeOK
<1> QED BY <1>2, <1>4, <1>5, <1>6, <1>7, NextCases

LEMMA ShapeStep ==
  ASSUME TypeOK, Shape, [Next]_vars
  PROVE  Shape'
<1>1. CASE UNCHANGED <<pc, call>>
  BY <1>1 DEF Shape, Running
<1>2. ASSUME NEW h \in Handlers, Begins(h) PROVE Shape'
  <2>1. PICK op \in {"info", "find", "edit", "list"}, u \in Users, v \in Users \cup {None},
             step \in {"row", "login", "update", "friends"} :
          /\ Start(h, op, u, v, step)
          /\ step \in ReadSteps => v \in Users /\ op \in {"info", "find"}
          /\ step \in WriteSteps => h \in Editors /\ op = "edit"
          /\ step \in ListSteps => op = "list"
          /\ op = "edit" => v = u
    BY <1>2 DEF Begins
  <2> DEFINE r == [NoCall EXCEPT !.op = op, !.by = u, !.of = v]
  <2>2. pc' = [pc EXCEPT ![h] = step] /\ call' = [call EXCEPT ![h] = r]
    BY <2>1 DEF Start, Goto
  <2>3. r.op = op /\ r.by = u /\ r.of = v
    BY DEF NoCall
  <2> HIDE DEF r
  <2> QED BY <2>1, <2>2, <2>3 DEF Shape, Running, TypeOK, ReadSteps, WriteSteps, HeldSteps, ListSteps
<1>3. ASSUME NEW h \in Handlers,
             ReadOnly(h) \/ Update(h) \/ Delete(h) \/ Insert(h) \/ Commit(h) \/ StoreError(h)
      PROVE  Shape'
  <2>1. PICK s \in Steps, r \in CallRecord : Goes(h, s, r)
    BY <1>3, HandlerSteps
  <2> QED BY <2>1 DEF Goes, Shape, Running, TypeOK
<1> QED BY <1>1, <1>2, <1>3, NextCases DEF vars, GraphChanges, CreateProfile

--------------------------------------------------------------------------------
\* The row lock.

LEMMA LockedStep ==
  ASSUME TypeOK, Shape, Locked, [Next]_vars
  PROVE  Locked'
<1>0. pc \in [Handlers -> Steps] /\ call \in [Handlers -> CallRecord] /\ lock \in [Users -> Editors \cup {None}]
      /\ rows \in [Users -> Contents \cup {None}] /\ Editors \subseteq Handlers /\ None \notin Handlers
  BY ProfileDataAssumption DEF TypeOK, Handlers
<1>1. CASE UNCHANGED <<tables, pc, call>>
  BY <1>1 DEF Locked, tables
<1>2. ASSUME NEW u \in Users, CreateProfile(u) PROVE Locked'
  <2>1. \A v \in Users : rows[v] # None => rows'[v] = rows[v]
    BY <1>0, <1>2 DEF CreateProfile, Created
  <2>2. \A h \in Handlers : pc[h] \in HeldSteps => call[h].by \in Users
    BY DEF Shape, Running, HeldSteps
  <2> QED BY <1>2, <2>1, <2>2 DEF Locked, CreateProfile
<1>3. ASSUME NEW h \in Handlers, Begins(h) PROVE Locked'
  <2>1. PICK step \in {"row", "login", "update", "friends"}, r \in CallRecord :
          pc[h] = "idle" /\ pc' = [pc EXCEPT ![h] = step] /\ call' = [call EXCEPT ![h] = r]
          /\ UNCHANGED tables
    BY <1>3, BeginsMoves
  <2>2. step \notin HeldSteps /\ "idle" \notin HeldSteps
    BY DEF HeldSteps
  <2> QED BY <1>0, <2>1, <2>2 DEF Locked, tables
<1>4. ASSUME NEW h \in Handlers, ReadOnly(h) \/ Delete(h) \/ Insert(h) PROVE Locked'
  <2>1. PICK s \in Steps, r \in CallRecord : Goes(h, s, r)
    BY <1>4, HandlerSteps
  <2>2. UNCHANGED tables /\ (pc[h] \in HeldSteps <=> s \in HeldSteps)
    <3>1. CASE ReadOnly(h)
      BY <2>1, <3>1, ReadOnlyFrame DEF Goes, WriteSteps
    <3>2. CASE Delete(h) \/ Insert(h)
      BY <1>0, <2>1, <3>2, Thens DEF Delete, Insert, Read, Goto, Goes, HeldSteps
    <3> QED BY <1>4, <3>1, <3>2
  <2> QED BY <1>0, <2>1, <2>2 DEF Locked, tables, Goes
<1>5. ASSUME NEW h \in Handlers, Update(h) PROVE Locked'
  <2>1. pc[h] = "update" /\ pc[h] \notin HeldSteps /\ call[h].by \in Users /\ lock[call[h].by] = None
        /\ h \in Editors /\ rows' = rows
    BY <1>5 DEF Update, HeldSteps, Shape, Running, WriteSteps
  <2>2. CASE rows[call[h].by] = None
    <3>1. PICK r : pc' = [pc EXCEPT ![h] = "done"] /\ call' = [call EXCEPT ![h] = r] /\ lock' = lock
      BY <1>5, <2>2 DEF Update, Reply, Goto
    <3> QED BY <1>0, <2>1, <3>1 DEF Locked, HeldSteps
  <2>3. CASE rows[call[h].by] # None
    <3>1. pc' = [pc EXCEPT ![h] = "delete"] /\ call' = call /\ lock' = [lock EXCEPT ![call[h].by] = h]
      BY <1>5, <2>3, Thens DEF Update, Goto
    <3>2. "delete" \in HeldSteps
      BY DEF HeldSteps
    <3>3. \A k \in Handlers : pc[k] \in HeldSteps => call[k].by # call[h].by
      BY <1>0, <2>1 DEF Locked
    <3> QED BY <1>0, <2>1, <2>3, <3>1, <3>2, <3>3 DEF Locked
  <2> QED BY <2>2, <2>3
<1>6. ASSUME NEW h \in Handlers, Commit(h) PROVE Locked'
  <2>1. pc[h] \in HeldSteps /\ call[h].by \in Users /\ lock[call[h].by] = h /\ h \in Editors
    BY <1>6 DEF Commit, HeldSteps, Shape, Running, WriteSteps, Locked
  <2>2. lock' = [lock EXCEPT ![call[h].by] = None] /\ rows' = [rows EXCEPT ![call[h].by] = h]
    BY <1>6 DEF Commit, Committed
  <2>3. PICK s \in Steps, r \in CallRecord : Goes(h, s, r)
    BY <1>6, HandlerSteps
  <2>4. s \notin HeldSteps
    BY <1>0, <1>6, <2>3 DEF Commit, Reply, Goto, Goes, HeldSteps
  <2>5. pc' = [pc EXCEPT ![h] = s] /\ call' = [call EXCEPT ![h] = r] /\ r.by = call[h].by
    BY <2>3 DEF Goes
  <2> QED BY <1>0, <2>1, <2>2, <2>4, <2>5 DEF Locked
<1>7. ASSUME NEW h \in Handlers, StoreError(h) PROVE Locked'
  <2>1. lock' = [u \in Users |-> IF lock[u] = h THEN None ELSE lock[u]] /\ rows' = rows
    BY <1>7 DEF StoreError, Rollback
  <2>2. PICK r : pc' = [pc EXCEPT ![h] = "done"] /\ call' = [call EXCEPT ![h] = r]
    BY <1>7 DEF StoreError, Reply, Goto
  <2>3. \A k \in Handlers : pc[k] \in HeldSteps => call[k].by \in Users
    BY DEF Shape, Running, HeldSteps
  <2>4. "done" \notin HeldSteps
    BY DEF HeldSteps
  <2> QED BY <1>0, <2>1, <2>2, <2>3, <2>4 DEF Locked
<1> QED BY <1>1, <1>2, <1>3, <1>4, <1>5, <1>6, <1>7, NextCases DEF vars, GraphChanges

--------------------------------------------------------------------------------
\* What is stored.

\* Only a COMMIT changes the pets, and those of its own user.
LEMMA PetsKept ==
  ASSUME TypeOK, Shape, [Next]_vars
  PROVE  \/ UNCHANGED pets
         \/ \E h \in Handlers : Commit(h) /\ \A u \in Users : u # call[h].by => pets'[u] = pets[u]
<1>1. CASE UNCHANGED vars \/ GraphChanges \/ \E u \in Users : CreateProfile(u)
  BY <1>1 DEF vars, tables, GraphChanges, CreateProfile
<1>2. ASSUME NEW h \in Handlers, Begins(h) PROVE UNCHANGED pets
  BY <1>2, BeginsTyped DEF tables
<1>3. ASSUME NEW h \in Handlers, ReadOnly(h) \/ Update(h) \/ Delete(h) \/ Insert(h) \/ StoreError(h)
      PROVE  UNCHANGED pets
  <2>1. CASE ReadOnly(h)
    BY <2>1, ReadOnlyFrame DEF tables
  <2> QED BY <1>3, <2>1 DEF Update, Delete, Insert, Read, StoreError, tables
<1>4. ASSUME NEW h \in Handlers, Commit(h)
      PROVE  \A u \in Users : u # call[h].by => pets'[u] = pets[u]
  BY <1>4 DEF Commit, Committed, TypeOK
<1> QED BY <1>1, <1>2, <1>3, <1>4, NextCases

LEMMA TakenStep ==
  ASSUME TypeOK, Shape, Locked, Taken, [Next]_vars
  PROVE  Taken'
<1>0. pc \in [Handlers -> Steps] /\ call \in [Handlers -> CallRecord]
  BY DEF TypeOK
<1> SUFFICES ASSUME NEW k \in Handlers, pc'[k] \in {"insert", "commit"}
             PROVE  call'[k].pets = pets'[call'[k].by]
  BY DEF Taken
<1>1. ASSUME pc[k] \in {"insert", "commit"}, call'[k] = call[k], pc'[k] \in {"insert", "commit"}
      PROVE  call'[k].pets = pets'[call'[k].by]
  <2>1. call[k].by \in Users /\ lock[call[k].by] = k
    BY <1>1 DEF Shape, Running, Locked, HeldSteps
  <2>2. CASE UNCHANGED pets
    BY <1>1, <2>2 DEF Taken
  <2>3. ASSUME NEW h \in Handlers, Commit(h), \A u \in Users : u # call[h].by => pets'[u] = pets[u]
        PROVE  call'[k].pets = pets'[call'[k].by]
    <3>1. lock[call[h].by] = h
      BY <2>3 DEF Commit, Locked, HeldSteps
    <3>2. h # k
      BY <1>0, <1>1, <2>3 DEF Commit, Goto, Reply
    <3>3. call[h].by # call[k].by
      BY <2>1, <3>1, <3>2
    <3> QED BY <1>1, <2>1, <2>3, <3>3 DEF Taken
  <2> QED BY <2>2, <2>3, PetsKept
<1>2. CASE UNCHANGED <<pc, call>>
  BY <1>1, <1>2
<1>3. ASSUME NEW h \in Handlers, Begins(h) PROVE call'[k].pets = pets'[call'[k].by]
  <2>1. PICK step \in {"row", "login", "update", "friends"}, r \in CallRecord :
          pc' = [pc EXCEPT ![h] = step] /\ call' = [call EXCEPT ![h] = r]
    BY <1>3, BeginsMoves
  <2>2. k # h
    BY <1>0, <2>1
  <2> QED BY <1>0, <1>1, <2>1, <2>2
<1>4. ASSUME NEW h \in Handlers,
             ReadOnly(h) \/ Update(h) \/ Delete(h) \/ Insert(h) \/ Commit(h) \/ StoreError(h)
      PROVE  call'[k].pets = pets'[call'[k].by]
  <2>1. PICK s \in Steps, r \in CallRecord : Goes(h, s, r)
    BY <1>4, HandlerSteps
  <2>2. CASE k # h
    BY <1>0, <1>1, <2>1, <2>2 DEF Goes
  <2>3. CASE k = h
    <3>0. s \in {"insert", "commit"}
      BY <1>0, <2>1, <2>3 DEF Goes
    <3>1. CASE Delete(h)
      <4> DEFINE t == [call[h] EXCEPT !.pets = pets[call[h].by]]
      <4>1. call' = [call EXCEPT ![h] = t] /\ UNCHANGED pets
        BY <3>1 DEF Delete, Read, tables
      <4>2. t.pets = pets[call[h].by] /\ t.by = call[h].by
        BY <1>0 DEF CallRecord
      <4> HIDE DEF t
      <4> QED BY <1>0, <2>3, <4>1, <4>2
    <3>2. CASE Insert(h)
      <4>1. call'[h] = call[h] /\ pc[h] = "insert"
        BY <1>0, <3>2 DEF Insert, Read
      <4> QED BY <1>1, <2>3, <4>1
    <3>3. CASE ReadOnly(h)
      BY <2>1, <3>0, <3>3, ReadOnlyFrame DEF Goes, WriteSteps, HeldSteps
    <3>4. CASE Update(h)
      BY <1>0, <2>1, <3>0, <3>4, Thens DEF Goes, Update, Reply, Goto
    <3>5. CASE Commit(h) \/ StoreError(h)
      BY <1>0, <2>1, <3>0, <3>5 DEF Goes, Commit, StoreError, Reply, Goto
    <3> QED BY <1>4, <3>1, <3>2, <3>3, <3>4, <3>5
  <2> QED BY <2>2, <2>3
<1> QED BY <1>2, <1>3, <1>4, NextCases DEF vars, GraphChanges, CreateProfile

LEMMA StoredStep ==
  ASSUME TypeOK, Shape, Locked, Taken, OneEditStored, [Next]_vars
  PROVE  OneEditStored'
<1>1. CASE UNCHANGED <<rows, pets>>
  BY <1>1 DEF OneEditStored
<1>2. ASSUME NEW u \in Users, CreateProfile(u) PROVE OneEditStored'
  <2>1. PetsOf(Seed) = {} /\ Seed # None
    BY ProfileDataAssumption DEF PetsOf, Handlers
  <2>2. rows' = [rows EXCEPT ![u] = IF rows[u] = None THEN Seed ELSE rows[u]] /\ pets' = pets
    BY <1>2 DEF CreateProfile, Created
  <2> QED BY <2>1, <2>2 DEF OneEditStored, TypeOK
<1>3. ASSUME NEW h \in Handlers, Commit(h) PROVE OneEditStored'
  <2>1. call[h].by \in Users /\ h # None /\ call[h].pets = pets[call[h].by]
    BY <1>3, ProfileDataAssumption DEF Commit, Shape, Running, Taken
  <2>2. rows' = [rows EXCEPT ![call[h].by] = h]
        /\ pets' = [pets EXCEPT ![call[h].by] = (pets[call[h].by] \ call[h].pets) \cup PetsOf(h)]
    BY <1>3 DEF Commit, Committed
  <2>3. pets' = [pets EXCEPT ![call[h].by] = PetsOf(h)]
    BY <2>1, <2>2
  <2> QED BY <2>1, <2>2, <2>3 DEF OneEditStored, TypeOK
<1>4. ASSUME NEW h \in Handlers,
             ReadOnly(h) \/ Update(h) \/ Delete(h) \/ Insert(h) \/ StoreError(h)
      PROVE  UNCHANGED <<rows, pets>>
  <2>1. CASE ReadOnly(h)
    BY <2>1, ReadOnlyFrame DEF tables
  <2> QED BY <1>4, <2>1 DEF Update, Delete, Insert, Read, StoreError, tables
<1>5. ASSUME NEW h \in Handlers, Begins(h) PROVE UNCHANGED <<rows, pets>>
  BY <1>5, BeginsTyped DEF tables
<1> QED BY <1>1, <1>2, <1>3, <1>4, <1>5, NextCases DEF vars, tables, GraphChanges

--------------------------------------------------------------------------------
\* Who is told of a friendship.

LEMMA NotedStep ==
  ASSUME TypeOK, Shape, Noted, [Next]_vars
  PROVE  Noted'
<1>0. pc \in [Handlers -> Steps] /\ call \in [Handlers -> CallRecord] /\ seen \in [Handlers -> History]
  BY DEF TypeOK
<1>1. CASE UNCHANGED <<graph, pc, call, seen>>
  BY <1>1 DEF Noted, graph, Running
<1>2. CASE GraphChanges
  <2>1. UNCHANGED <<pc, call>>
    BY <1>2 DEF GraphChanges
  <2>2. ASSUME NEW h \in Handlers
        PROVE  /\ seen[h].met \subseteq seen'[h].met
               /\ Running(h) => \A v \in Users : <<call[h].by, v>> \in friends' => v \in seen'[h].met
    <3> DEFINE m == {v \in Users : TieIn(friends', pending', call[h].by, v) = "friends"}
    <3>1. ~Running(h) => seen'[h] = seen[h]
      BY <1>2 DEF GraphChanges
    <3>2. Running(h) => seen'[h].met = seen[h].met \cup m
      BY <1>0, <1>2 DEF GraphChanges, History
    <3>3. \A v \in Users : <<call[h].by, v>> \in friends' => v \in m
      BY DEF TieIn
    <3> HIDE DEF m
    <3> QED BY <3>1, <3>2, <3>3
  <2>3. ASSUME NEW h \in Handlers
        PROVE  /\ Running(h)' => Running(h)
               /\ call'[h] = call[h]
    BY <2>1 DEF Running
  <2> QED BY <2>2, <2>3 DEF Noted
<1>3. ASSUME NEW u \in Users, CreateProfile(u) PROVE Noted'
  <2>1. \A h \in Handlers : seen'[h].met = seen[h].met
    BY <1>0, <1>3 DEF CreateProfile, History
  <2> QED BY <1>3, <2>1 DEF CreateProfile, graph, Noted, Running
<1>4. ASSUME NEW h \in Handlers, Begins(h) PROVE Noted'
  <2>1. PICK op \in {"info", "find", "edit", "list"}, u \in Users, v \in Users \cup {None},
             step \in {"row", "login", "update", "friends"} : Start(h, op, u, v, step)
    BY <1>4 DEF Begins
  <2> DEFINE r == [NoCall EXCEPT !.op = op, !.by = u, !.of = v]
  <2>2. call' = [call EXCEPT ![h] = r] /\ pc' = [pc EXCEPT ![h] = step] /\ UNCHANGED friends
    BY <2>1 DEF Start, Goto, graph
  <2>3. r.by = u /\ r.status = "NONE"
    BY DEF NoCall
  <2>4. seen'[h].met = {w \in Users : <<u, w>> \in friends}
    BY <1>0, <2>1 DEF Start, History
  <2>5. \A k \in Handlers : k # h => seen'[k] = seen[k]
    BY <1>0, <2>1 DEF Start
  <2> HIDE DEF r
  <2> QED BY <1>0, <2>2, <2>3, <2>4, <2>5 DEF Noted, Running
<1>5. ASSUME NEW h \in Handlers,
             ReadOnly(h) \/ Update(h) \/ Delete(h) \/ Insert(h) \/ Commit(h) \/ StoreError(h)
      PROVE  Noted'
  <2>1. PICK s \in Steps, r \in CallRecord : Goes(h, s, r)
    BY <1>5, HandlerSteps
  <2>2. UNCHANGED graph
    BY <1>5, HandlerSteps
  <2>3. \A k \in Handlers : seen'[k].met = seen[k].met
    <3>1. CASE Commit(h)
      BY <1>0, <3>1 DEF Commit, History
    <3>2. CASE ReadOnly(h) \/ Update(h) \/ Delete(h) \/ Insert(h) \/ StoreError(h)
      BY <3>2, ReadOnlyFrame DEF Update, Delete, Insert, Read, StoreError
    <3> QED BY <1>5, <3>1, <3>2
  <2>4. pc' = [pc EXCEPT ![h] = s] /\ call' = [call EXCEPT ![h] = r]
        /\ r.by = call[h].by /\ r.of = call[h].of /\ (s # "done" => Running(h))
    BY <2>1 DEF Goes
  <2>5. r.status = "FRIENDS" => call[h].of \in seen[h].met
    BY <2>1 DEF Goes, Noted, Ask
  <2> QED BY <1>0, <2>2, <2>3, <2>4, <2>5 DEF Noted, Running, graph
<1> QED BY <1>1, <1>2, <1>3, <1>4, <1>5, NextCases DEF vars

--------------------------------------------------------------------------------
\* One call among the steps of all of them.

\* A step is one of call k's own, or leaves its statement and record alone.
LEMMA CallCases ==
  ASSUME TypeOK, Shape, [Next]_vars, NEW k \in Handlers
  PROVE  \/ pc'[k] = pc[k] /\ call'[k] = call[k] /\ (~Commit(k) /\ ~Begins(k))
         \/ Begins(k)
         \/ ReadOnly(k) \/ Update(k) \/ Delete(k) \/ Insert(k) \/ Commit(k) \/ StoreError(k)
<1>0. pc \in [Handlers -> Steps] /\ call \in [Handlers -> CallRecord]
  BY DEF TypeOK
<1>1. ASSUME NEW h \in Handlers, h # k, Begins(h) PROVE pc'[k] = pc[k] /\ call'[k] = call[k]
  BY <1>0, <1>1, BeginsMoves
<1>2. ASSUME NEW h \in Handlers, h # k,
             ReadOnly(h) \/ Update(h) \/ Delete(h) \/ Insert(h) \/ Commit(h) \/ StoreError(h)
      PROVE  pc'[k] = pc[k] /\ call'[k] = call[k]
  BY <1>0, <1>2, HandlerSteps DEF Goes
<1>3. CASE UNCHANGED <<pc, call>>
  BY <1>3
<1> QED BY <1>1, <1>2, <1>3, NextCases DEF vars, GraphChanges, CreateProfile

\* What a step does to the row of a user and to what call k knows of it: a row
\* that is there stays, and changes only when an edit commits, which the others
\* note.
LEMMA RowsKept ==
  ASSUME TypeOK, Shape, Locked, [Next]_vars, NEW k \in Handlers, ~Begins(k)
  PROVE  /\ seen'[k].place = seen[k].place
         /\ seen[k].edited \subseteq seen'[k].edited
         /\ seen[k].changed \subseteq seen'[k].changed
         /\ seen[k].parted \subseteq seen'[k].parted
         /\ ~Running(k) => seen'[k] = seen[k]
         /\ \A u \in Users : rows[u] # None => rows'[u] # None
         /\ Running(k) => \A u \in Users \ seen'[k].changed : (rows'[u] = None) <=> (rows[u] = None)
         /\ Running(k) /\ ~Commit(k) => \A u \in Users \ seen'[k].edited : rows[u] # None => rows'[u] = rows[u]
<1>0. seen \in [Handlers -> History] /\ rows \in [Users -> Contents \cup {None}]
  BY DEF TypeOK
<1>1. CASE UNCHANGED <<rows, seen>>
  BY <1>1
<1>2. CASE GraphChanges
  <2>1. rows' = rows
    BY <1>2 DEF GraphChanges, tables
  <2>2. /\ seen'[k].place = seen[k].place /\ seen'[k].edited = seen[k].edited
        /\ seen[k].changed \subseteq seen'[k].changed /\ seen[k].parted \subseteq seen'[k].parted
        /\ (~Running(k) => seen'[k] = seen[k])
    <3>1. CASE ~Running(k)
      BY <1>0, <1>2, <3>1 DEF GraphChanges
    <3>2. CASE Running(k)
      BY <1>0, <1>2, <3>2 DEF GraphChanges, History
    <3> QED BY <3>1, <3>2
  <2> QED BY <2>1, <2>2
<1>3. ASSUME NEW u \in Users, CreateProfile(u)
      PROVE  /\ seen'[k].place = seen[k].place /\ seen'[k].edited = seen[k].edited
             /\ seen[k].changed \subseteq seen'[k].changed /\ seen[k].parted = seen'[k].parted
             /\ ~Running(k) => seen'[k] = seen[k]
             /\ \A v \in Users : rows[v] # None => rows'[v] = rows[v]
             /\ Running(k) => \A v \in Users \ seen'[k].changed : rows'[v] = rows[v]
  <2>1. rows' = [rows EXCEPT ![u] = IF rows[u] = None THEN Seed ELSE rows[u]]
    BY <1>3 DEF CreateProfile, Created
  <2>2. seen'[k] = IF Running(k) /\ rows[u] = None
                   THEN [seen[k] EXCEPT !.changed = seen[k].changed \cup {u}] ELSE seen[k]
    BY <1>3 DEF CreateProfile
  <2>3. CASE Running(k) /\ rows[u] = None
    BY <1>0, <2>1, <2>2, <2>3 DEF History
  <2>4. CASE ~(Running(k) /\ rows[u] = None)
    BY <1>0, <2>1, <2>2, <2>4
  <2> QED BY <2>3, <2>4
<1>4. ASSUME NEW h \in Handlers, Commit(h)
      PROVE  /\ seen'[k].place = seen[k].place /\ seen[k].edited \subseteq seen'[k].edited
             /\ seen[k].changed = seen'[k].changed /\ seen[k].parted = seen'[k].parted
             /\ ~Running(k) => seen'[k] = seen[k]
             /\ \A v \in Users : (rows'[v] = None) <=> (rows[v] = None)
             /\ Running(k) /\ h # k => \A v \in Users \ seen'[k].edited : rows'[v] = rows[v]
  <2>1. rows' = [rows EXCEPT ![call[h].by] = h] /\ call[h].by \in Users /\ rows[call[h].by] # None /\ h # None
    BY <1>4, ProfileDataAssumption DEF Commit, Committed, Shape, Running, Locked, HeldSteps
  <2>2. seen'[k] = IF Running(k) /\ k # h
                   THEN [seen[k] EXCEPT !.edited = seen[k].edited \cup {call[h].by}] ELSE seen[k]
    BY <1>4 DEF Commit
  <2>3. CASE Running(k) /\ k # h
    BY <1>0, <2>1, <2>2, <2>3 DEF History
  <2>4. CASE ~(Running(k) /\ k # h)
    BY <1>0, <2>1, <2>2, <2>4
  <2> QED BY <2>3, <2>4
<1>5. ASSUME NEW h \in Handlers,
             ReadOnly(h) \/ Update(h) \/ Delete(h) \/ Insert(h) \/ StoreError(h)
      PROVE  UNCHANGED <<rows, seen>>
  <2>1. CASE ReadOnly(h)
    BY <2>1, ReadOnlyFrame DEF tables
  <2> QED BY <1>5, <2>1 DEF Update, Delete, Insert, Read, StoreError, tables
<1>6. ASSUME NEW h \in Handlers, Begins(h) PROVE UNCHANGED rows /\ (h # k => seen'[k] = seen[k])
  BY <1>0, <1>6 DEF Begins, Start, tables
<1>7. CASE \E h \in Handlers : Begins(h)
  <2>1. PICK h \in Handlers : Begins(h)
    BY <1>7
  <2>2. UNCHANGED rows /\ seen'[k] = seen[k]
    BY <1>6, <2>1
  <2> QED BY <2>2
<1>8. CASE \E h \in Handlers : Commit(h)
  <2>1. PICK h \in Handlers : Commit(h)
    BY <1>8
  <2> QED BY <1>4, <2>1
<1>9. CASE \E u \in Users : CreateProfile(u)
  <2>1. PICK u \in Users : CreateProfile(u)
    BY <1>9
  <2> QED BY <1>3, <2>1
<1> QED BY <1>1, <1>2, <1>5, <1>7, <1>8, <1>9, NextCases DEF vars, tables

LEMMA UnansweredStep ==
  ASSUME TypeOK, Shape, Unanswered, [Next]_vars
  PROVE  Unanswered'
<1>0. pc \in [Handlers -> Steps] /\ call \in [Handlers -> CallRecord]
  BY DEF TypeOK
<1> SUFFICES ASSUME NEW k \in Handlers, call'[k].reply = "ok" PROVE pc'[k] = "done"
  BY DEF Unanswered
<1>1. CASE pc'[k] = pc[k] /\ call'[k] = call[k]
  BY <1>1 DEF Unanswered
<1>2. CASE Begins(k)
  BY <1>0, <1>2 DEF Begins, Start, NoCall
<1>3. CASE ReadOnly(k) \/ Update(k) \/ Delete(k) \/ Insert(k) \/ Commit(k) \/ StoreError(k)
  <2>1. PICK s \in Steps, r \in CallRecord : Goes(k, s, r)
    BY <1>3, HandlerSteps
  <2> QED BY <1>0, <2>1 DEF Goes, Unanswered, Running
<1> QED BY <1>1, <1>2, <1>3, CallCases

\* Row and pets are read one after the other, and stay unless the others note it.
LEMMA WholeStep ==
  ASSUME TypeOK, Shape, Locked, OneEditStored, Unanswered, Whole, [Next]_vars
  PROVE  Whole'
<1>0. pc \in [Handlers -> Steps] /\ call \in [Handlers -> CallRecord] /\ Unanswered' /\ None \notin Handlers
  BY UnansweredStep, ProfileDataAssumption DEF TypeOK
<1> SUFFICES ASSUME NEW k \in Handlers, call'[k].of \notin seen'[k].edited
             PROVE  LET c    == call'[k]
                        mine == c.op = "edit" => c.row = k
                    IN /\ pc'[k] = "row" /\ c.op = "edit" => rows'[c.of] = k
                       /\ pc'[k] = "pets" => c.row = rows'[c.of] /\ c.row # None /\ mine
                       /\ pc'[k] \in StatusSteps \/ (c.reply = "ok" /\ c.op # "list") =>
                            c.pets = PetsOf(c.row) /\ mine
  BY DEF Whole
<1>1. CASE pc'[k] = pc[k] /\ call'[k] = call[k] /\ ~Commit(k) /\ ~Begins(k)
  <2>1. call[k].of \notin seen[k].edited
    BY <1>1, RowsKept
  <2>2. ASSUME pc[k] \in {"row", "pets"}, rows[call[k].of] # None
        PROVE  rows'[call[k].of] = rows[call[k].of]
    <3>1. call[k].of \in Users /\ Running(k)
      BY <2>2 DEF Shape, ReadSteps, Running
    <3> QED BY <1>1, <2>2, <3>1, RowsKept
  <2> QED BY <1>0, <1>1, <2>1, <2>2 DEF Whole
<1>2. CASE Begins(k)
  <2>1. PICK op \in {"info", "find", "edit", "list"}, u \in Users, v \in Users \cup {None},
             step \in {"row", "login", "update", "friends"} :
          Start(k, op, u, v, step) /\ (step \in ReadSteps => op \in {"info", "find"})
    BY <1>2 DEF Begins
  <2>2. pc'[k] = step /\ call'[k].op = op /\ call'[k].reply = "none"
    BY <1>0, <2>1 DEF Start, Goto, NoCall
  <2> QED BY <2>1, <2>2 DEF ReadSteps, StatusSteps
<1>3. ASSUME ReadOnly(k) \/ Update(k) \/ Delete(k) \/ Insert(k) \/ StoreError(k)
      PROVE  rows' = rows /\ seen' = seen /\ call[k].of \notin seen[k].edited
  <2>1. rows' = rows /\ seen' = seen
    BY <1>3, ReadOnlyFrame DEF tables, Update, Delete, Insert, StoreError, Read
  <2>2. call'[k].of = call[k].of
    BY <1>0, <1>3, HandlerSteps DEF Goes
  <2> QED BY <2>1, <2>2
<1>4. ASSUME pc'[k] = "done", NEW r \in CallRecord, NEW answer, answer # "ok", call'[k] = [r EXCEPT !.reply = answer]
      PROVE  call'[k].reply # "ok" /\ pc'[k] \notin {"row", "pets"} \cup StatusSteps
  BY <1>4 DEF CallRecord, StatusSteps
<1>5. CASE Update(k) \/ Delete(k) \/ Insert(k) \/ StoreError(k) \/ Refuse(k)
  <2>1. \/ pc'[k] \in {"delete", "insert", "commit"}
        \/ \E answer \in {"not_found", "internal", "refused"} : Reply(k, call[k], answer)
    BY <1>0, <1>5, Thens DEF Update, Delete, Insert, StoreError, Refuse, Read, Goto
  <2>2. CASE pc'[k] \in {"delete", "insert", "commit"}
    BY <1>0, <2>2 DEF StatusSteps, Unanswered
  <2>3. ASSUME NEW answer \in {"not_found", "internal", "refused"}, Reply(k, call[k], answer)
        PROVE  call'[k].reply # "ok" /\ pc'[k] \notin {"row", "pets"} \cup StatusSteps
    <3>1. pc'[k] = "done" /\ call'[k] = [call[k] EXCEPT !.reply = answer]
      BY <1>0, <2>3 DEF Reply, Goto
    <3> QED BY <1>0, <1>4, <3>1
  <2> QED BY <2>1, <2>2, <2>3
<1>6. CASE Commit(k)
  <2>1. call[k].of = call[k].by /\ call[k].by \in Users /\ rows'[call[k].by] = k
    BY <1>6 DEF Commit, Committed, Shape, Running, WriteSteps, HeldSteps, TypeOK
  <2>2. CASE Goto(k, "row") /\ call' = [call EXCEPT ![k].pets = {}]
    <3>1. pc'[k] = "row" /\ call'[k].of = call[k].of
      BY <1>0, <2>2 DEF Goto, CallRecord
    <3> QED BY <1>0, <2>1, <3>1 DEF StatusSteps, Unanswered
  <2>3. CASE Reply(k, call[k], "internal")
    <3>1. pc'[k] = "done" /\ call'[k] = [call[k] EXCEPT !.reply = "internal"]
      BY <1>0, <2>3 DEF Reply, Goto
    <3> QED BY <1>0, <1>4, <3>1
  <2> QED BY <1>6, <2>2, <2>3 DEF Commit
<1>7. CASE ReadLogin(k)
  <2>1. CASE Reply(k, call[k], "not_found")
    <3>1. pc'[k] = "done" /\ call'[k] = [call[k] EXCEPT !.reply = "not_found"]
      BY <1>0, <2>1 DEF Reply, Goto
    <3> QED BY <1>0, <1>4, <3>1
  <2>2. CASE Goto(k, "row") /\ UNCHANGED call
    BY <1>0, <1>7, <2>2 DEF ReadLogin, Goto, Shape, StatusSteps, Unanswered
  <2> QED BY <1>7, <2>1, <2>2 DEF ReadLogin
<1>8. CASE ReadRow(k)
  <2>0. ReadOnly(k)
    BY <1>8 DEF ReadOnly
  <2>1. CASE rows[call[k].of] = None
    <3>1. PICK answer \in {"internal", "not_found"} :
            pc'[k] = "done" /\ call'[k] = [call[k] EXCEPT !.reply = answer]
      BY <1>0, <1>8, <2>1 DEF ReadRow, Reply, Goto
    <3> QED BY <1>0, <1>4, <3>1
  <2>2. CASE rows[call[k].of] # None
    <3>1. pc[k] = "row" /\ pc'[k] = "pets" /\ call'[k] = [call[k] EXCEPT !.row = rows[call[k].of]]
      BY <1>0, <1>8, <2>2 DEF ReadRow, Goto
    <3>2. call'[k].row = rows[call[k].of] /\ call'[k].of = call[k].of /\ call'[k].op = call[k].op
      BY <1>0, <3>1 DEF CallRecord
    <3>3. rows' = rows /\ call[k].of \notin seen[k].edited
      BY <1>3, <2>0
    <3> QED BY <1>0, <2>2, <3>1, <3>2, <3>3 DEF Whole, StatusSteps, Unanswered
  <2> QED BY <2>1, <2>2
<1>9. CASE ReadPets(k)
  <2>0. ReadOnly(k)
    BY <1>9 DEF ReadOnly
  <2>1. call[k].of \notin seen[k].edited
    BY <1>3, <2>0
  <2>2. pc[k] = "pets" /\ call[k].of \in Users
    BY <1>9 DEF ReadPets, Shape, ReadSteps
  <2>3. /\ pc'[k] \in {"done", "is_blocked"} /\ call'[k].pets = pets[call[k].of]
        /\ call'[k].row = call[k].row /\ call'[k].op = call[k].op
    <3> DEFINE c == [call[k] EXCEPT !.pets = pets[call[k].of]]
    <3>0. pets[call[k].of] \in SUBSET (Editors \X {1, 2}) /\ call[k] \in CallRecord
      BY <1>0, <2>2 DEF TypeOK
    <3>1. c \in CallRecord /\ c.pets = pets[call[k].of] /\ c.row = call[k].row /\ c.op = call[k].op
      BY <3>0 DEF CallRecord
    <3>2. \/ pc'[k] = "done" /\ call'[k] = [c EXCEPT !.reply = "ok"]
          \/ pc'[k] = "is_blocked" /\ call'[k] = c
      BY <1>0, <1>9 DEF ReadPets, Reply, Goto
    <3> HIDE DEF c
    <3>3. pc'[k] \in {"done", "is_blocked"}
          /\ (call'[k] = c \/ call'[k] = [c EXCEPT !.reply = "ok"])
      BY <3>2
    <3>4. call'[k].pets = c.pets /\ call'[k].row = c.row /\ call'[k].op = c.op
      <4>1. CASE call'[k] = c
        BY <4>1
      <4>2. CASE call'[k] = [c EXCEPT !.reply = "ok"]
        BY <3>1, <4>2 DEF CallRecord
      <4> QED BY <3>3, <4>1, <4>2
    <3> QED BY <3>1, <3>3, <3>4
  <2>4. pets[call[k].of] = PetsOf(call[k].row)
    BY <2>1, <2>2 DEF Whole, OneEditStored
  <2> QED BY <2>1, <2>2, <2>3, <2>4 DEF Whole
<1>10. CASE IsBlockedEitherWay(k) \/ AreFriends(k) \/ PendingBetween(k)
  <2>0. ReadOnly(k)
    BY <1>10 DEF ReadOnly
  <2>1. call[k].of \notin seen[k].edited
    BY <1>3, <2>0
  <2>2. ASSUME NEW step \in StatusSteps, NEW holds, NEW status, NEW next \in {"are_friends", "pending_between", "done"},
               FriendStatus(k, step, holds, status, next)
        PROVE  /\ pc[k] \in StatusSteps /\ pc'[k] \in {"are_friends", "pending_between", "done"}
               /\ call'[k].pets = call[k].pets /\ call'[k].row = call[k].row /\ call'[k].op = call[k].op
    <3>1. pc[k] = step /\ pc'[k] \in {"are_friends", "pending_between", "done"}
      BY <1>0, <2>2 DEF FriendStatus, Reply, Goto
    <3>2. \/ call'[k] = [[call[k] EXCEPT !.status = status] EXCEPT !.reply = "ok"]
          \/ call'[k] = [call[k] EXCEPT !.reply = "ok"]
          \/ call'[k] = call[k]
      BY <1>0, <2>2 DEF FriendStatus, Reply
    <3>3. call[k] \in CallRecord
      BY <1>0
    <3>4. call'[k].pets = call[k].pets /\ call'[k].row = call[k].row /\ call'[k].op = call[k].op
      <4>1. CASE call'[k] = call[k]
        BY <4>1
      <4>2. CASE call'[k] = [call[k] EXCEPT !.reply = "ok"]
        BY <3>3, <4>2 DEF CallRecord
      <4>3. CASE call'[k] = [[call[k] EXCEPT !.status = status] EXCEPT !.reply = "ok"]
        BY <3>3, <4>3 DEF CallRecord
      <4> QED BY <3>2, <4>1, <4>2, <4>3
    <3> QED BY <2>2, <3>1, <3>4
  <2>3. \E step \in StatusSteps, next \in {"are_friends", "pending_between", "done"} :
          \E holds, status : FriendStatus(k, step, holds, status, next)
    BY <1>10 DEF IsBlockedEitherWay, AreFriends, PendingBetween, StatusSteps
  <2> QED BY <2>1, <2>2, <2>3 DEF Whole
<1>11. CASE List(k)
  <2>1. pc[k] \in ListSteps /\ pc'[k] \in {"incoming", "outgoing", "done"}
    BY <1>0, <1>11, NextLists DEF List, Read, Goto, ListSteps
  <2>2. call[k].op = "list" /\ ReadOnly(k)
    BY <1>11, <2>1 DEF Shape, ReadOnly
  <2>3. call'[k].op = "list"
    BY <1>0, <2>2, HandlerSteps DEF Goes
  <2> QED BY <2>1, <2>3 DEF StatusSteps
<1> QED BY <1>1, <1>2, <1>5, <1>6, <1>7, <1>8, <1>9, <1>10, <1>11, CallCases DEF ReadOnly

--------------------------------------------------------------------------------
\* The three lists.

\* What one change of the graph does to requests and friendships.
LEMMA ApartRules ==
  ASSUME TypeOK, Apart, Rules!Next
  PROVE  Apart'
<1>1. PICK u \in Users, v \in Users :
        \/ Rules!Ask(u, v) \/ Rules!Accept(u, v) \/ Rules!Decline(u, v)
        \/ Rules!Unfriend(u, v) \/ Rules!Block(u, v) \/ Rules!Unblock(u, v)
  BY DEF Rules!Next
<1>2. CASE Rules!Ask(u, v)
  BY <1>2 DEF Apart, Rules!Ask, Rules!Both
<1>3. CASE Rules!Accept(u, v)
  BY <1>3 DEF Apart, Rules!Accept, Rules!Both
<1>4. CASE Rules!Decline(u, v) \/ Rules!Unfriend(u, v) \/ Rules!Block(u, v) \/ Rules!Unblock(u, v)
  BY <1>4 DEF Apart, Rules!Decline, Rules!Unfriend, Rules!Block, Rules!Unblock
<1> QED BY <1>1, <1>2, <1>3, <1>4

LEMMA ApartStep ==
  ASSUME TypeOK, Shape, Apart, [Next]_vars
  PROVE  Apart'
<1>1. CASE UNCHANGED graph
  BY <1>1 DEF Apart, graph
<1>2. CASE GraphChanges
  BY <1>2, ApartRules DEF GraphChanges
<1>3. ASSUME NEW h \in Handlers, Begins(h) PROVE UNCHANGED graph
  BY <1>3, BeginsTyped
<1> QED BY <1>1, <1>2, <1>3, HandlerSteps, NextCases DEF vars, CreateProfile

\* A friendship ends with no tie left; a request is accepted, or ends so too.
LEMMA TiesMove ==
  ASSUME TypeOK, Apart, Rules!Next, NEW b \in Users, NEW w \in Users
  PROVE  /\ Tie(b, w) = "friends"  => TieIn(friends', pending', b, w) \in {"friends", "none"}
         /\ Tie(b, w) = "incoming" => TieIn(friends', pending', b, w) \in {"incoming", "friends", "none"}
<1>1. PICK u \in Users, v \in Users :
        \/ Rules!Ask(u, v) \/ Rules!Accept(u, v) \/ Rules!Decline(u, v)
        \/ Rules!Unfriend(u, v) \/ Rules!Block(u, v) \/ Rules!Unblock(u, v)
  BY DEF Rules!Next
<1>2. CASE Rules!Ask(u, v)
  BY <1>2 DEF Apart, Rules!Ask, Rules!Both, Tie, TieIn
<1>3. CASE Rules!Accept(u, v)
  BY <1>3 DEF Apart, Rules!Accept, Rules!Both, Tie, TieIn
<1>4. CASE Rules!Decline(u, v) \/ Rules!Unfriend(u, v) \/ Rules!Block(u, v) \/ Rules!Unblock(u, v)
  BY <1>4 DEF Apart, Rules!Decline, Rules!Unfriend, Rules!Block, Rules!Unblock, Tie, TieIn
<1> QED BY <1>1, <1>2, <1>3, <1>4

\* What a step does to the ties of the caller of k, and what k notes of it.
LEMMA TiesNoted ==
  ASSUME TypeOK, Shape, Apart, [Next]_vars, NEW k \in Handlers, Running(k), NEW w \in Users
  PROVE  LET b == call[k].by
             after == TieIn(friends', pending', b, w)
         IN /\ w \notin seen'[k].changed => after = Tie(b, w)
            /\ Tie(b, w) = "friends"  => after = "friends" \/ w \in seen'[k].parted
            /\ Tie(b, w) = "incoming" => after \in {"incoming", "friends"} \/ w \in seen'[k].parted
<1>0. call[k].by \in Users
  BY DEF Shape
<1>1. CASE UNCHANGED graph
  BY <1>1 DEF graph, Tie
<1>2. CASE GraphChanges
  <2> DEFINE after(v) == TieIn(friends', pending', call[k].by, v)
             p == {v \in Users : Tie(call[k].by, v) # "none" /\ after(v) = "none"}
             c == {v \in Users : after(v) # Tie(call[k].by, v)}
  <2>1. seen'[k].parted = seen[k].parted \cup p /\ seen'[k].changed = seen[k].changed \cup c
    BY <1>2 DEF GraphChanges, TypeOK, History
  <2>2. /\ Tie(call[k].by, w) = "friends"  => after(w) \in {"friends", "none"}
        /\ Tie(call[k].by, w) = "incoming" => after(w) \in {"incoming", "friends", "none"}
    BY <1>0, <1>2, TiesMove DEF GraphChanges
  <2> QED BY <2>1, <2>2
<1>3. ASSUME NEW h \in Handlers, Begins(h) PROVE UNCHANGED graph
  BY <1>3, BeginsTyped
<1> QED BY <1>1, <1>2, <1>3, HandlerSteps, NextCases DEF vars, CreateProfile

\* A list read next goes on from what was read before.
LEMMA ListReads ==
  ASSUME TypeOK, Shape, NEW k \in Handlers, List(k)
  PROVE  LET u == call[k].by
             c == call[k]
             d == call'[k]
         IN /\ \/ /\ pc[k] = "friends" /\ pc'[k] = "incoming" /\ d.friends = Friends(u)
               \/ /\ pc[k] = "incoming" /\ pc'[k] = "outgoing"
                  /\ d.friends = c.friends /\ d.incoming = IncomingPending(u)
               \/ /\ pc[k] = "outgoing" /\ pc'[k] = "done" /\ d.friends = c.friends
                  /\ d.incoming = c.incoming /\ d.outgoing = OutgoingPending(u)
            /\ d.by = u /\ UNCHANGED <<rows, graph, seen>>
<1>0. pc \in [Handlers -> Steps] /\ call \in [Handlers -> CallRecord]
  BY DEF TypeOK
<1> DEFINE u == call[k].by
           c == [call[k] EXCEPT !.reply = IF NextList(pc[k]) = "done" THEN "ok" ELSE @]
<1>1. c \in CallRecord /\ c.by = u /\ c.friends = call[k].friends /\ c.incoming = call[k].incoming
  BY <1>0 DEF CallRecord
<1>2. \/ Read(k, "friends", [c EXCEPT !.friends = Friends(u)], "incoming")
      \/ Read(k, "incoming", [c EXCEPT !.incoming = IncomingPending(u)], "outgoing")
      \/ Read(k, "outgoing", [c EXCEPT !.outgoing = OutgoingPending(u)], "done")
  BY NextLists DEF List
<1> HIDE DEF c, u
<1>3. CASE Read(k, "friends", [c EXCEPT !.friends = Friends(u)], "incoming")
  <2>1. call'[k] = [c EXCEPT !.friends = Friends(u)] /\ pc[k] = "friends" /\ pc'[k] = "incoming"
        /\ UNCHANGED <<tables, graph, seen>>
    BY <1>0, <1>3 DEF Read, Goto
  <2>2. call'[k].friends = Friends(u) /\ call'[k].by = c.by
    BY <1>1, <2>1 DEF CallRecord
  <2> QED BY <1>1, <2>1, <2>2 DEF u, tables
<1>4. CASE Read(k, "incoming", [c EXCEPT !.incoming = IncomingPending(u)], "outgoing")
  <2>1. call'[k] = [c EXCEPT !.incoming = IncomingPending(u)] /\ pc[k] = "incoming" /\ pc'[k] = "outgoing"
        /\ UNCHANGED <<tables, graph, seen>>
    BY <1>0, <1>4 DEF Read, Goto
  <2>2. call'[k].incoming = IncomingPending(u) /\ call'[k].by = c.by /\ call'[k].friends = c.friends
    BY <1>1, <2>1 DEF CallRecord
  <2> QED BY <1>1, <2>1, <2>2 DEF u, tables
<1>5. CASE Read(k, "outgoing", [c EXCEPT !.outgoing = OutgoingPending(u)], "done")
  <2>1. call'[k] = [c EXCEPT !.outgoing = OutgoingPending(u)] /\ pc[k] = "outgoing" /\ pc'[k] = "done"
        /\ UNCHANGED <<tables, graph, seen>>
    BY <1>0, <1>5 DEF Read, Goto
  <2>2. call'[k].outgoing = OutgoingPending(u) /\ call'[k].by = c.by /\ call'[k].friends = c.friends
        /\ call'[k].incoming = c.incoming
    BY <1>1, <2>1 DEF CallRecord
  <2> QED BY <1>1, <2>1, <2>2 DEF u, tables
<1> QED BY <1>2, <1>3, <1>4, <1>5 DEF u

\* A call goes on to a list only by reading the one before.
LEMMA ListCases ==
  ASSUME TypeOK, Shape, [Next]_vars, NEW k \in Handlers, pc'[k] \in ListSteps
  PROVE  \/ pc'[k] = pc[k] /\ call'[k] = call[k] /\ ~Begins(k)
         \/ Begins(k) /\ pc'[k] = "friends"
         \/ List(k)
<1>0. pc \in [Handlers -> Steps] /\ call \in [Handlers -> CallRecord]
  BY DEF TypeOK
<1>1. CASE Begins(k)
  BY <1>0, <1>1, BeginsMoves DEF ListSteps
<1>2. CASE ReadOnly(k) \/ Update(k) \/ Delete(k) \/ Insert(k) \/ Commit(k) \/ StoreError(k)
  <2>1. pc[k] \in ListSteps
    BY <1>0, <1>2, HandlerSteps DEF Goes
  <2>2. pc'[k] # "done"
    BY DEF ListSteps
  <2>3. ~StoreError(k) /\ ~Update(k) /\ ~Delete(k) /\ ~Insert(k) /\ ~Commit(k) /\ ~Refuse(k)
    BY <1>0, <2>1, <2>2 DEF StoreError, Reply, Goto, Update, Delete, Insert, Read, Commit, Refuse, ListSteps
  <2>4. ~ReadLogin(k) /\ ~ReadRow(k) /\ ~ReadPets(k) /\ ~IsBlockedEitherWay(k) /\ ~AreFriends(k)
        /\ ~PendingBetween(k)
    BY <2>1 DEF ReadLogin, ReadRow, ReadPets, IsBlockedEitherWay, AreFriends, PendingBetween,
                FriendStatus, ListSteps
  <2> QED BY <1>2, <2>3, <2>4 DEF ReadOnly
<1> QED BY <1>1, <1>2, CallCases

LEMMA PlacedStep ==
  ASSUME TypeOK, Shape, Locked, Apart, Placed, [Next]_vars
  PROVE  Placed'
<1>0. pc \in [Handlers -> Steps] /\ call \in [Handlers -> CallRecord] /\ seen \in [Handlers -> History]
  BY DEF TypeOK
<1> SUFFICES ASSUME NEW k \in Handlers, pc'[k] \in ListSteps, NEW w \in Users, w \notin seen'[k].changed
             PROVE  seen'[k].place[w] = IF TieIn(friends', pending', call'[k].by, w) = "friends" /\ rows'[w] = None
                                        THEN "none" ELSE TieIn(friends', pending', call'[k].by, w)
  BY DEF Placed, Place, Tie
<1>1. ASSUME ~Begins(k), pc[k] \in ListSteps, call'[k].by = call[k].by
      PROVE  seen'[k].place[w] = IF TieIn(friends', pending', call'[k].by, w) = "friends" /\ rows'[w] = None
                                 THEN "none" ELSE TieIn(friends', pending', call'[k].by, w)
  <2>1. Running(k)
    BY <1>1 DEF Running, ListSteps
  <2>2. TieIn(friends', pending', call[k].by, w) = Tie(call[k].by, w)
    BY <2>1, TiesNoted
  <2>3. (rows'[w] = None) <=> (rows[w] = None)
    BY <1>1, <2>1, RowsKept
  <2>4. seen'[k].place = seen[k].place /\ w \notin seen[k].changed
    BY <1>1, RowsKept
  <2>5. seen[k].place[w] = Place(call[k].by, w)
    BY <1>1, <2>4 DEF Placed
  <2> QED BY <1>1, <2>2, <2>3, <2>4, <2>5 DEF Place
<1>2. CASE Begins(k)
  <2>1. PICK op \in {"info", "find", "edit", "list"}, u \in Users, v \in Users \cup {None},
             step \in {"row", "login", "update", "friends"} : Start(k, op, u, v, step)
    BY <1>2 DEF Begins
  <2>2. call'[k].by = u
    BY <1>0, <2>1 DEF Start, NoCall
  <2>3. seen'[k].place = [x \in Users |-> Place(u, x)]
    BY <1>0, <2>1 DEF Start, History
  <2>4. UNCHANGED <<rows, friends, pending>>
    BY <2>1 DEF Start, tables, graph
  <2> QED BY <2>2, <2>3, <2>4 DEF Place, Tie
<1>3. CASE List(k)
  <2>1. pc[k] \in ListSteps /\ call'[k].by = call[k].by
    BY <1>3, ListReads DEF ListSteps
  <2>2. ~Begins(k)
    BY <2>1, BeginsMoves DEF ListSteps
  <2> QED BY <1>1, <2>1, <2>2
<1> QED BY <1>1, <1>2, <1>3, ListCases

\* While k does not begin, whom a list must have are no more than before.
LEMMA HoldsLess ==
  ASSUME TypeOK, Shape, Locked, [Next]_vars, NEW k \in Handlers, ~Begins(k), NEW list
  PROVE  {v \in Users : seen'[k].place[v] = list /\ v \notin seen'[k].changed} \subseteq Holds(k, list)
BY RowsKept DEF Holds

LEMMA FriendsListedStep ==
  ASSUME TypeOK, Shape, Locked, Apart, Placed, FriendsListed, [Next]_vars
  PROVE  FriendsListed'
<1> SUFFICES ASSUME NEW k \in Handlers, pc'[k] \in {"incoming", "outgoing"}
             PROVE  /\ {v \in Users : seen'[k].place[v] = "friends" /\ v \notin seen'[k].changed}
                         \subseteq call'[k].friends
                    /\ \A v \in call'[k].friends \ seen'[k].parted :
                         TieIn(friends', pending', call'[k].by, v) = "friends"
  BY DEF FriendsListed, Holds, Tie
<1>0. pc'[k] \in ListSteps /\ pc'[k] # "friends"
  BY DEF ListSteps
<1>1. ASSUME pc[k] \in {"incoming", "outgoing"}, ~Begins(k), call'[k].friends = call[k].friends,
             call'[k].by = call[k].by
      PROVE  /\ {v \in Users : seen'[k].place[v] = "friends" /\ v \notin seen'[k].changed}
                  \subseteq call'[k].friends
             /\ \A v \in call'[k].friends \ seen'[k].parted :
                  TieIn(friends', pending', call'[k].by, v) = "friends"
  <2>1. Running(k)
    BY <1>1 DEF Running
  <2>2. call[k].friends \subseteq Users
    BY DEF TypeOK, CallRecord
  <2>3. seen[k].parted \subseteq seen'[k].parted
    BY <1>1, RowsKept
  <2>4. Holds(k, "friends") \subseteq call[k].friends
        /\ \A v \in call[k].friends \ seen[k].parted : Tie(call[k].by, v) = "friends"
    BY <1>1 DEF FriendsListed
  <2>5. \A v \in call[k].friends \ seen'[k].parted : TieIn(friends', pending', call[k].by, v) = "friends"
    BY <2>1, <2>2, <2>3, <2>4, TiesNoted
  <2> QED BY <1>1, <2>4, <2>5, HoldsLess
<1>2. CASE List(k)
  <2>1. ~Begins(k)
    BY <1>2, ListReads, BeginsMoves
  <2>2. CASE pc[k] = "friends"
    <3>1. call'[k].friends = Friends(call[k].by) /\ call'[k].by = call[k].by /\ UNCHANGED <<rows, graph, seen>>
      BY <1>2, <2>2, ListReads
    <3>2. \A v \in Users \ seen[k].changed : seen[k].place[v] = Place(call[k].by, v)
      BY <2>2 DEF Placed, ListSteps
    <3>3. \A v \in Users : Place(call[k].by, v) = "friends" => v \in Friends(call[k].by)
      BY DEF Place, Tie, TieIn, Friends, Known
    <3>4. \A v \in Friends(call[k].by) : TieIn(friends', pending', call[k].by, v) = "friends"
      BY <3>1 DEF TieIn, Friends, graph
    <3> QED BY <3>1, <3>2, <3>3, <3>4
  <2>3. CASE pc[k] # "friends"
    BY <1>0, <1>1, <1>2, <2>1, <2>3, ListReads
  <2> QED BY <2>2, <2>3
<1> QED BY <1>0, <1>1, <1>2, ListCases

LEMMA IncomingListedStep ==
  ASSUME TypeOK, Shape, Locked, Apart, Placed, FriendsListed, IncomingListed, [Next]_vars
  PROVE  IncomingListed'
<1> SUFFICES ASSUME NEW k \in Handlers, pc'[k] = "outgoing"
             PROVE  /\ {v \in Users : seen'[k].place[v] = "incoming" /\ v \notin seen'[k].changed}
                         \subseteq call'[k].incoming
                    /\ call'[k].friends \cap call'[k].incoming \subseteq seen'[k].parted
                    /\ \A v \in call'[k].incoming \ seen'[k].parted :
                         TieIn(friends', pending', call'[k].by, v) \in {"incoming", "friends"}
  BY DEF IncomingListed, Holds, Tie
<1>0. pc'[k] \in ListSteps /\ pc'[k] # "friends"
  BY DEF ListSteps
<1>1. CASE pc'[k] = pc[k] /\ call'[k] = call[k] /\ ~Begins(k)
  <2>1. Running(k)
    BY <1>1 DEF Running
  <2>2. call[k].incoming \subseteq Users
    BY DEF TypeOK, CallRecord
  <2>3. seen[k].parted \subseteq seen'[k].parted
    BY <1>1, RowsKept
  <2>4. /\ Holds(k, "incoming") \subseteq call[k].incoming
        /\ call[k].friends \cap call[k].incoming \subseteq seen[k].parted
        /\ \A v \in call[k].incoming \ seen[k].parted : Tie(call[k].by, v) \in {"incoming", "friends"}
    BY <1>1 DEF IncomingListed
  <2>5. \A v \in call[k].incoming \ seen'[k].parted :
          TieIn(friends', pending', call[k].by, v) \in {"incoming", "friends"}
    BY <2>1, <2>2, <2>3, <2>4, TiesNoted
  <2> QED BY <1>1, <2>3, <2>4, <2>5, HoldsLess
<1>2. CASE List(k)
  <2>1. /\ pc[k] = "incoming" /\ call'[k].friends = call[k].friends /\ call'[k].by = call[k].by
        /\ call'[k].incoming = IncomingPending(call[k].by) /\ UNCHANGED <<rows, graph, seen>>
    BY <1>2, ListReads
  <2>2. \A v \in Users \ seen[k].changed : seen[k].place[v] = Place(call[k].by, v)
    BY <2>1 DEF Placed, ListSteps
  <2>3. \A v \in Users : Place(call[k].by, v) = "incoming" => v \in IncomingPending(call[k].by)
    BY DEF Place, Tie, TieIn, IncomingPending
  <2>4. call[k].by \in Users /\ call[k].friends \subseteq Users
    BY <2>1 DEF Shape, Running, TypeOK, CallRecord
  <2>5. \A v \in call[k].friends \ seen[k].parted : <<call[k].by, v>> \in friends
    BY <2>1 DEF FriendsListed, Tie, TieIn
  <2>6. \A v \in call[k].friends \ seen[k].parted : v \notin IncomingPending(call[k].by)
    BY <2>4, <2>5 DEF Apart, IncomingPending
  <2>7. \A v \in IncomingPending(call[k].by) :
          TieIn(friends', pending', call[k].by, v) \in {"incoming", "friends"}
    BY <2>1, <2>4 DEF IncomingPending, TieIn, Apart, graph
  <2> QED BY <2>1, <2>2, <2>3, <2>6, <2>7
<1> QED BY <1>0, <1>1, <1>2, ListCases

LEMMA ListsAgreeStep ==
  ASSUME TypeOK, Shape, Locked, Apart, Placed, Unanswered, FriendsListed, IncomingListed, ListsAgree,
         [Next]_vars
  PROVE  ListsAgree'
<1>0. pc \in [Handlers -> Steps] /\ call \in [Handlers -> CallRecord]
  BY DEF TypeOK
<1> DEFINE Agreed(h) ==
      LET c == call[h] IN
      /\ (c.friends \cap (c.incoming \cup c.outgoing)) \cup (c.incoming \cap c.outgoing)
           \subseteq seen[h].parted
      /\ Holds(h, "friends") \subseteq c.friends
      /\ Holds(h, "incoming") \subseteq c.incoming
      /\ Holds(h, "outgoing") \subseteq c.outgoing
<1>1. ListsAgree <=> \A h \in Handlers : call[h].op = "list" /\ call[h].reply = "ok" => Agreed(h)
  BY DEF ListsAgree, Holds
<1>2. ListsAgree' <=> \A h \in Handlers : call'[h].op = "list" /\ call'[h].reply = "ok" => Agreed(h)'
  BY DEF ListsAgree, Holds
<1> SUFFICES ASSUME NEW k \in Handlers, call'[k].op = "list", call'[k].reply = "ok" PROVE Agreed(k)'
  BY <1>2
<1>3. CASE pc'[k] = pc[k] /\ call'[k] = call[k] /\ ~Begins(k)
  <2>1. pc[k] = "done" /\ Agreed(k)
    BY <1>1, <1>3 DEF Unanswered
  <2>2. seen'[k] = seen[k]
    BY <1>3, <2>1, RowsKept DEF Running
  <2> QED BY <1>3, <2>1, <2>2 DEF Holds
<1>4. CASE Begins(k)
  BY <1>0, <1>4 DEF Begins, Start, NoCall
<1>5. CASE List(k)
  <2>0. pc'[k] = "done"
    BY UnansweredStep DEF Unanswered
  <2>1. /\ pc[k] = "outgoing" /\ call'[k].friends = call[k].friends /\ call'[k].incoming = call[k].incoming
        /\ call'[k].outgoing = OutgoingPending(call[k].by) /\ UNCHANGED <<rows, graph, seen>>
    BY <1>5, <2>0, ListReads
  <2>2. \A v \in Users \ seen[k].changed : seen[k].place[v] = Place(call[k].by, v)
    BY <2>1 DEF Placed, ListSteps
  <2>3. \A v \in Users : Place(call[k].by, v) = "outgoing" => v \in OutgoingPending(call[k].by)
    BY DEF Place, Tie, TieIn, OutgoingPending
  <2>4. call[k].by \in Users /\ call[k].friends \subseteq Users /\ call[k].incoming \subseteq Users
    BY <2>1 DEF Shape, Running, TypeOK, CallRecord
  <2>5. Holds(k, "friends") \subseteq call[k].friends
        /\ \A v \in call[k].friends \ seen[k].parted : Tie(call[k].by, v) = "friends"
    BY <2>1 DEF FriendsListed
  <2>6. /\ Holds(k, "incoming") \subseteq call[k].incoming
        /\ call[k].friends \cap call[k].incoming \subseteq seen[k].parted
        /\ \A v \in call[k].incoming \ seen[k].parted : Tie(call[k].by, v) \in {"incoming", "friends"}
    BY <2>1 DEF IncomingListed
  <2>7. \A v \in OutgoingPending(call[k].by) : Tie(call[k].by, v) = "outgoing"
    BY <2>4 DEF OutgoingPending, Tie, TieIn, Apart
  <2>8. (call[k].friends \cup call[k].incoming) \cap OutgoingPending(call[k].by) \subseteq seen[k].parted
    BY <2>5, <2>6, <2>7
  <2>9. Holds(k, "outgoing") \subseteq OutgoingPending(call[k].by)
    BY <2>2, <2>3 DEF Holds
  <2>10. Agreed(k)' <=>
          /\ (call[k].friends \cap (call[k].incoming \cup OutgoingPending(call[k].by)))
               \cup (call[k].incoming \cap OutgoingPending(call[k].by)) \subseteq seen[k].parted
          /\ Holds(k, "friends") \subseteq call[k].friends
          /\ Holds(k, "incoming") \subseteq call[k].incoming
          /\ Holds(k, "outgoing") \subseteq OutgoingPending(call[k].by)
    BY <2>1 DEF Holds
  <2> HIDE DEF Agreed
  <2> QED BY <2>5, <2>6, <2>8, <2>9, <2>10
<1>6. CASE ReadOnly(k) \/ Update(k) \/ Delete(k) \/ Insert(k) \/ Commit(k) \/ StoreError(k)
  <2>1. call[k].op = "list"
    BY <1>0, <1>6, HandlerSteps DEF Goes
  <2>2. pc'[k] = "done"
    BY UnansweredStep DEF Unanswered
  <2>3. ASSUME NEW answer, answer # "ok", Reply(k, call[k], answer) PROVE FALSE
    BY <1>0, <2>3 DEF Reply, CallRecord
  <2>4. ~StoreError(k) /\ ~Refuse(k)
    BY <2>3 DEF StoreError, Refuse
  <2>5. pc[k] \notin ReadSteps \cup WriteSteps
    BY <2>1 DEF Shape
  <2>6. List(k)
    BY <1>6, <2>4, <2>5 DEF ReadOnly, Update, Delete, Insert, Read, Commit, ReadLogin, ReadRow, ReadPets,
         IsBlockedEitherWay, AreFriends, PendingBetween, FriendStatus, ReadSteps, WriteSteps, HeldSteps
  <2> QED BY <1>5, <2>6
<1> QED BY <1>3, <1>4, <1>6, CallCases

--------------------------------------------------------------------------------
\* The theorems.

\* All of it, as one inductive invariant.
DataInv ==
  /\ TypeOK /\ Shape
  /\ Locked /\ Taken /\ OneEditStored
  /\ Unanswered /\ Whole
  /\ Noted /\ Apart /\ Placed /\ FriendsListed /\ IncomingListed /\ ListsAgree

LEMMA DataInit == Init => DataInv
<1> SUFFICES ASSUME Init PROVE DataInv
  OBVIOUS
<1>1. TypeOK
  BY TypeInit
<1>2. Shape /\ Locked /\ Taken
  BY DEF Init, Shape, Locked, Taken, NoCall, Running, ReadSteps, WriteSteps, HeldSteps, ListSteps
<1>3. OneEditStored
  BY ProfileDataAssumption DEF Init, OneEditStored, PetsOf, Handlers
<1>4. Noted
  BY DEF Init, Noted, NoCall, Running
<1>5. Unanswered /\ Whole /\ ListsAgree
  BY DEF Init, Unanswered, Whole, ListsAgree, NoCall, StatusSteps
<1>6. Apart /\ Placed /\ FriendsListed /\ IncomingListed
  BY DEF Init, Rules!Init, Apart, Placed, FriendsListed, IncomingListed, ListSteps
<1> QED BY <1>1, <1>2, <1>3, <1>4, <1>5, <1>6 DEF DataInv

LEMMA DataStep == DataInv /\ [Next]_vars => DataInv'
BY TypeStep, ShapeStep, LockedStep, TakenStep, StoredStep, NotedStep, UnansweredStep, WholeStep,
   ApartStep, PlacedStep, FriendsListedStep, IncomingListedStep, ListsAgreeStep DEF DataInv

LEMMA Data == Spec => []DataInv
BY DataInit, DataStep, PTL DEF Spec

\* Tables, calls and history keep their types under every statement of
\* profiles.go and every RPC of profiles_server.go that reads them.
THEOREM TypeCorrect == Spec => []TypeOK
<1>1. DataInv => TypeOK
  BY DEF DataInv
<1> QED BY <1>1, Data, PTL

\* UpdateProfile, with its row lock, stores one edit whole or not at all, and
\* CreateProfile does not undo one: rows and pets of a user are those of one call.
THEOREM OneEdit == Spec => []OneEditStored
<1>1. DataInv => OneEditStored
  BY DEF DataInv
<1> QED BY <1>1, Data, PTL

\* GetUserInfo, FindUserByLogin and EditUser show the row and the pets of one edit,
\* although GetProfile reads them in two statements, unless another edit of that
\* user committed meanwhile; EditUser then shows what it wrote itself.
THEOREM EditShown == Spec => []OneEditShown
<1>1. DataInv => OneEditShown
  BY DEF DataInv, Whole, OneEditShown
<1> QED BY <1>1, Data, PTL

\* ListFriends' three queries show nobody twice whose tie was not cut between them,
\* and everyone whose tie and row did not change.
THEOREM ListsAreOne == Spec => []ListsAgree
<1>1. DataInv => ListsAgree
  BY DEF DataInv
<1> QED BY <1>1, Data, PTL

\* Every way out of UpdateProfile releases the row.
THEOREM Released == Spec => []RowsReleased
<1>1. DataInv => RowsReleased
  <2> SUFFICES ASSUME DataInv, NEW u \in Users, lock[u] # None
               PROVE  Running(lock[u]) /\ call[lock[u]].by = u
    BY DEF RowsReleased
  <2> QED BY DEF DataInv, Locked, HeldSteps, Running
<1> QED BY <1>1, Data, PTL

\* GetUserInfo and FindUserByLogin give contact data to oneself and to those who
\* were friends at some moment of the call.
THEOREM Contacts == Spec => []ContactsForFriends
<1>1. DataInv => ContactsForFriends
  <2> SUFFICES ASSUME DataInv, NEW h \in Handlers, call[h].reply = "ok", call[h].op # "list", HasPii(call[h])
               PROVE  /\ call[h].op # "find"
                      /\ call[h].by = call[h].of \/ call[h].of \in seen[h].met
    BY DEF ContactsForFriends
  <2>1. CASE call[h].op = "edit"
    BY <2>1 DEF DataInv, Shape
  <2>2. CASE call[h].op # "edit"
    BY <2>2 DEF HasPii, DataInv, Noted
  <2> QED BY <2>1, <2>2
<1> QED BY <1>1, Data, PTL
================================================================================
