------------------------------ MODULE ProfileData ------------------------------
(***************************************************************************)
(* The profiles themselves: the tables profiles and pets, UpdateProfile's  *)
(* transaction by statements, CreateProfile, and what GetUserInfo,         *)
(* FindUserByLogin, EditUser and ListFriends put together from several     *)
(* reads of tables that change meanwhile.                                  *)
(*                                                                         *)
(* The content of a row is the call that wrote it.  A transaction's writes *)
(* are seen by others when it commits; a statement reads what is committed *)
(* when it starts (READ COMMITTED).  The friend graph changes under the    *)
(* reads by the rules of FriendRules, one change at a time; FriendGraph    *)
(* has the handlers that change it.                                        *)
(***************************************************************************)
EXTENDS Integers, Sequences, FiniteSets

CONSTANTS Users,     \* user ids; a user's login is immutable and stands for the user
          Editors, Readers,  \* the calls of EditUser, and of the RPCs that read; each is made once
          None,      \* no user, no call, no row
          Seed,      \* the content CreateProfile gives a row
          Envs       \* environments to consider: sets of Happenings

\* graph: the friend graph changes.  edits: profiles do.  store_error: a statement
\* fails.
Happenings == {"graph", "edits", "store_error"}

Handlers == Editors \cup Readers

ASSUME ProfileDataAssumption ==
  /\ None \notin Users \cup Handlers \cup {Seed}
  /\ Seed \notin Handlers
  /\ Editors \cap Readers = {}
  /\ Envs \subseteq SUBSET Happenings

VARIABLES rows,                       \* profiles: the call a user's row was last written by
          pets,                       \* pets: the rows of each user, by the call that inserted them
          lock,                       \* the transaction that holds a user's row
          friends, pending, blocked,  \* the friend graph
          pc,                         \* the statement a handler runs next
          call,                       \* its arguments, what it read, its reply
          seen,                       \* history: what happened to others' rows during the call
          env

tables == <<rows, pets, lock>>
graph  == <<friends, pending, blocked>>
vars   == <<tables, graph, pc, call, seen, env>>

Rules == INSTANCE FriendRules

Contents  == Editors \cup {Seed}
\* An edit brings two pets; the row of CreateProfile has none.
PetsOf(c) == IF c \in Editors THEN {c} \X {1, 2} ELSE {}

NoCall == [op |-> "none", by |-> None, of |-> None, row |-> None, pets |-> {},
           status |-> "NONE", friends |-> {}, incoming |-> {}, outgoing |-> {}, reply |-> "none"]
Nothing == [met |-> {}, parted |-> {}, changed |-> {}, edited |-> {},
            place |-> [v \in Users |-> "none"]]

Init ==
  /\ rows \in [Users -> {None, Seed}]
  /\ pets = [u \in Users |-> {}]
  /\ lock = [u \in Users |-> None]
  /\ Rules!Init
  /\ pc = [h \in Handlers |-> "idle"]
  /\ call = [h \in Handlers |-> NoCall]
  /\ seen = [h \in Handlers |-> Nothing]
  /\ env \in Envs

--------------------------------------------------------------------------------
\* Control.

Running(h) == pc[h] \notin {"idle", "done"}

Goto(h, step) == pc' = [pc EXCEPT ![h] = step]

Reply(h, c, r) == Goto(h, "done") /\ call' = [call EXCEPT ![h] = [c EXCEPT !.reply = r]]

TieIn(friendSet, requestSet, u, v) ==
  IF <<u, v>> \in friendSet THEN "friends"
  ELSE IF <<u, v>> \in requestSet THEN "outgoing"
  ELSE IF <<v, u>> \in requestSet THEN "incoming" ELSE "none"

Tie(u, v) == TieIn(friends, pending, u, v)

\* The list that v belongs to; a friend without a row is in none.
Place(u, v) == IF Tie(u, v) = "friends" /\ rows[v] = None THEN "none" ELSE Tie(u, v)

\* A read at one step, noted in the call, and the next step.
Read(h, step, c, next) ==
  /\ pc[h] = step
  /\ Goto(h, next)
  /\ call' = [call EXCEPT ![h] = c]
  /\ UNCHANGED <<tables, graph, seen>>

Start(h, op, u, v, step) ==
  /\ pc[h] = "idle"
  /\ Goto(h, step)
  /\ call' = [call EXCEPT ![h] = [NoCall EXCEPT !.op = op, !.by = u, !.of = v]]
  /\ seen' = [seen EXCEPT ![h].met   = {w \in Users : <<u, w>> \in friends},
                          ![h].place = [w \in Users |-> Place(u, w)]]
  /\ UNCHANGED <<tables, graph>>

\* Mutant of Statements: the pets are deleted before the row is locked.
DeleteFirst == <<"delete", "update", "insert", "commit">>

Statements == <<"update", "delete", "insert", "commit">>

Then(step) == Statements[1 + CHOOSE i \in DOMAIN Statements : Statements[i] = step]

GetUserInfo(h, u, v)     == Start(h, "info", u, v, "row")
FindUserByLogin(h, u, v) == Start(h, "find", u, v, "login")
EditUser(h, u)           == "edits" \in env /\ Start(h, "edit", u, u, Statements[1])

\* Mutant of ListOrder: the waiting requests before the friends.
RequestsFirst == <<"incoming", "outgoing", "friends", "done">>

ListOrder == <<"friends", "incoming", "outgoing", "done">>

NextList(step) == ListOrder[1 + CHOOSE i \in DOMAIN ListOrder : ListOrder[i] = step]

ListFriends(h, u) == Start(h, "list", u, None, ListOrder[1])

\* No session, no target, a pet that is not valid.
Refuse(h) ==
  /\ pc[h] = "idle"
  /\ h \in Editors => "edits" \in env
  /\ Reply(h, call[h], "refused")
  /\ UNCHANGED <<tables, graph, seen>>

\* Mutant of Rollback: there is no deferred Rollback.
RollbackNever(h) == lock

Rollback(h) == [u \in Users |-> IF lock[u] = h THEN None ELSE lock[u]]

\* A statement fails; the deferred Rollback gives up what the transaction did.  A
\* COMMIT may fail after it took effect: see Commit.
StoreError(h) ==
  /\ "store_error" \in env
  /\ Running(h)
  /\ Reply(h, call[h], "internal")
  /\ lock' = Rollback(h)
  /\ UNCHANGED <<rows, pets, graph, seen>>

--------------------------------------------------------------------------------
\* The writes.

\* ON CONFLICT (user_id) DO NOTHING.  Auth calls it once for an account and again
\* when it did not hear.
\* Mutant of Created: DO UPDATE.
CreatedAgain(u) == Seed

Created(u) == IF rows[u] = None THEN Seed ELSE rows[u]

CreateProfile(u) ==
  /\ rows' = [rows EXCEPT ![u] = Created(u)]
  /\ seen' = [h \in Handlers |-> IF Running(h) /\ rows[u] = None
                                 THEN [seen[h] EXCEPT !.changed = @ \cup {u}] ELSE seen[h]]
  /\ UNCHANGED <<pets, lock, graph, pc, call>>

\* UPDATE waits for the row and keeps it; no row is ErrNotFound.
\* Mutant of Update: outside the transaction, seen by others at once.
UpdateAtOnce(h) ==
  LET u == call[h].by IN
  /\ pc[h] = "update"
  /\ lock[u] = None
  /\ IF rows[u] = None
     THEN Reply(h, call[h], "not_found") /\ UNCHANGED <<rows, lock>>
     ELSE Goto(h, Then("update")) /\ lock' = [lock EXCEPT ![u] = h]
          /\ rows' = [rows EXCEPT ![u] = h] /\ UNCHANGED call
  /\ UNCHANGED <<pets, graph, seen>>

Update(h) ==
  LET u == call[h].by IN
  /\ pc[h] = "update"
  /\ lock[u] = None
  /\ IF rows[u] = None
     THEN Reply(h, call[h], "not_found") /\ UNCHANGED lock
     ELSE Goto(h, Then("update")) /\ lock' = [lock EXCEPT ![u] = h] /\ UNCHANGED call
  /\ UNCHANGED <<rows, pets, graph, seen>>

\* The DELETE takes the rows that are committed now; they are gone at COMMIT.
Delete(h) == Read(h, "delete", [call[h] EXCEPT !.pets = pets[call[h].by]], Then("delete"))

Insert(h) == Read(h, "insert", call[h], Then("insert"))

\* Mutants of Committed: the row names its user; the function returns without COMMIT.
CommittedUser(h) == rows' = [rows EXCEPT ![call[h].by] = call[h].by] /\ UNCHANGED pets
CommittedNever(h) == UNCHANGED <<rows, pets>>

Committed(h) ==
  LET u == call[h].by IN
  /\ rows' = [rows EXCEPT ![u] = h]
  /\ pets' = [pets EXCEPT ![u] = (@ \ call[h].pets) \cup PetsOf(h)]

\* COMMIT, heard of or not; then EditUser reads the profile back.
Commit(h) ==
  LET u == call[h].by IN
  /\ pc[h] = "commit"
  /\ Committed(h)
  /\ lock' = [lock EXCEPT ![u] = None]
  /\ seen' = [k \in Handlers |-> IF Running(k) /\ k # h
                                 THEN [seen[k] EXCEPT !.edited = @ \cup {u}] ELSE seen[k]]
  /\ \/ Goto(h, "row") /\ call' = [call EXCEPT ![h].pets = {}]
     \/ "store_error" \in env /\ Reply(h, call[h], "internal")
  /\ UNCHANGED graph

--------------------------------------------------------------------------------
\* The reads.

\* GetProfileByLogin.
ReadLogin(h) ==
  /\ pc[h] = "login"
  /\ IF rows[call[h].of] = None THEN Reply(h, call[h], "not_found")
     ELSE Goto(h, "row") /\ UNCHANGED call
  /\ UNCHANGED <<tables, graph, seen>>

\* GetProfile: the row, then the pets.
ReadRow(h) ==
  LET row == rows[call[h].of] IN
  /\ pc[h] = "row"
  /\ IF row = None
     THEN Reply(h, call[h], IF call[h].op = "edit" THEN "internal" ELSE "not_found")
     ELSE Goto(h, "pets") /\ call' = [call EXCEPT ![h].row = row]
  /\ UNCHANGED <<tables, graph, seen>>

ReadPets(h) ==
  LET c == [call[h] EXCEPT !.pets = pets[call[h].of]] IN
  /\ pc[h] = "pets"
  /\ IF c.by = c.of THEN Reply(h, c, "ok")
     ELSE Goto(h, "is_blocked") /\ call' = [call EXCEPT ![h] = c]
  /\ UNCHANGED <<tables, graph, seen>>

\* friendStatus: three reads, the block first.
FriendStatus(h, step, holds, status, next) ==
  /\ pc[h] = step
  /\ IF holds THEN Reply(h, [call[h] EXCEPT !.status = status], "ok")
     ELSE IF next = "done" THEN Reply(h, call[h], "ok")
     ELSE Goto(h, next) /\ UNCHANGED call
  /\ UNCHANGED <<tables, graph, seen>>

Ask(h) == <<call[h].by, call[h].of>>
Asked(h) == <<call[h].of, call[h].by>>

IsBlockedEitherWay(h) ==
  FriendStatus(h, "is_blocked", {Ask(h), Asked(h)} \cap blocked # {}, "BLOCKED", "are_friends")
AreFriends(h) ==
  FriendStatus(h, "are_friends", Ask(h) \in friends, "FRIENDS", "pending_between")
PendingBetween(h) ==
  FriendStatus(h, "pending_between", {Ask(h), Asked(h)} \cap pending # {},
               IF Ask(h) \in pending THEN "PENDING_OUT" ELSE "PENDING_IN", "done")

\* Mutant of HasPii: everyone who is not blocked or a stranger.
HasPiiAsked(c) == c.op = "info" /\ (c.by = c.of \/ c.status \notin {"NONE", "BLOCKED"})

\* The contact data that GetUserInfo adds to the reduced view.
HasPii(c) == c.op = "edit" \/ (c.op = "info" /\ (c.by = c.of \/ c.status = "FRIENDS"))

\* ListFriends' three queries: a JOIN of profiles for the friends, a LEFT JOIN for
\* the requests.
Known == {v \in Users : rows[v] # None}

Friends(u) == {v \in Known : <<u, v>> \in friends}

IncomingPending(u) == {v \in Users : <<v, u>> \in pending}

\* Mutant of OutgoingPending: a JOIN.
OutgoingKnown(u)   == {v \in Known : <<u, v>> \in pending}
OutgoingPending(u) == {v \in Users : <<u, v>> \in pending}

List(h) ==
  LET u == call[h].by
      c == [call[h] EXCEPT !.reply = IF NextList(pc[h]) = "done" THEN "ok" ELSE @] IN
  \/ Read(h, "friends", [c EXCEPT !.friends = Friends(u)], NextList("friends"))
  \/ Read(h, "incoming", [c EXCEPT !.incoming = IncomingPending(u)], NextList("incoming"))
  \/ Read(h, "outgoing", [c EXCEPT !.outgoing = OutgoingPending(u)], NextList("outgoing"))

--------------------------------------------------------------------------------
\* The friend graph changes; the calls in progress note it.
GraphChanges ==
  /\ "graph" \in env
  /\ Rules!Next
  /\ seen' = [h \in Handlers |->
       LET by       == call[h].by
           After(v) == TieIn(friends', pending', by, v)
       IN IF ~Running(h) THEN seen[h]
          ELSE [seen[h] EXCEPT
                  !.met     = @ \cup {v \in Users : After(v) = "friends"},
                  !.parted  = @ \cup {v \in Users : Tie(by, v) # "none" /\ After(v) = "none"},
                  !.changed = @ \cup {v \in Users : After(v) # Tie(by, v)}]]
  /\ UNCHANGED <<tables, pc, call>>

Handle(h) ==
  \/ Update(h) \/ Delete(h) \/ Insert(h) \/ Commit(h)
  \/ ReadLogin(h) \/ ReadRow(h) \/ ReadPets(h)
  \/ IsBlockedEitherWay(h) \/ AreFriends(h) \/ PendingBetween(h)
  \/ List(h) \/ StoreError(h)

Next ==
  /\ \/ GraphChanges
     \/ \E u \in Users : CreateProfile(u)
     \/ \E h \in Handlers : Refuse(h) \/ Handle(h)
     \/ \E h \in Editors, u \in Users : EditUser(h, u)
     \/ \E h \in Readers, u, v \in Users :
          GetUserInfo(h, u, v) \/ FindUserByLogin(h, u, v) \/ ListFriends(h, u)
  /\ UNCHANGED env

Spec == Init /\ [][Next]_vars

--------------------------------------------------------------------------------
Steps == {"idle", "login", "row", "pets", "is_blocked", "are_friends", "pending_between",
          "update", "delete", "insert", "commit", "friends", "incoming", "outgoing", "done"}

CallRecord == [op : {"none", "info", "find", "edit", "list"},
               by : Users \cup {None}, of : Users \cup {None},
               row : Contents \cup {None}, pets : SUBSET (Editors \X {1, 2}),
               status : {"NONE", "BLOCKED", "FRIENDS", "PENDING_OUT", "PENDING_IN"},
               friends : SUBSET Users, incoming : SUBSET Users, outgoing : SUBSET Users,
               reply : {"none", "ok", "refused", "not_found", "internal"}]

History == [met : SUBSET Users, parted : SUBSET Users, changed : SUBSET Users, edited : SUBSET Users,
            place : [Users -> {"none", "friends", "outgoing", "incoming"}]]

\* The type invariant.
TypeOK ==
  /\ rows \in [Users -> Contents \cup {None}]
  /\ pets \in [Users -> SUBSET (Editors \X {1, 2})]
  /\ lock \in [Users -> Editors \cup {None}]
  /\ {friends, pending, blocked} \subseteq SUBSET (Users \X Users)
  /\ pc \in [Handlers -> Steps]
  /\ call \in [Handlers -> CallRecord]
  /\ seen \in [Handlers -> History]
  /\ env \subseteq Happenings

\* The row and the pets of a user always come from the same call: edits of the same
\* user that overlap do not mix their pets, a failed edit leaves nothing behind, an
\* edit of a user without a row leaves no pets, and Auth repeating CreateProfile
\* does not reset an edited row.
OneEditStored == \A u \in Users :
  pets[u] = IF rows[u] = None THEN {} ELSE PetsOf(rows[u])

\* What a call that read a profile shows is what one call stored, unless another
\* edit of that user committed between its reads (GetProfile has no transaction of
\* its own); EditUser, which reads back after its COMMIT, then shows its own edit.
OneEditShown == \A h \in Handlers :
  LET c == call[h] IN
  (c.reply = "ok" /\ c.op # "list" /\ c.of \notin seen[h].edited) =>
    /\ c.pets = PetsOf(c.row)
    /\ c.op = "edit" => c.row = h

\* Contact data goes to oneself and to someone who was a friend at some moment of
\* the call, although the status is read in three statements after the profile;
\* the search by login gives it to nobody.
ContactsForFriends == \A h \in Handlers :
  LET c == call[h] IN
  (c.reply = "ok" /\ c.op # "list" /\ HasPii(c)) =>
    /\ c.op # "find"
    /\ c.by = c.of \/ c.of \in seen[h].met

\* ListFriends reads three times and shows nobody in two lists, unless the tie was
\* cut between the reads and another begun; someone whose tie (and row) did not
\* change is in the list it belongs to, a request also when the other has no row.
ListsAgree == \A h \in Handlers :
  LET c == call[h]
      In(list) == {v \in Users : seen[h].place[v] = list /\ v \notin seen[h].changed}
  IN (c.op = "list" /\ c.reply = "ok") =>
    /\ (c.friends \cap (c.incoming \cup c.outgoing)) \cup (c.incoming \cap c.outgoing)
         \subseteq seen[h].parted
    /\ In("friends") \subseteq c.friends
    /\ In("incoming") \subseteq c.incoming
    /\ In("outgoing") \subseteq c.outgoing

\* A row is locked only by an edit of its user that is still on its way: every way
\* out of UpdateProfile, an error included, ends the transaction, so that the next
\* edit does not wait for ever.
RowsReleased == \A u \in Users :
  lock[u] # None => Running(lock[u]) /\ call[lock[u]].by = u
================================================================================
