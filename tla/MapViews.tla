-------------------------------- MODULE MapViews -------------------------------
(***************************************************************************)
(* What the Map service answers: LoadMap, GetMapObject, FriendsPresence    *)
(* and the view that ends ChangeMapObjectStatus, each put together from    *)
(* several reads of Valkey while visits come and go (Presence), keys lapse *)
(* and Profiles rewrites friends:{caller}.  One answer is followed at a    *)
(* time, for one caller.                                                   *)
(*                                                                         *)
(* Rows of map_objects are written by imports only and stand as constants. *)
(* A fact is a triple: a user is counted at an object, holds a presence    *)
(* there, is both counted there and the caller's friend, or is the         *)
(* caller's friend.                                                        *)
(***************************************************************************)
EXTENDS Presence

CONSTANTS Caller,   \* the owner of the session
          Unknown,  \* an id no object has
          Changes   \* bounds the model: steps of others while an answer is put together

ASSUME MapViewsAssumption ==
  /\ Caller \in Users /\ IsFiniteSet(Users)
  /\ Unknown \notin Objects \cup {None}
  /\ Changes \in Nat

VARIABLES friends,      \* friends:{Caller}, which Profiles writes
          view,         \* the answer in progress
          ever, steady, \* history: facts true at some moment of it, at every moment of it
          changes       \* steps of others so far

answer   == <<view, ever, steady, changes>>
viewVars == <<vars, friends, answer>>

NoView == [op |-> "none", at |-> "idle", todo |-> {}, object |-> None, own |-> None,
           scope |-> {}, shown |-> {}, count |-> [o \in Objects |-> 0], failed |-> FALSE]

Fact(kind, u, o) == <<kind, <<u, o>>>>

\* The facts an answer is about: of the friends, or of the objects in its scope.
Facts(op, scope) ==
  IF op = "friends"
  THEN {Fact("friend", f, None) : f \in friends}
         \cup {Fact("held", f, presence[f]) : f \in {g \in Users \ {Caller} : presence[g] # None}}
  ELSE UNION {{Fact("counted", u, o) : u \in visitors[o]}
                \cup {Fact("here", f, o) : f \in visitors[o] \cap friends}
                \cup (IF presence[Caller] = o THEN {Fact("held", Caller, o)} ELSE {})
              : o \in scope \cap Objects}

ViewInit == Init /\ friends = {} /\ view = NoView /\ ever = {} /\ steady = {}
            /\ changes = 0

--------------------------------------------------------------------------------
\* Control.

Reads == UNCHANGED <<vars, friends>>

\* A call begins; what is true now has been true at every moment of it.
Ask(op, at, scope) ==
  /\ view.at = "idle"
  /\ view' = [NoView EXCEPT !.op = op, !.at = at, !.scope = scope, !.todo = scope]
  /\ ever' = Facts(op, scope) /\ steady' = Facts(op, scope)
  /\ changes' = 0

At(step) == view.at = step /\ UNCHANGED <<ever, steady, changes>> /\ Reads

\* The call ends without an answer.
End(code) ==
  /\ view' = [NoView EXCEPT !.op = view.op, !.at = code]
  /\ ever' = {} /\ steady' = {} /\ changes' = 0
  /\ Reads

LoadMap(near)      == Ask("load", "session", near) /\ Reads
GetMapObject(id)   == Ask("get", "session", {id}) /\ Reads
FriendsPresence    == Ask("friends", "session", {}) /\ Reads

\* The caller's own call has changed the presence and goes on to its view.
StatusView(h) ==
  /\ call[h].by = Caller /\ call[h].ok
  /\ Ask("status", "own", {call[h].object})
  /\ Return(h) /\ UNCHANGED <<env, friends>>

\* callerID: no session, an expired one, or an error of Valkey.
Unauthenticated == view.at = "session" /\ End("unauthenticated")

Authenticated ==
  /\ At("session")
  /\ view' = [view EXCEPT !.at = IF view.op = "friends" THEN "friends" ELSE "objects"]

\* ObjectsWithin, or ObjectByID; coordinates out of range count as no answer.
FindObjects ==
  IF view.scope \subseteq Objects
  THEN At("objects") /\ view' = [view EXCEPT !.at = "own"]
  ELSE view.at = "objects" /\ End("not_found")

\* An error of any read but that of the caller's own presence ends the call.
ReadFails ==
  /\ view.at \in {"objects", "count", "sinter", "friends", "presence"}
  /\ End("internal")

\* The answer is sent; what others do next comes after it.
Over == view.at \in {"unauthenticated", "not_found", "internal", "done"}

Answered ==
  /\ Over
  /\ view' = NoView /\ ever' = {} /\ steady' = {} /\ changes' = 0
  /\ Reads

--------------------------------------------------------------------------------
\* LoadMap, GetMapObject, ChangeMapObjectStatus.

\* One read of the caller's presence for all objects; an error counts as none.
ReadOwn ==
  /\ At("own")
  /\ \/ view' = [view EXCEPT !.at = "count", !.own = presence[Caller]]
     \/ view' = [view EXCEPT !.at = "count", !.failed = TRUE]

\* view: SCARD, then SINTER, object by object.
VisitorCount ==
  /\ At("count")
  /\ IF view.todo = {} THEN view' = [view EXCEPT !.at = "done"]
     ELSE \E o \in view.todo :
            view' = [view EXCEPT !.at = "sinter", !.object = o, !.todo = @ \ {o},
                                 !.count[o] = Cardinality(visitors[o])]

\* Mutant of Viewing: the presence is looked up for every object.
ViewingNow(o) == presence[Caller] = o

Viewing(o) == view.own = o

\* Mutant of FriendIDsHere: the visitors, whoever they are.
AnyoneHere(o) == visitors[o] \ {Caller}

FriendIDsHere(o) == visitors[o] \cap friends

Sinter ==
  LET o == view.object IN
  /\ At("sinter")
  /\ view' = [view EXCEPT !.at = "count", !.object = None,
                !.shown = @ \cup {Fact("here", f, o) : f \in FriendIDsHere(o)}
                            \cup (IF Viewing(o) THEN {Fact("held", Caller, o)} ELSE {})]

--------------------------------------------------------------------------------
\* FriendsPresence.

ReadFriends ==
  /\ At("friends")
  /\ view' = [view EXCEPT !.at = "presence", !.todo = friends]

\* Mutant of Left: the loop ends at a friend who is not on a walk.
LeftBroken(f) == IF presence[f] = None THEN {} ELSE view.todo \ {f}

Left(f) == view.todo \ {f}

\* A friend without a live presence is passed over.
FriendAt ==
  /\ At("presence")
  /\ IF view.todo = {} THEN view' = [view EXCEPT !.at = "done"]
     ELSE \E f \in view.todo :
            view' = [view EXCEPT !.todo = Left(f),
                       !.shown = IF presence[f] = None THEN @
                                 ELSE @ \cup {Fact("held", f, presence[f]), Fact("friend", f, None)}]

--------------------------------------------------------------------------------
\* SetFriends of Profiles: its DEL, or its SADD of whatever it read.
SetFriends ==
  /\ friends' \in SUBSET (Users \ {Caller})
  /\ UNCHANGED <<vars, view>>

\* One call of a user at a time: the view is part of the caller's call.
Visits ==
  /\ Next
  /\ (view.op = "status" /\ "overlap" \notin env) =>
       \A h \in Handlers : call'[h].by = Caller => call[h].by = Caller
  /\ UNCHANGED <<friends, view>>

\* What happens to an answer while it is put together.
Noted ==
  ~Over /\
  IF view.at = "idle" THEN UNCHANGED <<ever, steady, changes>>
  ELSE /\ changes < Changes /\ changes' = changes + 1
       /\ ever' = ever \cup Facts(view.op, view.scope)'
       /\ steady' = steady \cap Facts(view.op, view.scope)'

Progress ==
  \/ Unauthenticated \/ Authenticated \/ FindObjects \/ ReadOwn \/ VisitorCount \/ Sinter
  \/ ReadFriends \/ FriendAt \/ ReadFails \/ Answered

ViewNext ==
  \/ (Visits \/ SetFriends) /\ Noted
  \/ \E near \in SUBSET Objects : LoadMap(near)
  \/ \E id \in Objects \cup {Unknown} : GetMapObject(id)
  \/ FriendsPresence
  \/ \E h \in Handlers : StatusView(h)
  \/ Progress

ViewSpec == ViewInit /\ [][ViewNext]_viewVars

--------------------------------------------------------------------------------
FactSet == {"counted", "held", "here", "friend"} \X (Users \X (Objects \cup {None}))

ViewRecord == [op : {"none", "load", "get", "friends", "status"},
               at : {"idle", "session", "objects", "own", "count", "sinter", "friends", "presence",
                     "unauthenticated", "not_found", "internal", "done"},
               todo : SUBSET (Users \cup Objects \cup {Unknown}),
               object : Objects \cup {None}, own : Objects \cup {None},
               scope : SUBSET (Objects \cup {Unknown}), shown : SUBSET FactSet,
               count : [Objects -> 0..Cardinality(Users)], failed : BOOLEAN]

\* The type invariant.
ViewTypeOK ==
  /\ TypeOK
  /\ friends \subseteq Users \ {Caller}
  /\ view \in ViewRecord
  /\ ever \subseteq FactSet /\ steady \subseteq FactSet
  /\ changes \in 0..Changes

CountedAt(facts, o) == Cardinality({u \in Users : Fact("counted", u, o) \in facts})

\* An answer shows nothing that was not true at some moment of the call: a friend at
\* an object was the caller's friend and counted there at once, a friend on a walk
\* was a friend and held that presence, a count was between what was counted all
\* the time and what was counted at any time, although the reads are apart.
ShownIsTrue == view.at = "done" =>
  /\ view.shown \subseteq ever
  /\ view.op # "friends" => \A o \in view.scope :
       CountedAt(steady, o) <= view.count[o] /\ view.count[o] <= CountedAt(ever, o)

\* What was true at every moment of the call is shown: the friends who stayed, and
\* the caller's own presence, so that VISITING answers viewer_visiting unless the
\* key lapsed or could not be read.
SteadyIsShown == view.at = "done" =>
  \A u \in Users, o \in Objects :
    IF view.op = "friends"
    THEN {Fact("friend", u, None), Fact("held", u, o)} \subseteq steady
           => Fact("held", u, o) \in view.shown
    ELSE o \in view.scope =>
           /\ Fact("here", u, o) \in steady => Fact("here", u, o) \in view.shown
           /\ Fact("held", Caller, o) \in steady /\ ~view.failed
                => Fact("held", Caller, o) \in view.shown

\* An answer shows a user at one object only, the caller and the friends of
\* FriendsPresence, also when they move while it is put together.
ShownOnce == view.at = "done" =>
  \A u \in Users : Cardinality({o \in Objects : Fact("held", u, o) \in view.shown}) <= 1
================================================================================
