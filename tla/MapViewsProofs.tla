----------------------------- MODULE MapViewsProofs ----------------------------
(* Proofs about the answers of the Map service, for any users and objects and  *)
(* any number of steps of others between the reads.                            *)
EXTENDS MapViews, PresenceProofs, FiniteSetTheorems

--------------------------------------------------------------------------------
\* The invariants that the proofs rest on.

Codes    == {"unauthenticated", "not_found", "internal"}
Finding  == {"session", "objects", "own"}  \* before anything is read for an object
Reading  == {"count", "sinter"}
Followed == view.at \notin Codes \cup {"idle"}
OfFriends == view.op = "friends"

\* Which reads an answer has behind it.
ViewShape ==
  /\ view.at \in {"friends", "presence"} => OfFriends
  /\ view.at \in {"objects", "own"} \cup Reading => ~OfFriends
  /\ ~OfFriends /\ view.at \in {"own", "done"} \cup Reading => view.scope \subseteq Objects
  /\ ~OfFriends /\ Followed => view.todo \subseteq view.scope
  /\ view.at \in Finding /\ ~OfFriends => view.todo = view.scope
  /\ view.at \in Finding \cup {"friends"} => view.shown = {} /\ view.own = None
  /\ view.at = "sinter" => view.object \in view.scope \ view.todo
  /\ view.at = "done" => view.todo = {}

\* What is true now has been true at some moment, what was always true is true now.
History == Followed =>
  /\ Facts(view.op, view.scope) \subseteq ever
  /\ steady \subseteq Facts(view.op, view.scope)

\* What an answer shows was true at some moment.
ShownSofar == Followed => view.shown \subseteq ever

\* What was read of the caller's own presence.
OwnRead == ~OfFriends /\ view.at \in Reading \cup {"done"} => \A o \in view.scope :
  /\ view.own = o => Fact("held", Caller, o) \in ever
  /\ Fact("held", Caller, o) \in steady /\ ~view.failed => view.own = o

\* The objects whose visitors have been counted, and those whose friends have been read.
CountRead == ~OfFriends /\ Followed => \A o \in view.scope \ view.todo :
  CountedAt(steady, o) <= view.count[o] /\ view.count[o] <= CountedAt(ever, o)

Seen == IF view.at = "sinter" THEN (view.scope \ view.todo) \ {view.object}
        ELSE view.scope \ view.todo
HereRead == ~OfFriends /\ view.at \in Reading \cup {"done"} => \A o \in Seen, u \in Users :
  /\ Fact("here", u, o) \in steady => Fact("here", u, o) \in view.shown
  /\ Fact("held", Caller, o) \in steady /\ ~view.failed => Fact("held", Caller, o) \in view.shown
HeldOnce == ~OfFriends => \A u \in Users, o \in Objects :
  Fact("held", u, o) \in view.shown => u = Caller /\ o = view.own

\* The friends whose presence is still to be read, and those for whom it has been.
FriendsRead == OfFriends /\ view.at \in {"presence", "done"} =>
  /\ \A f \in view.todo : f \in Users \ {Caller} /\ Fact("friend", f, None) \in ever
  /\ \A u \in Users, o \in Objects :
       /\ {Fact("friend", u, None), Fact("held", u, o)} \subseteq steady =>
            u \in view.todo \/ Fact("held", u, o) \in view.shown
       /\ Fact("held", u, o) \in view.shown =>
            u \notin view.todo /\ \A p \in Objects : Fact("held", u, p) \in view.shown => p = o

\* All that is said of the answer.
AnswerInv ==
  /\ ViewTypeOK
  /\ ViewShape /\ History /\ ShownSofar /\ OwnRead /\ CountRead /\ HereRead /\ HeldOnce
  /\ FriendsRead

ViewInv == TypeInv /\ AnswerInv

--------------------------------------------------------------------------------
\* Facts.

LEMMA FactEqual ==
  ASSUME NEW k, NEW u, NEW o, NEW l, NEW v, NEW p, Fact(k, u, o) = Fact(l, v, p)
  PROVE  k = l /\ u = v /\ o = p
BY DEF Fact

LEMMA FactTyped ==
  ASSUME NEW k \in {"counted", "held", "here", "friend"}, NEW u \in Users,
         NEW o \in Objects \cup {None}
  PROVE  Fact(k, u, o) \in FactSet
BY DEF Fact, FactSet

\* The facts of an answer, one kind at a time.
LEMMA FriendFacts ==
  ASSUME NEW scope, NEW k, NEW u, NEW o
  PROVE  Fact(k, u, o) \in Facts("friends", scope) <=>
           \/ k = "friend" /\ u \in friends /\ o = None
           \/ k = "held" /\ u \in Users \ {Caller} /\ presence[u] # None /\ o = presence[u]
<1> DEFINE F == {Fact("friend", f, None) : f \in friends}
           H == {Fact("held", f, presence[f]) : f \in {g \in Users \ {Caller} : presence[g] # None}}
<1>1. Facts("friends", scope) = F \cup H
  BY DEF Facts
<1>2. Fact(k, u, o) \in F <=> k = "friend" /\ u \in friends /\ o = None
  BY FactEqual
<1>3. Fact(k, u, o) \in H <=>
        k = "held" /\ u \in Users \ {Caller} /\ presence[u] # None /\ o = presence[u]
  BY FactEqual
<1> QED BY <1>1, <1>2, <1>3

LEMMA ObjectFacts ==
  ASSUME NEW op, op # "friends", NEW scope, NEW k, NEW u, NEW o
  PROVE  Fact(k, u, o) \in Facts(op, scope) <=>
           /\ o \in scope \cap Objects
           /\ \/ k = "counted" /\ u \in visitors[o]
              \/ k = "here" /\ u \in visitors[o] \cap friends
              \/ k = "held" /\ u = Caller /\ presence[Caller] = o
<1> DEFINE C(p) == {Fact("counted", v, p) : v \in visitors[p]}
           H(p) == {Fact("here", f, p) : f \in visitors[p] \cap friends}
           P(p) == IF presence[Caller] = p THEN {Fact("held", Caller, p)} ELSE {}
<1>1. Facts(op, scope) = UNION {C(p) \cup H(p) \cup P(p) : p \in scope \cap Objects}
  BY DEF Facts
<1>2. ASSUME NEW p
      PROVE  /\ Fact(k, u, o) \in C(p) <=> k = "counted" /\ u \in visitors[p] /\ o = p
             /\ Fact(k, u, o) \in H(p) <=> k = "here" /\ u \in visitors[p] \cap friends /\ o = p
             /\ Fact(k, u, o) \in P(p) <=>
                  k = "held" /\ u = Caller /\ presence[Caller] = p /\ o = p
  BY FactEqual
<1> HIDE DEF C, H, P
<1>3. Fact(k, u, o) \in Facts(op, scope) <=>
        \E p \in scope \cap Objects : Fact(k, u, o) \in C(p) \cup H(p) \cup P(p)
  BY <1>1
<1> QED BY <1>2, <1>3

\* Every fact of an answer is one, and well typed.
LEMMA FactsTyped ==
  ASSUME TypeOK, friends \subseteq Users, NEW op, NEW scope
  PROVE  Facts(op, scope) \subseteq FactSet
<1> USE MapViewsAssumption DEF TypeOK
<1>1. CASE op = "friends"
  BY <1>1, FactTyped DEF Facts
<1>2. CASE op # "friends"
  <2>1. ASSUME NEW o \in scope \cap Objects
        PROVE  {Fact("counted", u, o) : u \in visitors[o]}
                 \cup {Fact("here", f, o) : f \in visitors[o] \cap friends}
                 \cup (IF presence[Caller] = o THEN {Fact("held", Caller, o)} ELSE {}) \subseteq FactSet
    BY FactTyped
  <2> QED BY <1>2, <2>1 DEF Facts
<1> QED BY <1>1, <1>2

LEMMA FactsOfView ==
  TypeOK /\ friends \subseteq Users \ {Caller} => Facts(view.op, view.scope) \subseteq FactSet
BY FactsTyped

\* What was counted grows with the facts, and is as many as the set that was read.
LEMMA CountedGrows ==
  ASSUME NEW F, NEW G, F \subseteq G, NEW o
  PROVE  CountedAt(F, o) <= CountedAt(G, o) /\ CountedAt(F, o) \in Nat /\ CountedAt(G, o) \in Nat
<1> DEFINE C(H) == {u \in Users : Fact("counted", u, o) \in H}
<1>1. IsFiniteSet(C(G)) /\ IsFiniteSet(C(F))
  BY FS_Subset, MapViewsAssumption
<1>2. C(F) \subseteq C(G)
  OBVIOUS
<1>3. Cardinality(C(F)) <= Cardinality(C(G)) /\ Cardinality(C(F)) \in Nat /\ Cardinality(C(G)) \in Nat
  BY <1>1, <1>2, FS_Subset, FS_CardinalityType
<1> QED BY <1>3 DEF CountedAt

LEMMA CountedNow ==
  ASSUME TypeOK, NEW op, op # "friends", NEW scope, NEW o \in scope \cap Objects
  PROVE  /\ CountedAt(Facts(op, scope), o) = Cardinality(visitors[o])
         /\ Cardinality(visitors[o]) \in 0..Cardinality(Users)
<1>1. visitors[o] \subseteq Users
  BY DEF TypeOK
<1>2. {u \in Users : Fact("counted", u, o) \in Facts(op, scope)} = visitors[o]
  BY <1>1, ObjectFacts
<1>3. Cardinality(visitors[o]) <= Cardinality(Users) /\ IsFiniteSet(visitors[o])
  BY <1>1, FS_Subset, MapViewsAssumption
<1>4. Cardinality(visitors[o]) \in Nat /\ Cardinality(Users) \in Nat
  BY <1>3, FS_CardinalityType, MapViewsAssumption
<1> QED BY <1>2, <1>3, <1>4 DEF CountedAt

--------------------------------------------------------------------------------
\* The steps of others.

LEMMA PresenceTypeStep ==
  ASSUME TypeInv, [ViewNext]_viewVars
  PROVE  TypeInv'
<1>1. CASE Next
  BY <1>1, TypeBegin, TypeStep, TypeRest DEF Next, Begin, vars
<1>2. CASE UNCHANGED vars
  BY <1>2, TypeRest DEF vars
<1>3. ASSUME NEW h \in Handlers, StatusView(h)
      PROVE  TypeInv'
  BY <1>3, TypeStep DEF StatusView, Step
<1> QED BY <1>1, <1>2, <1>3 DEF ViewNext, Visits, SetFriends, LoadMap, GetMapObject,
           FriendsPresence, Progress, Unauthenticated, Authenticated, FindObjects, ReadOwn,
           VisitorCount, Sinter, ReadFriends, FriendAt, ReadFails, Answered, At, End, Reads, viewVars

LEMMA OthersStep ==
  ASSUME ViewInv, TypeInv', Visits \/ SetFriends, Noted
  PROVE  AnswerInv'
<1> USE DEF ViewInv, AnswerInv
<1>0. view' = view /\ Seen' = Seen
  BY DEF Visits, SetFriends, Seen
<1>1. friends' \subseteq Users \ {Caller}
  BY DEF Visits, SetFriends, ViewTypeOK
<1>2. TypeOK'
  BY DEF TypeInv
<1>3. Facts(view.op, view.scope)' \subseteq FactSet
  <2>1. (TypeOK /\ friends \subseteq Users \ {Caller})'
    BY <1>1, <1>2
  <2>2. (Facts(view.op, view.scope) \subseteq FactSet)'
    BY <2>1, FactsOfView, PTL
  <2> QED BY <2>2
<1>4. CASE view.at = "idle"
  <2>1. ever' = ever /\ steady' = steady /\ changes' = changes
    BY <1>4 DEF Noted
  <2>2. ViewTypeOK'
    BY <1>0, <1>1, <1>2, <2>1 DEF ViewTypeOK
  <2> QED BY <1>0, <1>4, <2>1, <2>2 DEF ViewShape, History, ShownSofar, OwnRead, CountRead,
             HereRead, HeldOnce, FriendsRead, Followed, OfFriends, Reading
<1>5. CASE view.at # "idle"
  <2>1. /\ ever' = ever \cup Facts(view.op, view.scope)'
        /\ steady' = steady \cap Facts(view.op, view.scope)'
        /\ changes < Changes /\ changes' = changes + 1
    BY <1>5 DEF Noted
  <2>2. Facts(view.op, view.scope)' \subseteq ever' /\ steady' \subseteq Facts(view.op, view.scope)'
    BY <2>1
  <2>3. ever \subseteq ever' /\ steady' \subseteq steady
    BY <2>1
  <2>4. ViewTypeOK'
    <3>1. changes' \in 0..Changes
      BY <2>1, MapViewsAssumption DEF ViewTypeOK
    <3>2. ever' \subseteq FactSet /\ steady' \subseteq FactSet
      BY <1>3, <2>1 DEF ViewTypeOK
    <3> QED BY <1>0, <1>1, <1>2, <3>1, <3>2 DEF ViewTypeOK
  <2>5. ViewShape' /\ HeldOnce'
    BY <1>0 DEF ViewShape, HeldOnce, Followed, OfFriends
  <2>6. History' /\ ShownSofar' /\ OwnRead'
    BY <1>0, <2>2, <2>3 DEF History, ShownSofar, OwnRead, Followed, OfFriends
  <2>7. CountRead'
    <3> SUFFICES ASSUME ~OfFriends, Followed, NEW o \in view.scope \ view.todo
                 PROVE  CountedAt(steady', o) <= view.count[o] /\ view.count[o] <= CountedAt(ever', o)
      BY <1>0 DEF CountRead, CountedAt, OfFriends, Followed
    <3>1. CountedAt(steady, o) <= view.count[o] /\ view.count[o] <= CountedAt(ever, o)
      BY DEF CountRead
    <3>2. /\ CountedAt(steady', o) <= CountedAt(steady, o) /\ CountedAt(ever, o) <= CountedAt(ever', o)
          /\ CountedAt(steady', o) \in Nat /\ CountedAt(ever', o) \in Nat
          /\ CountedAt(steady, o) \in Nat /\ CountedAt(ever, o) \in Nat
      BY <2>3, CountedGrows
    <3>3. view.count[o] \in Int
      <4>1. view.at \in {"count", "sinter", "done"} /\ o \in Objects
        BY DEF ViewShape, ViewTypeOK, ViewRecord, Followed, OfFriends, Codes, Finding, Reading
      <4>2. view.count \in [Objects -> 0..Cardinality(Users)]
        BY DEF ViewTypeOK, ViewRecord
      <4>3. Cardinality(Users) \in Nat
        BY MapViewsAssumption, FS_CardinalityType
      <4> QED BY <4>1, <4>2, <4>3
    <3> QED BY <3>1, <3>2, <3>3
  <2>8. HereRead' /\ FriendsRead'
    BY <1>0, <2>3 DEF HereRead, FriendsRead, OfFriends
  <2> QED BY <2>4, <2>5, <2>6, <2>7, <2>8
<1> QED BY <1>4, <1>5

--------------------------------------------------------------------------------
\* A call begins, ends without an answer, or has been answered.

LEMMA NoViewType ==
  /\ NoView \in ViewRecord
  /\ NoView.at = "idle" /\ NoView.todo = {} /\ NoView.scope = {} /\ NoView.shown = {}
  /\ NoView.own = None
<1>1. 0 \in 0..Cardinality(Users)
  BY MapViewsAssumption, FS_CardinalityType
<1>2. [o \in Objects |-> 0] \in [Objects -> 0..Cardinality(Users)]
  BY <1>1
<1> QED BY <1>2 DEF NoView, ViewRecord

LEMMA SameFacts ==
  ASSUME UNCHANGED <<presence, visitors, friends>>, NEW op, NEW scope,
         view'.op = op, view'.scope = scope
  PROVE  Facts(view.op, view.scope)' = Facts(op, scope)
<1>1. CASE op = "friends"
  BY <1>1 DEF Facts
<1>2. CASE op # "friends"
  <2>1. \A o : /\ {Fact("counted", u, o) : u \in visitors'[o]} = {Fact("counted", u, o) : u \in visitors[o]}
              /\ {Fact("here", f, o) : f \in visitors'[o] \cap friends'}
                   = {Fact("here", f, o) : f \in visitors[o] \cap friends}
    OBVIOUS
  <2> QED BY <1>2, <2>1 DEF Facts
<1> QED BY <1>1, <1>2

LEMMA AskStep ==
  ASSUME ViewInv, TypeInv', NEW op \in {"load", "get", "friends", "status"},
         NEW at \in {"session", "own"}, NEW scope \in SUBSET (Objects \cup {Unknown}),
         at = "own" => op = "status" /\ scope \subseteq Objects,
         Ask(op, at, scope), UNCHANGED <<presence, visitors, friends>>
  PROVE  AnswerInv'
<1> DEFINE v == [NoView EXCEPT !.op = op, !.at = at, !.scope = scope, !.todo = scope]
<1>1. v \in ViewRecord
  BY NoViewType DEF ViewRecord
<1>2. /\ v.op = op /\ v.at = at /\ v.scope = scope /\ v.todo = scope /\ v.shown = {}
      /\ v.own = None
  BY NoViewType DEF ViewRecord
<1>3. /\ view' = v /\ ever' = Facts(op, scope) /\ steady' = Facts(op, scope) /\ changes' = 0
  BY DEF Ask
<1> HIDE DEF v
<1>4. Facts(view.op, view.scope)' = Facts(op, scope)
  BY <1>2, <1>3, SameFacts
<1>5. ViewTypeOK'
  <2>1. Facts(op, scope) \subseteq FactSet
    BY FactsTyped DEF ViewInv, AnswerInv, ViewTypeOK
  <2> QED BY <1>1, <1>3, <2>1, MapViewsAssumption DEF TypeInv, ViewInv, AnswerInv, ViewTypeOK
<1>6. ViewShape'
  BY <1>2, <1>3 DEF ViewShape, OfFriends, Reading, Finding, Followed, Codes
<1>7. History' /\ ShownSofar'
  BY <1>2, <1>3, <1>4 DEF History, ShownSofar
<1>8. OwnRead' /\ CountRead' /\ HereRead' /\ HeldOnce' /\ FriendsRead'
  BY <1>2, <1>3 DEF OwnRead, CountRead, HereRead, HeldOnce, FriendsRead, Reading, OfFriends
<1> QED BY <1>5, <1>6, <1>7, <1>8 DEF AnswerInv

\* Between answers nothing is said.
LEMMA RestStep ==
  ASSUME ViewInv, TypeInv', UNCHANGED friends, NEW v \in ViewRecord, view' = v,
         v.at \in Codes \cup {"idle"}, v.todo = {}, v.scope = {}, v.shown = {},
         ever' = {}, steady' = {}, changes' = 0
  PROVE  AnswerInv'
<1>1. ViewTypeOK'
  BY MapViewsAssumption DEF TypeInv, ViewInv, AnswerInv, ViewTypeOK
<1>2. ViewShape' /\ History' /\ ShownSofar' /\ HeldOnce'
  BY DEF ViewShape, History, ShownSofar, HeldOnce, Followed, OfFriends, Reading, Finding, Codes
<1>3. OwnRead' /\ CountRead' /\ HereRead' /\ FriendsRead'
  BY DEF OwnRead, CountRead, HereRead, FriendsRead, Followed, OfFriends, Reading, Codes
<1> QED BY <1>1, <1>2, <1>3 DEF AnswerInv

LEMMA EndStep ==
  ASSUME ViewInv, TypeInv', NEW code \in Codes, End(code)
  PROVE  AnswerInv'
<1> DEFINE v == [NoView EXCEPT !.op = view.op, !.at = code]
<1>1. v \in ViewRecord
  BY NoViewType DEF ViewInv, AnswerInv, ViewTypeOK, ViewRecord, Codes
<1>2. v.at = code /\ v.todo = {} /\ v.scope = {} /\ v.shown = {}
  BY NoViewType DEF ViewRecord
<1>3. view' = v /\ ever' = {} /\ steady' = {} /\ changes' = 0 /\ UNCHANGED friends
  BY DEF End, Reads
<1> HIDE DEF v
<1> QED BY <1>1, <1>2, <1>3, RestStep

LEMMA AnsweredStep ==
  ASSUME ViewInv, TypeInv', Answered
  PROVE  AnswerInv'
BY NoViewType, RestStep DEF Answered, Reads

LEMMA BeginStep ==
  ASSUME ViewInv, TypeInv',
         \/ \E near \in SUBSET Objects : LoadMap(near)
         \/ \E id \in Objects \cup {Unknown} : GetMapObject(id)
         \/ FriendsPresence
         \/ \E h \in Handlers : StatusView(h)
  PROVE  AnswerInv'
<1>1. ASSUME NEW near \in SUBSET Objects, LoadMap(near)
      PROVE  AnswerInv'
  BY <1>1, AskStep DEF LoadMap, Reads, vars
<1>2. ASSUME NEW id \in Objects \cup {Unknown}, GetMapObject(id)
      PROVE  AnswerInv'
  BY <1>2, AskStep DEF GetMapObject, Reads, vars
<1>3. CASE FriendsPresence
  BY <1>3, AskStep DEF FriendsPresence, Reads, vars
<1>4. ASSUME NEW h \in Handlers, StatusView(h)
      PROVE  AnswerInv'
  <2>1. call[h].object \in Objects
    BY <1>4, MapViewsAssumption, PresenceAssumption DEF StatusView, ViewInv, TypeInv, Shape, ShapeOf
  <2>2. UNCHANGED <<presence, visitors, friends>>
    BY <1>4 DEF StatusView, Return
  <2> QED BY <1>4, <2>1, <2>2, AskStep DEF StatusView
<1> QED BY <1>1, <1>2, <1>3, <1>4

--------------------------------------------------------------------------------
\* The reads.

LEMMA ReadStep ==
  ASSUME ViewInv, TypeInv', Followed, NEW v \in ViewRecord, view' = v, v.op = view.op,
         v.scope = view.scope, UNCHANGED <<presence, visitors, friends, ever, steady, changes>>
  PROVE  ViewTypeOK' /\ History'
<1>1. ViewTypeOK'
  BY DEF TypeInv, ViewInv, AnswerInv, ViewTypeOK
<1>2. Facts(view.op, view.scope)' = Facts(view.op, view.scope)
  BY SameFacts
<1>3. History'
  BY <1>2 DEF ViewInv, AnswerInv, History
<1> QED BY <1>1, <1>3

\* A step before anything is read for the answer.
LEMMA FindStep ==
  ASSUME ViewInv, TypeInv', NEW step \in {"friends", "objects", "own"},
         At(view.at), view.at \in {"session", "objects"},
         step = "friends" <=> OfFriends,
         step = "own" => view.scope \subseteq Objects,
         view' = [view EXCEPT !.at = step]
  PROVE  AnswerInv'
<1> DEFINE v == [view EXCEPT !.at = step]
<1>0. view \in ViewRecord /\ ViewShape
  BY DEF ViewInv, AnswerInv, ViewTypeOK
<1>1. v \in ViewRecord
  BY <1>0 DEF ViewRecord
<1>2. v.at = step /\ v.op = view.op /\ v.scope = view.scope /\ v.todo = view.todo
      /\ v.shown = view.shown /\ v.own = view.own /\ view' = v
  BY <1>0 DEF ViewRecord
<1> HIDE DEF v
<1>3. UNCHANGED <<presence, visitors, friends, ever, steady, changes>>
  BY DEF At, Reads, vars
<1>4. Followed
  BY DEF Followed, Codes
<1>5. ViewTypeOK' /\ History'
  BY <1>1, <1>2, <1>3, <1>4, ReadStep
<1>6. ViewShape'
  BY <1>0, <1>2, <1>4 DEF ViewShape, OfFriends, Followed, Finding, Reading, Codes
<1>7. ShownSofar' /\ HeldOnce'
  BY <1>0, <1>2, <1>6 DEF ViewShape, ShownSofar, HeldOnce, OfFriends, Finding
<1>8. OwnRead' /\ HereRead' /\ FriendsRead'
  BY <1>2 DEF OwnRead, HereRead, FriendsRead, Reading
<1>9. CountRead'
  BY <1>0, <1>2 DEF CountRead, ViewShape, Finding, OfFriends
<1> QED BY <1>5, <1>6, <1>7, <1>8, <1>9 DEF AnswerInv

LEMMA AuthenticatedStep ==
  ASSUME ViewInv, TypeInv', Authenticated
  PROVE  AnswerInv'
<1> DEFINE step == IF view.op = "friends" THEN "friends" ELSE "objects"
<1>1. step \in {"friends", "objects"} /\ (step = "friends" <=> OfFriends)
  BY DEF OfFriends
<1>2. view.at = "session" /\ At(view.at) /\ view' = [view EXCEPT !.at = step]
  BY DEF Authenticated, At
<1> HIDE DEF step
<1> QED BY <1>1, <1>2, FindStep

LEMMA FoundStep ==
  ASSUME ViewInv, TypeInv', FindObjects
  PROVE  AnswerInv'
<1>1. CASE view.scope \subseteq Objects
  <2>1. view.at = "objects" /\ At(view.at) /\ view' = [view EXCEPT !.at = "own"]
    BY <1>1 DEF FindObjects, At
  <2>2. ~OfFriends
    BY <2>1 DEF ViewInv, AnswerInv, ViewShape
  <2> QED BY <1>1, <2>1, <2>2, FindStep
<1>2. CASE ~(view.scope \subseteq Objects)
  BY <1>2, EndStep DEF FindObjects, Codes
<1> QED BY <1>1, <1>2

LEMMA OwnStep ==
  ASSUME ViewInv, TypeInv', ReadOwn
  PROVE  AnswerInv'
<1>0. /\ view \in ViewRecord /\ ViewShape /\ view.at = "own" /\ TypeOK
      /\ UNCHANGED <<presence, visitors, friends, ever, steady, changes>>
  BY DEF ViewInv, AnswerInv, ViewTypeOK, ReadOwn, At, Reads, vars
<1>1. PICK v \in ViewRecord :
        /\ view' = v /\ v.at = "count" /\ v.op = view.op /\ v.scope = view.scope
        /\ v.todo = view.todo /\ v.shown = view.shown
        /\ v.failed \/ v.own = presence[Caller]
        /\ v.own \in {None, presence[Caller]}
  <2>1. presence[Caller] \in Objects \cup {None}
    BY <1>0, MapViewsAssumption DEF TypeOK
  <2>2. CASE view' = [view EXCEPT !.at = "count", !.own = presence[Caller]]
    <3> DEFINE v == [view EXCEPT !.at = "count", !.own = presence[Caller]]
    <3>1. /\ v \in ViewRecord /\ v.at = "count" /\ v.op = view.op /\ v.scope = view.scope
          /\ v.todo = view.todo /\ v.shown = view.shown /\ v.own = presence[Caller]
      BY <1>0, <2>1 DEF ViewRecord
    <3> QED BY <2>2, <3>1
  <2>3. CASE view' = [view EXCEPT !.at = "count", !.failed = TRUE]
    <3> DEFINE v == [view EXCEPT !.at = "count", !.failed = TRUE]
    <3>1. /\ v \in ViewRecord /\ v.at = "count" /\ v.op = view.op /\ v.scope = view.scope
          /\ v.todo = view.todo /\ v.shown = view.shown /\ v.failed /\ v.own = None
      BY <1>0 DEF ViewRecord, ViewShape, Finding
    <3> QED BY <2>3, <3>1
  <2> QED BY <2>2, <2>3 DEF ReadOwn
<1>2. Followed /\ ~OfFriends /\ view.scope \subseteq Objects /\ view.todo = view.scope /\ view.shown = {}
  BY <1>0 DEF ViewShape, Followed, OfFriends, Finding, Reading, Codes
<1>3. ViewTypeOK' /\ History'
  BY <1>0, <1>1, <1>2, ReadStep
<1>4. ViewShape'
  BY <1>1, <1>2 DEF ViewShape, OfFriends, Followed, Finding, Reading, Codes
<1>5. ShownSofar' /\ HeldOnce' /\ HereRead' /\ CountRead' /\ FriendsRead'
  BY <1>1, <1>2 DEF ShownSofar, HeldOnce, HereRead, CountRead, FriendsRead, Seen, OfFriends
<1>6. OwnRead'
  <2> SUFFICES ASSUME NEW o \in view.scope
               PROVE  /\ view'.own = o => Fact("held", Caller, o) \in ever
                      /\ Fact("held", Caller, o) \in steady /\ ~view'.failed => view'.own = o
    BY <1>0, <1>1 DEF OwnRead
  <2>1. Fact("held", Caller, o) \in Facts(view.op, view.scope) <=> presence[Caller] = o
    BY <1>2, ObjectFacts DEF OfFriends
  <2>2. Facts(view.op, view.scope) \subseteq ever /\ steady \subseteq Facts(view.op, view.scope)
    BY <1>2 DEF ViewInv, AnswerInv, History
  <2>3. o # None
    BY <1>2, PresenceAssumption
  <2> QED BY <1>1, <2>1, <2>2, <2>3
<1> QED BY <1>3, <1>4, <1>5, <1>6 DEF AnswerInv

LEMMA CountStep ==
  ASSUME ViewInv, TypeInv', VisitorCount
  PROVE  AnswerInv'
<1>0. /\ view \in ViewRecord /\ ViewShape /\ view.at = "count" /\ TypeOK
      /\ UNCHANGED <<presence, visitors, friends, ever, steady, changes>>
  BY DEF ViewInv, AnswerInv, ViewTypeOK, VisitorCount, At, Reads, vars
<1>1. /\ Followed /\ ~OfFriends /\ view.scope \subseteq Objects /\ view.todo \subseteq view.scope
      /\ Seen = view.scope \ view.todo
  BY <1>0 DEF ViewShape, Followed, OfFriends, Reading, Codes, Seen
<1>2. /\ Facts(view.op, view.scope) \subseteq ever /\ steady \subseteq Facts(view.op, view.scope)
      /\ ShownSofar /\ OwnRead /\ CountRead /\ HereRead /\ HeldOnce
  BY <1>1 DEF ViewInv, AnswerInv, History
<1>3. CASE view.todo = {}
  <2> DEFINE v == [view EXCEPT !.at = "done"]
  <2>1. v \in ViewRecord /\ view' = v
    BY <1>0, <1>3 DEF ViewRecord, VisitorCount
  <2>2. /\ v.at = "done" /\ v.op = view.op /\ v.scope = view.scope /\ v.todo = view.todo
        /\ v.shown = view.shown /\ v.own = view.own /\ v.failed = view.failed
        /\ v.count = view.count
    BY <1>0 DEF ViewRecord
  <2> HIDE DEF v
  <2>3. ViewTypeOK' /\ History'
    BY <1>0, <1>1, <2>1, <2>2, ReadStep
  <2>4. ViewShape'
    BY <1>1, <1>3, <2>1, <2>2 DEF ViewShape, OfFriends, Followed, Finding, Reading, Codes
  <2>6. ShownSofar' /\ FriendsRead'
    BY <1>0, <1>1, <1>2, <2>1, <2>2 DEF ShownSofar, FriendsRead, OfFriends
  <2>7. HeldOnce'
    BY <1>1, <1>2, <2>1, <2>2 DEF HeldOnce, OfFriends
  <2>5. OwnRead' /\ CountRead' /\ HereRead'
    BY <1>0, <1>1, <1>2, <2>1, <2>2
       DEF OwnRead, CountRead, HereRead, OfFriends, Reading, Seen, CountedAt
  <2> QED BY <2>3, <2>4, <2>5, <2>6, <2>7 DEF AnswerInv
<1>4. ASSUME NEW o \in view.todo,
             view' = [view EXCEPT !.at = "sinter", !.object = o, !.todo = @ \ {o},
                                  !.count[o] = Cardinality(visitors[o])]
      PROVE  AnswerInv'
  <2> DEFINE n == Cardinality(visitors[o])
             m == [view.count EXCEPT ![o] = n]
             v == [view EXCEPT !.at = "sinter", !.object = o, !.todo = view.todo \ {o}, !.count = m]
  <2>0. o \in Objects /\ o \in view.scope \cap Objects
    BY <1>1, <1>4
  <2>1. CountedAt(Facts(view.op, view.scope), o) = n /\ n \in 0..Cardinality(Users)
    BY <1>0, <1>1, <2>0, CountedNow DEF OfFriends
  <2>2. m \in [Objects -> 0..Cardinality(Users)] /\ m[o] = n
        /\ \A p \in Objects \ {o} : m[p] = view.count[p]
    BY <1>0, <2>0, <2>1 DEF ViewRecord
  <2>3. view' = v
    BY <1>0, <1>4 DEF ViewRecord
  <2> HIDE DEF n, m
  <2>4. v \in ViewRecord
    BY <1>0, <2>0, <2>2 DEF ViewRecord
  <2>5. /\ v.at = "sinter" /\ v.op = view.op /\ v.scope = view.scope /\ v.todo = view.todo \ {o}
        /\ v.shown = view.shown /\ v.own = view.own /\ v.failed = view.failed
        /\ v.count = m /\ v.object = o
    BY <1>0 DEF ViewRecord
  <2> HIDE DEF v
  <2>6. ViewTypeOK' /\ History'
    BY <1>0, <1>1, <2>3, <2>4, <2>5, ReadStep
  <2>7. ViewShape'
    BY <1>1, <2>0, <2>3, <2>5 DEF ViewShape, OfFriends, Followed, Finding, Reading, Codes
  <2>11. ShownSofar' /\ FriendsRead'
    BY <1>0, <1>1, <1>2, <2>3, <2>5 DEF ShownSofar, FriendsRead, OfFriends
  <2>12. HeldOnce'
    BY <1>1, <1>2, <2>3, <2>5 DEF HeldOnce, OfFriends
  <2>8. Seen' = Seen
    BY <1>1, <2>0, <2>3, <2>5 DEF Seen
  <2>9. OwnRead' /\ HereRead'
    BY <1>0, <1>1, <1>2, <2>3, <2>5, <2>8 DEF OwnRead, HereRead, OfFriends, Reading
  <2>10. CountRead'
    <3> SUFFICES ASSUME NEW p \in view.scope \ (view.todo \ {o})
                 PROVE  CountedAt(steady, p) <= m[p] /\ m[p] <= CountedAt(ever, p)
      BY <1>0, <2>3, <2>5 DEF CountRead, CountedAt
    <3>1. CASE p = o
      BY <1>2, <2>1, <2>2, <3>1, CountedGrows
    <3>2. CASE p # o
      BY <1>1, <1>2, <2>2, <3>2 DEF CountRead
    <3> QED BY <3>1, <3>2
  <2> QED BY <2>6, <2>7, <2>9, <2>10, <2>11, <2>12 DEF AnswerInv
<1> QED BY <1>3, <1>4 DEF VisitorCount

LEMMA SinterStep ==
  ASSUME ViewInv, TypeInv', Sinter
  PROVE  AnswerInv'
<1> DEFINE o == view.object
           here == {Fact("here", f, o) : f \in visitors[o] \cap friends}
           held == IF view.own = o THEN {Fact("held", Caller, o)} ELSE {}
           shown == view.shown \cup here \cup held
           v == [view EXCEPT !.at = "count", !.object = None, !.shown = shown]
<1>0. /\ view \in ViewRecord /\ ViewShape /\ view.at = "sinter" /\ TypeOK
      /\ UNCHANGED <<presence, visitors, friends, ever, steady, changes>>
  BY DEF ViewInv, AnswerInv, ViewTypeOK, Sinter, At, Reads, vars
<1>1. /\ Followed /\ ~OfFriends /\ view.scope \subseteq Objects /\ view.todo \subseteq view.scope
      /\ o \in view.scope \ view.todo /\ Seen = (view.scope \ view.todo) \ {o}
  BY <1>0 DEF ViewShape, Followed, OfFriends, Reading, Codes, Seen
<1>2. /\ Facts(view.op, view.scope) \subseteq ever /\ steady \subseteq Facts(view.op, view.scope)
      /\ ShownSofar /\ OwnRead /\ CountRead /\ HereRead /\ HeldOnce
      /\ ever \subseteq FactSet
  BY <1>1 DEF ViewInv, AnswerInv, History, ViewTypeOK
<1>3. view' = v
  BY <1>0 DEF Sinter, FriendIDsHere, Viewing
<1>4. \A u : Fact("here", u, o) \in Facts(view.op, view.scope) <=> u \in visitors[o] \cap friends
  BY <1>1, ObjectFacts DEF OfFriends
<1>5. \A u : Fact("here", u, o) \in here <=> u \in visitors[o] \cap friends
  BY FactEqual
<1>6. view.own = o => Fact("held", Caller, o) \in ever
  BY <1>0, <1>1, <1>2 DEF OwnRead, Reading
<1>7. here \subseteq ever /\ held \subseteq ever
  BY <1>2, <1>4, <1>6
<1>8. view.shown \subseteq shown /\ shown \subseteq ever
  BY <1>1, <1>2, <1>7 DEF ShownSofar
<1>9. \A u, p : Fact("held", u, p) \in shown =>
        Fact("held", u, p) \in view.shown \/ (u = Caller /\ p = o /\ view.own = o)
  <2>1. \A u, p : Fact("held", u, p) \notin here
    BY FactEqual
  <2>2. \A u, p : Fact("held", u, p) \in held => u = Caller /\ p = o /\ view.own = o
    BY FactEqual
  <2> HIDE DEF here, held
  <2> QED BY <2>1, <2>2
<1>10. \A u \in Users : Fact("here", u, o) \in steady => Fact("here", u, o) \in shown
  BY <1>2, <1>4, <1>5
<1>11. Fact("held", Caller, o) \in steady /\ ~view.failed => Fact("held", Caller, o) \in shown
  BY <1>0, <1>1, <1>2 DEF OwnRead, Reading
<1> HIDE DEF here, held, shown
<1>12. v \in ViewRecord
  BY <1>0, <1>2, <1>8 DEF ViewRecord
<1>13. /\ v.at = "count" /\ v.op = view.op /\ v.scope = view.scope /\ v.todo = view.todo
       /\ v.shown = shown /\ v.own = view.own /\ v.failed = view.failed /\ v.count = view.count
  BY <1>0 DEF ViewRecord
<1> HIDE DEF o, v
<1>14. ViewTypeOK' /\ History'
  BY <1>0, <1>1, <1>3, <1>12, <1>13, ReadStep
<1>15. ViewShape'
  BY <1>1, <1>3, <1>13 DEF ViewShape, OfFriends, Followed, Finding, Reading, Codes
<1>16. ShownSofar' /\ FriendsRead'
  BY <1>0, <1>1, <1>3, <1>8, <1>13 DEF ShownSofar, FriendsRead, OfFriends
<1>17. HeldOnce'
  BY <1>1, <1>2, <1>3, <1>9, <1>13 DEF HeldOnce, OfFriends
<1>18. OwnRead' /\ CountRead'
  BY <1>0, <1>1, <1>2, <1>3, <1>13 DEF OwnRead, CountRead, CountedAt, OfFriends, Reading
<1>19. HereRead'
  <2> SUFFICES ASSUME NEW p \in view.scope \ view.todo, NEW u \in Users
               PROVE  /\ Fact("here", u, p) \in steady => Fact("here", u, p) \in shown
                      /\ Fact("held", Caller, p) \in steady /\ ~view.failed
                           => Fact("held", Caller, p) \in shown
    BY <1>0, <1>3, <1>13 DEF HereRead, Seen
  <2>1. CASE p = o
    BY <1>10, <1>11, <2>1
  <2>2. CASE p # o
    BY <1>0, <1>1, <1>2, <1>8, <2>2 DEF HereRead, Reading
  <2> QED BY <2>1, <2>2
<1> QED BY <1>14, <1>15, <1>16, <1>17, <1>18, <1>19 DEF AnswerInv

LEMMA FriendListStep ==
  ASSUME ViewInv, TypeInv', ReadFriends
  PROVE  AnswerInv'
<1> DEFINE v == [view EXCEPT !.at = "presence", !.todo = friends]
<1>0. /\ view \in ViewRecord /\ ViewShape /\ view.at = "friends" /\ view' = v
      /\ friends \subseteq Users \ {Caller}
      /\ UNCHANGED <<presence, visitors, friends, ever, steady, changes>>
  BY DEF ViewInv, AnswerInv, ViewTypeOK, ReadFriends, At, Reads, vars
<1>1. Followed /\ OfFriends /\ view.shown = {}
  BY <1>0 DEF ViewShape, Followed, Codes
<1>2. Facts("friends", view.scope) \subseteq ever /\ steady \subseteq Facts("friends", view.scope)
  BY <1>1 DEF ViewInv, AnswerInv, History, OfFriends
<1>3. v \in ViewRecord
  BY <1>0 DEF ViewRecord
<1>4. /\ v.at = "presence" /\ v.op = view.op /\ v.scope = view.scope /\ v.todo = friends
      /\ v.shown = {}
  BY <1>0, <1>1 DEF ViewRecord
<1> HIDE DEF v
<1>5. ViewTypeOK' /\ History'
  BY <1>0, <1>1, <1>3, <1>4, ReadStep
<1>6. ViewShape' /\ ShownSofar'
  BY <1>0, <1>1, <1>4 DEF ViewShape, ShownSofar, OfFriends, Followed, Finding, Reading, Codes
<1>7. OwnRead' /\ CountRead' /\ HereRead' /\ HeldOnce'
  BY <1>0, <1>1, <1>4 DEF OwnRead, CountRead, HereRead, HeldOnce, OfFriends
<1>8. FriendsRead'
  <2>1. \A f : Fact("friend", f, None) \in Facts("friends", view.scope) <=> f \in friends
    BY FriendFacts
  <2> QED BY <1>0, <1>2, <1>4, <2>1 DEF FriendsRead
<1> QED BY <1>5, <1>6, <1>7, <1>8 DEF AnswerInv

LEMMA FriendStep ==
  ASSUME ViewInv, TypeInv', FriendAt
  PROVE  AnswerInv'
<1>0. /\ view \in ViewRecord /\ ViewShape /\ view.at = "presence" /\ TypeOK
      /\ UNCHANGED <<presence, visitors, friends, ever, steady, changes>>
  BY DEF ViewInv, AnswerInv, ViewTypeOK, FriendAt, At, Reads, vars
<1>1. Followed /\ OfFriends
  BY <1>0 DEF ViewShape, Followed, Codes
<1>2. /\ Facts("friends", view.scope) \subseteq ever /\ steady \subseteq Facts("friends", view.scope)
      /\ ShownSofar /\ FriendsRead /\ ever \subseteq FactSet
  BY <1>1 DEF ViewInv, AnswerInv, History, OfFriends, ViewTypeOK
<1>3. ASSUME NEW v \in ViewRecord, view' = v, v.op = view.op, v.scope = view.scope,
             v.at = "presence" \/ (v.at = "done" /\ v.todo = {}), v.shown \subseteq ever,
             FriendsRead'
      PROVE  AnswerInv'
  <2>1. ViewTypeOK' /\ History'
    BY <1>0, <1>1, <1>3, ReadStep
  <2>2. ViewShape' /\ ShownSofar'
    BY <1>0, <1>1, <1>3 DEF ViewShape, ShownSofar, OfFriends, Followed, Finding, Reading, Codes
  <2>3. OwnRead' /\ CountRead' /\ HereRead' /\ HeldOnce'
    BY <1>1, <1>3 DEF OwnRead, CountRead, HereRead, HeldOnce, OfFriends
  <2> QED BY <1>3, <2>1, <2>2, <2>3 DEF AnswerInv
<1>4. CASE view.todo = {} /\ view' = [view EXCEPT !.at = "done"]
  <2> DEFINE v == [view EXCEPT !.at = "done"]
  <2>1. v \in ViewRecord /\ view' = v
    BY <1>0, <1>4 DEF ViewRecord
  <2>2. /\ v.at = "done" /\ v.op = view.op /\ v.scope = view.scope /\ v.todo = view.todo
        /\ v.shown = view.shown
    BY <1>0 DEF ViewRecord
  <2> HIDE DEF v
  <2>3. FriendsRead'
    BY <1>0, <1>1, <1>2, <2>1, <2>2 DEF FriendsRead, OfFriends
  <2> QED BY <1>1, <1>2, <1>3, <1>4, <2>1, <2>2, <2>3 DEF ShownSofar
<1>5. ASSUME NEW f \in view.todo,
             view' = [view EXCEPT !.todo = Left(f),
                        !.shown = IF presence[f] = None THEN @
                                  ELSE @ \cup {Fact("held", f, presence[f]), Fact("friend", f, None)}]
      PROVE  AnswerInv'
  <2> DEFINE shown == IF presence[f] = None THEN view.shown
                      ELSE view.shown \cup {Fact("held", f, presence[f]), Fact("friend", f, None)}
             v == [view EXCEPT !.todo = view.todo \ {f}, !.shown = shown]
  <2>1. view' = v
    BY <1>0, <1>5 DEF ViewRecord, Left
  <2>2. f \in Users \ {Caller} /\ Fact("friend", f, None) \in ever
    BY <1>0, <1>1, <1>2, <1>5 DEF FriendsRead
  <2>3. \A u, o : Fact("held", u, o) \in Facts("friends", view.scope) <=>
          u \in Users \ {Caller} /\ presence[u] # None /\ o = presence[u]
    BY FriendFacts
  <2>4. view.shown \subseteq shown /\ shown \subseteq ever
    BY <1>1, <1>2, <2>2, <2>3 DEF ShownSofar
  <2>5. \A u, o : Fact("held", u, o) \in shown =>
          Fact("held", u, o) \in view.shown \/ (u = f /\ o = presence[f])
    <3>1. ASSUME NEW u, NEW o, Fact("held", u, o) = Fact("held", f, presence[f])
          PROVE  u = f /\ o = presence[f]
      BY <3>1, FactEqual
    <3>2. ASSUME NEW u, NEW o, Fact("held", u, o) = Fact("friend", f, None)
          PROVE  FALSE
      BY <3>2, FactEqual
    <3> QED BY <3>1, <3>2
  <2>6. \A o \in Objects : Fact("held", f, o) \in steady => Fact("held", f, o) \in shown
    BY <1>2, <2>3
  <2> HIDE DEF shown
  <2>7. v \in ViewRecord
    BY <1>0, <1>2, <2>4 DEF ViewRecord
  <2>8. /\ v.at = "presence" /\ v.op = view.op /\ v.scope = view.scope
        /\ v.todo = view.todo \ {f} /\ v.shown = shown
    BY <1>0 DEF ViewRecord
  <2> HIDE DEF v
  <2>9. FriendsRead'
    <3>1. \A g \in view.todo \ {f} : g \in Users \ {Caller} /\ Fact("friend", g, None) \in ever
      BY <1>0, <1>1, <1>2 DEF FriendsRead
    <3>2. ASSUME NEW u \in Users, NEW o \in Objects,
                 {Fact("friend", u, None), Fact("held", u, o)} \subseteq steady
          PROVE  u \in view.todo \ {f} \/ Fact("held", u, o) \in shown
      <4>1. u \in view.todo \/ Fact("held", u, o) \in view.shown
        BY <1>0, <1>1, <1>2, <3>2 DEF FriendsRead
      <4> QED BY <2>4, <2>6, <3>2, <4>1
    <3>3. ASSUME NEW u \in Users, NEW o \in Objects, Fact("held", u, o) \in view.shown
          PROVE  /\ u \notin view.todo
                 /\ \A p \in Objects : Fact("held", u, p) \in view.shown => p = o
      BY <1>0, <1>1, <1>2, <3>3 DEF FriendsRead
    <3>4. ASSUME NEW u \in Users, NEW o \in Objects, Fact("held", u, o) \in shown
          PROVE  /\ u \notin view.todo \ {f}
                 /\ \A p \in Objects : Fact("held", u, p) \in shown => p = o
      <4>1. CASE u = f
        BY <1>5, <2>5, <3>3, <3>4, <4>1
      <4>2. CASE u # f
        BY <2>5, <3>3, <3>4, <4>2
      <4> QED BY <4>1, <4>2
    <3> QED BY <1>0, <2>1, <2>8, <3>1, <3>2, <3>4 DEF FriendsRead
  <2> QED BY <1>3, <2>1, <2>4, <2>7, <2>8, <2>9
<1> QED BY <1>4, <1>5 DEF FriendAt

--------------------------------------------------------------------------------
\* The theorems.

LEMMA ViewStart == ViewInit => ViewInv
<1> SUFFICES ASSUME ViewInit
             PROVE  ViewInv
  OBVIOUS
<1>1. TypeInv
  BY TypeInit DEF ViewInit
<1>2. /\ view \in ViewRecord /\ view.at = "idle" /\ view.todo = {} /\ view.scope = {}
      /\ view.shown = {} /\ friends = {} /\ ever = {} /\ steady = {} /\ changes = 0
  BY NoViewType DEF ViewInit
<1>3. ViewTypeOK
  BY <1>1, <1>2, MapViewsAssumption DEF TypeInv, ViewTypeOK
<1>4. ViewShape /\ History /\ ShownSofar /\ HeldOnce
  BY <1>2 DEF ViewShape, History, ShownSofar, HeldOnce, Followed, OfFriends, Reading, Finding
<1>5. OwnRead /\ CountRead /\ HereRead /\ FriendsRead
  BY <1>2 DEF OwnRead, CountRead, HereRead, FriendsRead, Followed, OfFriends, Reading
<1> QED BY <1>1, <1>3, <1>4, <1>5 DEF ViewInv, AnswerInv

LEMMA ViewStep ==
  ASSUME ViewInv, [ViewNext]_viewVars
  PROVE  ViewInv'
<1>1. TypeInv'
  BY PresenceTypeStep DEF ViewInv
<1> SUFFICES AnswerInv'
  BY <1>1 DEF ViewInv
<1>2. CASE (Visits \/ SetFriends) /\ Noted
  BY <1>1, <1>2, OthersStep
<1>3. CASE \/ \E near \in SUBSET Objects : LoadMap(near)
           \/ \E id \in Objects \cup {Unknown} : GetMapObject(id)
           \/ FriendsPresence
           \/ \E h \in Handlers : StatusView(h)
  BY <1>1, <1>3, BeginStep
<1>4. CASE Unauthenticated \/ ReadFails
  BY <1>1, <1>4, EndStep DEF Unauthenticated, ReadFails, Codes
<1>5. CASE Authenticated \/ FindObjects \/ ReadOwn \/ Answered
  BY <1>1, <1>5, AuthenticatedStep, FoundStep, OwnStep, AnsweredStep
<1>6. CASE VisitorCount \/ Sinter \/ ReadFriends \/ FriendAt
  BY <1>1, <1>6, CountStep, SinterStep, FriendListStep, FriendStep
<1>7. CASE UNCHANGED viewVars
  <2> USE <1>7 DEF viewVars, answer
  <2>1. ViewTypeOK' /\ ViewShape' /\ ShownSofar' /\ HeldOnce'
    BY <1>1 DEF ViewInv, AnswerInv, TypeInv, ViewTypeOK, ViewShape, ShownSofar, HeldOnce, OfFriends, Followed
  <2>2. Facts(view.op, view.scope)' = Facts(view.op, view.scope)
    BY SameFacts DEF vars
  <2>3. History' /\ OwnRead' /\ CountRead' /\ HereRead' /\ FriendsRead'
    BY <2>2 DEF ViewInv, AnswerInv, History, OwnRead, CountRead, CountedAt, HereRead, Seen,
       FriendsRead, OfFriends, Followed
  <2> QED BY <2>1, <2>3 DEF AnswerInv
<1> QED BY <1>2, <1>3, <1>4, <1>5, <1>6, <1>7 DEF ViewNext, Progress

LEMMA ViewInvariant == ViewSpec => []ViewInv
BY ViewStart, ViewStep, PTL DEF ViewSpec

\* The type invariant of the answers that map_server.go puts together.
THEOREM ViewTypes == ViewSpec => []ViewTypeOK
BY ViewInvariant, PTL DEF ViewInv, AnswerInv

\* view and FriendsPresence (map_server.go) show what was true at some moment of the
\* call, and a number of visitors between those counted all the time and at any time.
THEOREM AnswersAreTrue == ViewSpec => []ShownIsTrue
<1>1. ViewInv => ShownIsTrue
  BY DEF ViewInv, AnswerInv, ShownIsTrue, ShownSofar, CountRead, ViewShape, Followed, OfFriends, Codes
<1> QED BY <1>1, ViewInvariant, PTL

\* The friends who stayed are shown, and the caller's own presence unless its read
\* failed: what the 30 s poll shows cannot skip them.
THEOREM AnswersAreWhole == ViewSpec => []SteadyIsShown
<1>1. ViewInv => SteadyIsShown
  <2> SUFFICES ASSUME ViewInv, view.at = "done", NEW u \in Users, NEW o \in Objects
               PROVE  IF view.op = "friends"
                      THEN {Fact("friend", u, None), Fact("held", u, o)} \subseteq steady
                             => Fact("held", u, o) \in view.shown
                      ELSE o \in view.scope =>
                             /\ Fact("here", u, o) \in steady => Fact("here", u, o) \in view.shown
                             /\ Fact("held", Caller, o) \in steady /\ ~view.failed
                                  => Fact("held", Caller, o) \in view.shown
    BY DEF SteadyIsShown
  <2>1. view.todo = {} /\ Seen = view.scope
    BY DEF ViewInv, AnswerInv, ViewShape, Seen
  <2> QED BY <2>1 DEF ViewInv, AnswerInv, FriendsRead, HereRead, OfFriends
<1> QED BY <1>1, ViewInvariant, PTL

\* One read of the caller's presence serves all objects of an answer, and one read
\* per friend the list of walks: nobody is shown at two objects.
THEOREM AnswersAreSingle == ViewSpec => []ShownOnce
<1>1. ViewInv => ShownOnce
  <2> SUFFICES ASSUME ViewInv, view.at = "done", NEW u \in Users
               PROVE  Cardinality({o \in Objects : Fact("held", u, o) \in view.shown}) <= 1
    BY DEF ShownOnce
  <2> DEFINE S == {o \in Objects : Fact("held", u, o) \in view.shown}
  <2>1. \A o, p \in S : o = p
    BY DEF ViewInv, AnswerInv, HeldOnce, FriendsRead, OfFriends
  <2>2. CASE S = {}
    BY <2>2, FS_EmptySet
  <2>3. ASSUME NEW o \in S
        PROVE  Cardinality(S) <= 1
    <3>1. S = {o}
      BY <2>1
    <3> HIDE DEF S
    <3> QED BY <3>1, FS_Singleton
  <2> QED BY <2>2, <2>3
<1> QED BY <1>1, ViewInvariant, PTL

================================================================================
