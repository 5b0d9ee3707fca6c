----------------------------- MODULE PresenceProofs ----------------------------
(***************************************************************************)
(* What holds of presence for any users, objects and number of calls.      *)
(* Every theorem but the first names the happenings it cannot bear.        *)
(***************************************************************************)
EXTENDS Presence, TLAPS

Visiting == {"get_prev", "srem_prev", "sadd", "set"}
Leaving  == {"srem", "del"}

\* What a handler holds at each step.
ShapeOf(h) ==
  /\ pc[h] = "idle" <=> call[h].by = None
  /\ pc[h] # "idle" => call[h].object \in Objects /\ call[h].action \in Actions
  /\ pc[h] \in Visiting => call[h].action = "VISITING"
  /\ pc[h] \in Leaving => call[h].action = "NOT_VISITING"
  /\ pc[h] = "srem_prev" => call[h].prev \in Objects \ {call[h].object}
  /\ call[h].ok => pc[h] = "done"

SweepShape ==
  /\ sweep.at \in {"members", "remove"} => sweep.object \in Objects
  /\ sweep.at = "remove" => sweep.user \in Users

Shape == SweepShape /\ \A h \in Handlers : ShapeOf(h)

TypeInv == TypeOK /\ Shape

\* What TypeOK says of a call, and of what one handler does to its own.
LEMMA CallTypes ==
  ASSUME TypeInv, NEW h \in Handlers
  PROVE  /\ call[h] \in CallRecord /\ pc[h] \in Steps
         /\ pc[h] # "idle" => call[h].by \in Users /\ call[h].object \in Objects
  BY PresenceAssumption DEF TypeInv, TypeOK, Shape, ShapeOf, CallRecord

LEMMA TypeInit == Init => TypeInv
  BY PresenceAssumption DEF Init, TypeInv, TypeOK, Shape, ShapeOf, SweepShape, IdleCall, Resting, Steps, CallRecord,
         SweepRecord, SweepPcs, Visiting, Leaving

LEMMA TypeBegin ==
  ASSUME TypeInv, NEW h \in Handlers, NEW u \in Users, NEW o \in Objects, NEW action \in Actions,
         ChangeMapObjectStatus(h, u, o, action), UNCHANGED env
  PROVE  TypeInv'
<1> DEFINE c == [by |-> u, object |-> o, action |-> action, prev |-> None, ok |-> FALSE]
<1>1. c \in CallRecord
  BY DEF CallRecord
<1>2. /\ pc' = [pc EXCEPT ![h] = IF action = "VISITING" THEN "get_prev" ELSE "srem"]
      /\ call' = [call EXCEPT ![h] = c]
      /\ UNCHANGED <<presence, visitors, sweep>>
  BY DEF ChangeMapObjectStatus, Goto
<1>3. TypeOK'
  BY <1>1, <1>2 DEF TypeInv, TypeOK, Steps
<1>4. c.by = u /\ c.object = o /\ c.action = action /\ c.ok = FALSE /\ u # None
  BY PresenceAssumption
<1>5. ASSUME NEW g \in Handlers PROVE ShapeOf(g)'
  <2>1. CASE g = h
    BY <1>2, <1>4, <2>1 DEF TypeInv, TypeOK, ShapeOf, Actions, Visiting, Leaving
  <2>2. CASE g # h
    BY <1>2, <2>2 DEF TypeInv, TypeOK, Shape, ShapeOf
  <2> QED BY <2>1, <2>2
<1> QED BY <1>2, <1>3, <1>5 DEF TypeInv, Shape, SweepShape

LEMMA TypeStep ==
  ASSUME TypeInv, NEW h \in Handlers, Step(h) \/ IgnoreError(h) \/ Fail(h), UNCHANGED env
  PROVE  TypeInv'
<1> USE DEF TypeInv
<1>1. call[h] \in CallRecord /\ (pc[h] # "idle" => call[h].by \in Users /\ call[h].object \in Objects)
  BY CallTypes
<1>2. ASSUME NEW ok \in BOOLEAN, Reply(h, ok), pc[h] # "idle", UNCHANGED sweep,
             presence' \in [Users -> Objects \cup {None}], visitors' \in [Objects -> SUBSET Users]
      PROVE  TypeInv'
  <2>1. TypeOK'
    <3>1. [call[h] EXCEPT !.ok = ok] \in CallRecord
      BY <1>1 DEF CallRecord
    <3> QED BY <1>2, <3>1 DEF Reply, Goto, TypeOK, Steps
  <2>2. Shape'
    BY <1>2 DEF Reply, Goto, TypeOK, Shape, ShapeOf, SweepShape, CallRecord, Visiting, Leaving
  <2> QED BY <2>1, <2>2
<1>3. ASSUME NEW step \in {"sadd", "set"}, Goto(h, step), UNCHANGED <<presence, call, sweep>>,
             visitors' \in [Objects -> SUBSET Users],
             pc[h] \in Visiting
      PROVE  TypeInv'
  <2>1. TypeOK'
    BY <1>3 DEF Goto, TypeOK, Steps
  <2>2. Shape'
    BY <1>3 DEF Goto, TypeOK, Shape, ShapeOf, SweepShape, Visiting, Leaving
  <2> QED BY <2>1, <2>2
<1>4. CASE CurrentObject(h)
  <2> DEFINE prev == presence[call[h].by]
  <2>1. /\ pc[h] = "get_prev" /\ UNCHANGED <<presence, visitors, sweep>>
        /\ pc' = [pc EXCEPT ![h] = IF Elsewhere(prev, call[h].object) THEN "srem_prev" ELSE "sadd"]
        /\ call' = [call EXCEPT ![h].prev = prev]
    BY <1>4 DEF CurrentObject, Goto
  <2>2. prev \in Objects \cup {None}
    BY <1>1, <2>1 DEF TypeOK
  <2>3. TypeOK'
    BY <2>1, <2>2 DEF TypeOK, CallRecord, Steps
  <2>4. Shape'
    BY <2>1, <2>2 DEF Elsewhere, TypeOK, Shape, ShapeOf, SweepShape, CallRecord, Visiting, Leaving
  <2> QED BY <2>3, <2>4
<1>5. CASE RemovePrevious(h)
  BY <1>1, <1>3, <1>5 DEF RemovePrevious, TypeOK, Visiting
<1>6. CASE AddVisitor(h)
  BY <1>1, <1>3, <1>6 DEF AddVisitor, TypeOK, Visiting
<1>7. CASE SetPresence(h)
  BY <1>1, <1>2, <1>7 DEF SetPresence, TypeOK
<1>8. CASE RemoveVisitor(h)
  <2>1. visitors' \in [Objects -> SUBSET Users]
    BY <1>8 DEF RemoveVisitor, TypeOK
  <2>2. pc[h] = "srem" /\ pc' = [pc EXCEPT ![h] = "del"] /\ UNCHANGED <<presence, call, sweep>>
    BY <1>8 DEF RemoveVisitor, Goto
  <2>3. TypeOK'
    BY <2>1, <2>2 DEF TypeOK, Steps
  <2>4. Shape'
    BY <2>2 DEF TypeOK, Shape, ShapeOf, SweepShape, Visiting, Leaving
  <2> QED BY <2>3, <2>4
<1>9. CASE DelPresence(h)
  BY <1>1, <1>2, <1>9 DEF DelPresence, TypeOK
<1>10. CASE Return(h)
  <2>1. IdleCall \in CallRecord
    BY DEF IdleCall, CallRecord
  <2>2. TypeOK'
    BY <1>10, <2>1 DEF Return, Goto, TypeOK, Steps
  <2>3. IdleCall.by = None /\ IdleCall.ok = FALSE
    BY DEF IdleCall
  <2>4. Shape'
    BY <1>10, <2>3 DEF Return, Goto, TypeOK, Shape, ShapeOf, SweepShape, Visiting, Leaving
  <2> QED BY <2>2, <2>4
<1>11. CASE IgnoreError(h)
  BY <1>1, <1>3, <1>11 DEF IgnoreError, TypeOK, Visiting
<1>12. CASE Fail(h)
  BY <1>1, <1>2, <1>12 DEF Fail, TypeOK, Shape, ShapeOf
<1> QED BY <1>4, <1>5, <1>6, <1>7, <1>8, <1>9, <1>10, <1>11, <1>12 DEF Step

LEMMA TypeRest ==
  ASSUME TypeInv, (\E u \in Users : Expire(u)) \/ Janitor \/ SkipInSweep \/ UNCHANGED vars,
         UNCHANGED env
  PROVE  TypeInv'
<1> USE DEF TypeInv
<1>1. sweep \in SweepRecord
  BY DEF TypeOK
<1>2. ASSUME sweep' \in SweepRecord, SweepShape', UNCHANGED <<pc, call, presence>>,
             visitors' \in [Objects -> SUBSET Users]
      PROVE  TypeInv'
  BY <1>2 DEF TypeOK, Shape, ShapeOf
<1>3. ASSUME NEW u \in Users, Expire(u) PROVE TypeInv'
  BY <1>3 DEF Expire, TypeOK, Shape, ShapeOf, SweepShape
<1>4. CASE Scan
  BY <1>1, <1>2, <1>4 DEF Scan, SweepRecord, SweepPcs, SweepShape, TypeOK
<1>5. CASE ReadSet
  <2>1. PICK o \in sweep.keys :
          sweep' = [sweep EXCEPT !.at = "members", !.keys = @ \ {o}, !.object = o, !.todo = visitors[o]]
    BY <1>5 DEF ReadSet
  <2>2. o \in Objects /\ visitors[o] \in SUBSET Users
    BY <1>1 DEF SweepRecord, TypeOK
  <2>3. sweep' = [at |-> "members", keys |-> sweep.keys \ {o}, object |-> o, todo |-> visitors[o], user |-> sweep.user]
    BY <1>1, <2>1 DEF SweepRecord
  <2>4. sweep' \in SweepRecord
    BY <1>1, <2>2, <2>3 DEF SweepRecord, SweepPcs
  <2>5. SweepShape'
    BY <2>2, <2>3 DEF SweepShape
  <2> QED BY <1>2, <1>5, <2>4, <2>5 DEF ReadSet, TypeOK
<1>6. CASE CheckMember
  <2>1. PICK u \in sweep.todo :
          sweep' = IF presence[u] = None
                   THEN [sweep EXCEPT !.at = "remove", !.todo = @ \ {u}, !.user = u]
                   ELSE [sweep EXCEPT !.todo = @ \ {u}]
    BY <1>6 DEF CheckMember
  <2>2. sweep.at = "members" /\ u \in Users /\ sweep.object \in Objects
    BY <1>1, <1>6 DEF CheckMember, SweepRecord, Shape, SweepShape
  <2>3. sweep' = [at |-> IF presence[u] = None THEN "remove" ELSE "members",
                  keys |-> sweep.keys, object |-> sweep.object, todo |-> sweep.todo \ {u},
                  user |-> IF presence[u] = None THEN u ELSE sweep.user]
    BY <1>1, <2>1, <2>2 DEF SweepRecord
  <2>4. sweep' \in SweepRecord
    BY <1>1, <2>2, <2>3 DEF SweepRecord, SweepPcs
  <2>5. SweepShape'
    BY <2>2, <2>3 DEF SweepShape
  <2> QED BY <1>2, <1>6, <2>4, <2>5 DEF CheckMember, TypeOK
<1>7. CASE RemoveStaleVisitor
  BY <1>1, <1>2, <1>7 DEF RemoveStaleVisitor, SweepRecord, SweepPcs, SweepShape, Shape, TypeOK
<1>8. CASE NextSet
  BY <1>1, <1>2, <1>8 DEF NextSet, SweepRecord, SweepPcs, SweepShape, TypeOK
<1>9. CASE EndSweep
  BY <1>2, <1>9 DEF EndSweep, Resting, SweepRecord, SweepPcs, SweepShape, TypeOK
<1>10. CASE SkipInSweep
  <2>1. /\ UNCHANGED <<presence, visitors, pc, call>>
        /\ \/ \E o \in sweep.keys : sweep' = [sweep EXCEPT !.keys = @ \ {o}]
           \/ \E u \in sweep.todo : sweep' = [sweep EXCEPT !.todo = @ \ {u}]
           \/ sweep' = [sweep EXCEPT !.at = "members", !.user = None] /\ sweep.at = "remove"
           \/ sweep' = Resting
    BY <1>10 DEF SkipInSweep
  <2>2. CASE \E o \in sweep.keys : sweep' = [sweep EXCEPT !.keys = @ \ {o}]
    BY <1>1, <1>2, <2>1, <2>2 DEF SweepRecord, SweepShape, Shape, TypeOK
  <2>3. CASE \E u \in sweep.todo : sweep' = [sweep EXCEPT !.todo = @ \ {u}]
    BY <1>1, <1>2, <2>1, <2>3 DEF SweepRecord, SweepShape, Shape, TypeOK
  <2>4. CASE sweep' = [sweep EXCEPT !.at = "members", !.user = None] /\ sweep.at = "remove"
    BY <1>1, <1>2, <2>1, <2>4 DEF SweepRecord, SweepPcs, SweepShape, Shape, TypeOK
  <2>5. CASE sweep' = Resting
    BY <1>2, <2>1, <2>5 DEF Resting, SweepRecord, SweepPcs, SweepShape, TypeOK
  <2> QED BY <2>1, <2>2, <2>3, <2>4, <2>5
<1>11. CASE UNCHANGED vars
  BY <1>1, <1>11 DEF vars, TypeOK, Shape, ShapeOf, SweepShape
<1> QED BY <1>3, <1>4, <1>5, <1>6, <1>7, <1>8, <1>9, <1>10, <1>11 DEF Janitor

LEMMA EnvFixed == [Next]_vars => env' = env
  BY DEF Next, vars

LEMMA TypeInvariant == Spec => []TypeInv
<1>1. TypeInv /\ [Next]_vars => TypeInv'
  BY TypeBegin, TypeStep, TypeRest DEF Next, Begin, vars
<1> QED BY TypeInit, <1>1, PTL DEF Spec

\* Every variable of Presence keeps its type, with every happening.
THEOREM PresenceTypeCorrect == Spec => []TypeOK
  BY TypeInvariant, PTL DEF TypeInv

--------------------------------------------------------------------------------
\* One call per user, and what it changes: nothing of another call and nothing of
\* another user.
OneCall == \A g, h \in Handlers : call[g].by = call[h].by /\ call[h].by # None => g = h

Works(h) == Step(h) \/ IgnoreError(h) \/ Fail(h)

SameCall(h) == call'[h] = call[h] /\ pc'[h] = pc[h]

SameUser(u) == presence'[u] = presence[u] /\ \A o \in Objects : u \in visitors'[o] <=> u \in visitors[o]

LEMMA OtherCalls ==
  ASSUME TypeInv, NEW h \in Handlers, Works(h) \/ Begin(h), NEW g \in Handlers, g # h
  PROVE  SameCall(g)
  BY DEF Works, Begin, Step, IgnoreError, Fail, ChangeMapObjectStatus, CurrentObject, RemovePrevious,
         AddVisitor, SetPresence, RemoveVisitor, DelPresence, Return, Reply, Goto, SameCall,
         TypeInv, TypeOK

LEMMA OtherUsers ==
  ASSUME TypeInv, NEW h \in Handlers, Works(h), NEW u \in Users, u # call[h].by
  PROVE  SameUser(u)
<1> USE DEF TypeInv, TypeOK, SameUser
<1>1. CASE RemovePrevious(h) \/ AddVisitor(h) \/ RemoveVisitor(h)
  BY <1>1 DEF RemovePrevious, AddVisitor, RemoveVisitor
<1>2. CASE SetPresence(h) \/ DelPresence(h)
  BY <1>2 DEF SetPresence, DelPresence
<1>3. CASE CurrentObject(h) \/ Return(h) \/ IgnoreError(h) \/ Fail(h)
  BY <1>3 DEF CurrentObject, Return, IgnoreError, Fail
<1> QED BY <1>1, <1>2, <1>3 DEF Works, Step

LEMMA SameCaller ==
  ASSUME TypeInv, NEW h \in Handlers, Works(h)
  PROVE  call'[h].by \in {call[h].by, None}
<1> USE DEF TypeInv, TypeOK
<1>1. CASE Return(h)
  BY <1>1 DEF Return, IdleCall
<1>2. CASE ~Return(h)
  BY <1>2, CallTypes DEF Works, Step, IgnoreError, Fail, CurrentObject, RemovePrevious, AddVisitor,
         SetPresence, RemoveVisitor, DelPresence, Reply, Goto, CallRecord
<1> QED BY <1>1, <1>2

LEMMA OneCallKept ==
  ASSUME TypeInv, OneCall, [Next]_vars, "overlap" \notin env
  PROVE  OneCall'
<1>1. ASSUME NEW h \in Handlers, \A g \in Handlers : g # h => SameCall(g),
             call'[h].by \in {call[h].by, None} \/ ~Busy(call'[h].by)
      PROVE  OneCall'
  BY <1>1 DEF OneCall, SameCall, Busy
<1>2. ASSUME NEW h \in Handlers, Works(h) PROVE OneCall'
  BY <1>1, <1>2, OtherCalls, SameCaller
<1>3. ASSUME NEW h \in Handlers, Begin(h) PROVE OneCall'
  <2>1. PICK u \in Users, o \in Objects, action \in Actions : ChangeMapObjectStatus(h, u, o, action)
    BY <1>3 DEF Begin
  <2>2. call'[h].by = u /\ ~Busy(u)
    BY <2>1 DEF ChangeMapObjectStatus, TypeInv, TypeOK
  <2> QED BY <1>1, <1>3, <2>2, OtherCalls
<1>4. CASE UNCHANGED call
  BY <1>4 DEF OneCall
<1> QED BY <1>2, <1>3, <1>4 DEF Works, Next, Expire, Janitor, Scan, ReadSet, CheckMember,
                               RemoveStaleVisitor, NextSet, EndSweep, SkipInSweep, vars

--------------------------------------------------------------------------------
\* The user of a NOT_VISITING call is out of the set once the SREM has run.
LeftOf(h) ==
  LET c == call[h] IN
  /\ pc[h] = "del" => c.by \notin visitors[c.object]
  /\ c.ok /\ c.action = "NOT_VISITING" => c.by \notin visitors[c.object] /\ presence[c.by] = None

LeftInv == OneCall /\ \A h \in Handlers : LeftOf(h)

\* Another user's call disturbs nothing that is said of a user.
LEMMA LeftFrame ==
  ASSUME TypeInv, LeftInv, NEW h \in Handlers, SameCall(h), pc[h] # "idle" => SameUser(call[h].by)
  PROVE  LeftOf(h)'
  BY CallTypes DEF LeftInv, LeftOf, SameCall, SameUser, TypeInv, Shape, ShapeOf

LEMMA LeftStep ==
  ASSUME TypeInv, LeftInv, NEW h \in Handlers, Works(h)
  PROVE  LeftOf(h)'
<1> USE DEF TypeInv, TypeOK, Shape, ShapeOf, Visiting, Leaving
<1>0. call[h] \in CallRecord /\ (pc[h] # "idle" => call[h].by \in Users /\ call[h].object \in Objects)
  BY CallTypes
<1>1. CASE RemoveVisitor(h)
  BY <1>0, <1>1 DEF RemoveVisitor, Goto, LeftOf
<1>2. CASE DelPresence(h)
  BY <1>0, <1>2 DEF DelPresence, Reply, Goto, LeftInv, LeftOf, CallRecord
<1>3. CASE SetPresence(h)
  BY <1>0, <1>3 DEF SetPresence, Reply, Goto, LeftOf, CallRecord
<1>4. CASE CurrentObject(h) \/ RemovePrevious(h) \/ AddVisitor(h) \/ IgnoreError(h)
  BY <1>0, <1>4 DEF CurrentObject, RemovePrevious, AddVisitor, IgnoreError, Goto, LeftOf, CallRecord
<1>5. CASE Return(h)
  BY <1>5 DEF Return, Goto, IdleCall, LeftOf
<1>6. CASE Fail(h)
  BY <1>0, <1>6 DEF Fail, Reply, Goto, LeftOf, CallRecord
<1> QED BY <1>1, <1>2, <1>3, <1>4, <1>5, <1>6 DEF Works, Step

LEMMA LeftKept ==
  ASSUME TypeInv, LeftInv, [Next]_vars, "overlap" \notin env
  PROVE  LeftInv'
<1> USE DEF TypeInv, TypeOK
<1>1. OneCall'
  BY OneCallKept DEF LeftInv
<1>2. ASSUME NEW h \in Handlers, Works(h), NEW g \in Handlers PROVE LeftOf(g)'
  <2>1. CASE g = h
    BY <1>2, <2>1, LeftStep
  <2>2. CASE g # h
    <3>1. pc[g] # "idle" => call[g].by \in Users /\ call[g].by # call[h].by
      BY <2>2, CallTypes, PresenceAssumption DEF LeftInv, OneCall
    <3> QED BY <1>2, <2>2, <3>1, OtherCalls, OtherUsers, LeftFrame
  <2> QED BY <2>1, <2>2
<1>3. ASSUME NEW h \in Handlers, Begin(h), NEW g \in Handlers PROVE LeftOf(g)'
  <2>1. CASE g = h
    BY <1>3, <2>1 DEF Begin, ChangeMapObjectStatus, Goto, LeftOf
  <2>2. CASE g # h
    <3>1. UNCHANGED <<presence, visitors>>
      BY <1>3 DEF Begin, ChangeMapObjectStatus
    <3> QED BY <1>3, <2>2, <3>1, OtherCalls, LeftFrame DEF SameUser
  <2> QED BY <2>1, <2>2
<1>4. ASSUME UNCHANGED <<pc, call>>, NEW g \in Handlers,
             \A u \in Users : presence'[u] \in {presence[u], None},
             \A o \in Objects : visitors'[o] \subseteq visitors[o]
      PROVE  LeftOf(g)'
  BY <1>4, CallTypes DEF LeftInv, LeftOf, Shape, ShapeOf
<1>5. ASSUME NEW u \in Users, Expire(u) PROVE \A g \in Handlers : LeftOf(g)'
  BY <1>4, <1>5 DEF Expire
<1>6. ASSUME Janitor \/ SkipInSweep \/ UNCHANGED vars PROVE \A g \in Handlers : LeftOf(g)'
  <2>1. CASE RemoveStaleVisitor
    BY <1>4, <2>1 DEF RemoveStaleVisitor
  <2>2. CASE ~RemoveStaleVisitor
    BY <1>4, <1>6, <2>2 DEF Janitor, Scan, ReadSet, CheckMember, NextSet, EndSweep, SkipInSweep, vars
  <2> QED BY <2>1, <2>2
<1>7. \/ \E h \in Handlers : Works(h) \/ Begin(h)
      \/ \E u \in Users : Expire(u)
      \/ Janitor \/ SkipInSweep \/ UNCHANGED vars
  BY DEF Next, Works
<1> HIDE DEF TypeInv, TypeOK
<1>8. \A g \in Handlers : LeftOf(g)'
  BY <1>2, <1>3, <1>5, <1>6, <1>7
<1> QED BY <1>1, <1>8 DEF LeftInv

\* When every user has one call in flight at a time, a NOT_VISITING that replied ok
\* has left the user uncounted at the object and present nowhere.
THEOREM LeavesClear ==
  Spec => []LeftMeansGone
<1> DEFINE Inv == "overlap" \notin env => LeftInv
<1>1. Init => Inv
  BY DEF Init, LeftInv, OneCall, LeftOf, IdleCall
<1>2. TypeInv /\ Inv /\ [Next]_vars => Inv'
  BY LeftKept, EnvFixed
<1>3. Inv => LeftMeansGone
  BY DEF LeftInv, LeftOf, LeftMeansGone, Without
<1> HIDE DEF Inv
<1> QED BY <1>1, <1>2, <1>3, TypeInvariant, PTL DEF Spec

--------------------------------------------------------------------------------
\* The user of a VISITING call is in the set once the SADD has run.
VisitedOf(h) ==
  LET c == call[h] IN
  /\ pc[h] = "set" => c.by \in visitors[c.object]
  /\ c.ok /\ c.action = "VISITING" => c.by \in visitors[c.object] /\ presence[c.by] \in {c.object, None}

VisitInv == OneCall /\ sweep.at = "rest" /\ \A h \in Handlers : VisitedOf(h)

LEMMA VisitFrame ==
  ASSUME TypeInv, VisitInv, NEW h \in Handlers, SameCall(h), pc[h] # "idle" => SameUser(call[h].by)
  PROVE  VisitedOf(h)'
  BY CallTypes DEF VisitInv, VisitedOf, SameCall, SameUser, TypeInv, Shape, ShapeOf

LEMMA VisitStep ==
  ASSUME TypeInv, VisitInv, NEW h \in Handlers, Works(h)
  PROVE  VisitedOf(h)'
<1> USE DEF TypeInv, TypeOK, Shape, ShapeOf, Visiting, Leaving
<1>0. call[h] \in CallRecord /\ (pc[h] # "idle" => call[h].by \in Users /\ call[h].object \in Objects)
  BY CallTypes
<1>1. CASE AddVisitor(h)
  BY <1>0, <1>1 DEF AddVisitor, Goto, VisitedOf
<1>2. CASE SetPresence(h)
  BY <1>0, <1>2 DEF SetPresence, Reply, Goto, VisitInv, VisitedOf, CallRecord
<1>3. CASE DelPresence(h)
  BY <1>0, <1>3 DEF DelPresence, Reply, Goto, VisitedOf, CallRecord
<1>4. CASE CurrentObject(h) \/ RemovePrevious(h) \/ RemoveVisitor(h) \/ IgnoreError(h)
  BY <1>0, <1>4 DEF CurrentObject, RemovePrevious, RemoveVisitor, IgnoreError, Goto, VisitedOf, CallRecord
<1>5. CASE Return(h)
  BY <1>5 DEF Return, Goto, IdleCall, VisitedOf
<1>6. CASE Fail(h)
  BY <1>0, <1>6 DEF Fail, Reply, Goto, VisitedOf, CallRecord
<1> QED BY <1>1, <1>2, <1>3, <1>4, <1>5, <1>6 DEF Works, Step

LEMMA VisitKept ==
  ASSUME TypeInv, VisitInv, [Next]_vars, "overlap" \notin env, "janitor" \notin env
  PROVE  VisitInv'
<1> USE DEF TypeInv, TypeOK
<1>1. OneCall'
  BY OneCallKept DEF VisitInv
<1>2. ASSUME NEW h \in Handlers, Works(h) PROVE \A g \in Handlers : VisitedOf(g)'
  <2> SUFFICES ASSUME NEW g \in Handlers PROVE VisitedOf(g)'
    OBVIOUS
  <2>1. CASE g = h
    BY <1>2, <2>1, VisitStep
  <2>2. CASE g # h
    <3>1. pc[g] # "idle" => call[g].by \in Users /\ call[g].by # call[h].by
      BY <2>2, CallTypes, PresenceAssumption DEF VisitInv, OneCall
    <3> QED BY <1>2, <2>2, <3>1, OtherCalls, OtherUsers, VisitFrame
  <2> QED BY <2>1, <2>2
<1>3. ASSUME NEW h \in Handlers, Begin(h) PROVE \A g \in Handlers : VisitedOf(g)'
  <2> SUFFICES ASSUME NEW g \in Handlers PROVE VisitedOf(g)'
    OBVIOUS
  <2>1. CASE g = h
    BY <1>3, <2>1 DEF Begin, ChangeMapObjectStatus, Goto, VisitedOf
  <2>2. CASE g # h
    <3>1. UNCHANGED <<presence, visitors>>
      BY <1>3 DEF Begin, ChangeMapObjectStatus
    <3> QED BY <1>3, <2>2, <3>1, OtherCalls, VisitFrame DEF SameUser
  <2> QED BY <2>1, <2>2
<1>4. ASSUME UNCHANGED <<pc, call, visitors>>, \A u \in Users : presence'[u] \in {presence[u], None}
      PROVE  \A g \in Handlers : VisitedOf(g)'
  BY <1>4, CallTypes DEF VisitInv, VisitedOf, Shape, ShapeOf
<1>5. ASSUME NEW u \in Users, Expire(u) PROVE \A g \in Handlers : VisitedOf(g)'
  BY <1>4, <1>5 DEF Expire
<1>6. ~Janitor /\ ~SkipInSweep
  BY DEF VisitInv, Janitor, Scan, ReadSet, CheckMember, RemoveStaleVisitor, NextSet, EndSweep, SkipInSweep
<1>7. CASE UNCHANGED vars
  BY <1>1, <1>4, <1>7 DEF vars, VisitInv
<1>8. CASE \E u \in Users : Expire(u)
  BY <1>1, <1>5, <1>8 DEF Expire, VisitInv
<1>9. CASE \E h \in Handlers : Works(h)
  BY <1>1, <1>2, <1>9 DEF Works, Step, IgnoreError, Fail, CurrentObject, RemovePrevious, AddVisitor,
         SetPresence, RemoveVisitor, DelPresence, Return, VisitInv
<1>10. CASE \E h \in Handlers : Begin(h)
  BY <1>1, <1>3, <1>10 DEF Begin, ChangeMapObjectStatus, VisitInv
<1> QED BY <1>6, <1>7, <1>8, <1>9, <1>10 DEF Next, Works

LEMMA VisitInit == Init => VisitInv
  BY DEF Init, VisitInv, OneCall, VisitedOf, IdleCall, Resting

\* When every user has one call in flight at a time and the janitor does not run, a
\* VISITING that replied ok has counted the user at the object.
THEOREM VisitsCount ==
  Spec => []VisitedMeansCounted
<1> DEFINE Inv == "overlap" \notin env /\ "janitor" \notin env => VisitInv
<1>1. Init => Inv
  BY VisitInit
<1>2. TypeInv /\ Inv /\ [Next]_vars => Inv'
  BY VisitKept, EnvFixed
<1>3. Inv => VisitedMeansCounted
  BY DEF VisitInv, VisitedOf, VisitedMeansCounted, Without
<1> HIDE DEF Inv
<1> QED BY <1>1, <1>2, <1>3, TypeInvariant, PTL DEF Spec

--------------------------------------------------------------------------------
\* Without failures a call that is done has replied ok, so what it leaves behind is
\* known when its user becomes idle.
DoneIsOk == \A h \in Handlers : pc[h] = "done" => call[h].ok

Backed == \A u \in Users : ~Busy(u) /\ presence[u] # None => u \in visitors[presence[u]]

PresentInv == TypeInv /\ VisitInv /\ LeftInv /\ DoneIsOk /\ Backed

LEMMA DoneKept ==
  ASSUME TypeInv, DoneIsOk, [Next]_vars, "failure" \notin env
  PROVE  DoneIsOk'
<1> USE DEF TypeInv, TypeOK
<1>1. ASSUME NEW h \in Handlers, Works(h) PROVE pc'[h] = "done" => call'[h].ok
  BY <1>1 DEF Works, Step, IgnoreError, Fail, CurrentObject, RemovePrevious, AddVisitor, SetPresence,
         RemoveVisitor, DelPresence, Return, Reply, Goto, Elsewhere, CallRecord
<1>2. ASSUME NEW h \in Handlers, Begin(h) PROVE pc'[h] # "done"
  BY <1>2 DEF Begin, ChangeMapObjectStatus, Goto
<1>3. CASE UNCHANGED <<pc, call>>
  BY <1>3 DEF DoneIsOk
<1>4. ASSUME NEW h \in Handlers, Works(h) \/ Begin(h) PROVE DoneIsOk'
  BY <1>1, <1>2, <1>4, OtherCalls DEF DoneIsOk, SameCall
<1> QED BY <1>3, <1>4 DEF Works, Next, Expire, Janitor, Scan, ReadSet, CheckMember,
                          RemoveStaleVisitor, NextSet, EndSweep, SkipInSweep, vars

LEMMA PresentKept ==
  ASSUME PresentInv, [Next]_vars, "janitor" \notin env
  PROVE  Backed'
<1> USE DEF PresentInv, TypeInv, TypeOK
<1>1. ASSUME NEW h \in Handlers, Works(h), NEW u \in Users, ~Busy(u)', presence'[u] # None
      PROVE  u \in visitors'[presence'[u]]
  <2>1. CASE u # call[h].by
    <3>1. ~Busy(u)
      BY <1>1, <2>1, OtherCalls DEF Busy, SameCall
    <3>2. SameUser(u)
      BY <1>1, <2>1, OtherUsers
    <3> QED BY <1>1, <3>1, <3>2 DEF Backed, SameUser
  <2>2. CASE u = call[h].by
    <3>1. call'[h].by # u
      BY <1>1 DEF Busy
    <3>2. Return(h)
      BY <1>1, <2>2, <3>1, CallTypes DEF Works, Step, IgnoreError, Fail, CurrentObject, RemovePrevious,
             AddVisitor, SetPresence, RemoveVisitor, DelPresence, Reply, Goto, CallRecord
    <3>3. call[h].ok /\ call[h].action \in Actions
      BY <3>2 DEF Return, DoneIsOk, Shape, ShapeOf
    <3> QED BY <1>1, <2>2, <3>2, <3>3 DEF Return, VisitInv, VisitedOf, LeftInv, LeftOf, Actions
  <2> QED BY <2>1, <2>2
<1>2. ASSUME NEW h \in Handlers, Begin(h), NEW u \in Users, ~Busy(u)' PROVE ~Busy(u)
  <2>1. call[h].by = None
    BY <1>2 DEF Begin, ChangeMapObjectStatus, Shape, ShapeOf
  <2> QED BY <1>2, <2>1, OtherCalls, PresenceAssumption DEF Busy, SameCall
<1>3. CASE \E h \in Handlers : Works(h)
  BY <1>1, <1>3 DEF Backed
<1>4. CASE \E h \in Handlers : Begin(h)
  BY <1>2, <1>4 DEF Begin, ChangeMapObjectStatus, Backed
<1>5. CASE (\E u \in Users : Expire(u)) \/ UNCHANGED vars
  BY <1>5 DEF Expire, vars, Backed, Busy
<1>6. ~Janitor /\ ~SkipInSweep
  BY DEF VisitInv, Janitor, Scan, ReadSet, CheckMember, RemoveStaleVisitor, NextSet, EndSweep, SkipInSweep
<1> QED BY <1>3, <1>4, <1>5, <1>6 DEF Next, Works

\* When besides no call fails half way, a user with no call in flight who holds a
\* presence is counted at the object the presence names.
THEOREM PresentCounts ==
  Spec => []PresentIsCounted
<1> DEFINE Calm == "overlap" \notin env /\ "janitor" \notin env /\ "failure" \notin env
           Inv  == Calm => PresentInv
<1>1. Init => Inv
  BY TypeInit, VisitInit DEF Init, PresentInv, LeftInv, OneCall, LeftOf, IdleCall, DoneIsOk, Backed
<1>2. TypeInv /\ Inv /\ [Next]_vars => Inv'
  <2>1. TypeInv /\ [Next]_vars => TypeInv'
    BY TypeBegin, TypeStep, TypeRest DEF Next, Begin, vars
  <2>2. PresentInv /\ Calm /\ [Next]_vars => PresentInv'
    BY <2>1, VisitKept, LeftKept, DoneKept, PresentKept DEF PresentInv
  <2> QED BY <2>2, EnvFixed
<1>3. Inv => PresentIsCounted
  BY DEF PresentInv, Backed, PresentIsCounted, Without
<1> HIDE DEF Inv
<1> QED BY <1>1, <1>2, <1>3, TypeInvariant, PTL DEF Spec

--------------------------------------------------------------------------------
\* Where a user is counted while a call of theirs is under way and nothing happens
\* but calls.
Settled(u) == Counted(u) = {presence[u]} \ {None}

OnceOf(h) ==
  LET c == call[h] IN
  /\ pc[h] \in {"get_prev", "srem", "done"} => Settled(c.by)
  /\ pc[h] = "srem_prev" => Counted(c.by) = {c.prev}
  /\ pc[h] = "sadd" => Counted(c.by) \subseteq {c.object}
  /\ pc[h] = "set" => Counted(c.by) = {c.object}
  /\ pc[h] = "srem" => presence[c.by] \in {c.object, None}
  /\ pc[h] = "del" => Counted(c.by) = {}

OnceInv ==
  /\ OneCall
  /\ sweep.at = "rest"
  /\ \A h \in Handlers : OnceOf(h)
  /\ \A u \in Users : ~Busy(u) => Settled(u)

LEMMA OnceFrame ==
  ASSUME TypeInv, OnceInv, NEW h \in Handlers, SameCall(h), pc[h] # "idle" => SameUser(call[h].by)
  PROVE  OnceOf(h)'
<1>1. CASE pc[h] = "idle"
  BY <1>1 DEF SameCall, OnceOf
<1>2. CASE pc[h] # "idle"
  <2>1. Counted(call[h].by)' = Counted(call[h].by)
    BY <1>2 DEF SameCall, SameUser, Counted
  <2>2. OnceOf(h) /\ presence'[call[h].by] = presence[call[h].by]
    BY <1>2 DEF OnceInv, SameUser
  <2> QED BY <2>1, <2>2 DEF SameCall, OnceOf, Settled
<1> QED BY <1>1, <1>2

LEMMA OnceStep ==
  ASSUME TypeInv, OnceInv, NEW h \in Handlers, Step(h)
  PROVE  OnceOf(h)'
<1> USE DEF TypeInv, TypeOK, Shape, ShapeOf, Visiting, Leaving
<1>0. call[h] \in CallRecord /\ (pc[h] # "idle" => call[h].by \in Users /\ call[h].object \in Objects)
  BY CallTypes
<1>1. OnceOf(h)
  BY DEF OnceInv
<1>2. CASE CurrentObject(h)
  <2>1. /\ pc[h] = "get_prev" /\ UNCHANGED <<presence, visitors>>
        /\ pc'[h] = IF Elsewhere(presence[call[h].by], call[h].object) THEN "srem_prev" ELSE "sadd"
        /\ call'[h].by = call[h].by /\ call'[h].object = call[h].object
        /\ call'[h].prev = presence[call[h].by]
    BY <1>0, <1>2 DEF CurrentObject, Goto, CallRecord
  <2>2. Counted(call[h].by)' = {presence[call[h].by]} \ {None}
    BY <1>1, <2>1 DEF OnceOf, Settled, Counted
  <2> QED BY <2>1, <2>2 DEF OnceOf, Elsewhere
<1>3. CASE RemovePrevious(h)
  <2>1. pc'[h] = "sadd" /\ call'[h] = call[h]
    BY <1>3 DEF RemovePrevious, Goto
  <2>2. Counted(call[h].by)' = Counted(call[h].by) \ {call[h].prev}
    BY <1>0, <1>3 DEF RemovePrevious, Counted
  <2>3. Counted(call[h].by)' = {}
    BY <1>1, <1>3, <2>2 DEF RemovePrevious, OnceOf
  <2> QED BY <2>1, <2>3 DEF OnceOf
<1>4. CASE AddVisitor(h)
  <2>1. pc'[h] = "set" /\ call'[h] = call[h]
    BY <1>4 DEF AddVisitor, Goto
  <2>2. Counted(call[h].by)' = Counted(call[h].by) \cup {call[h].object}
    BY <1>0, <1>4 DEF AddVisitor, Counted
  <2>3. Counted(call[h].by)' = {call[h].object}
    BY <1>1, <1>4, <2>2 DEF AddVisitor, OnceOf
  <2> QED BY <2>1, <2>3 DEF OnceOf
<1>5. CASE SetPresence(h)
  <2>1. /\ pc'[h] = "done" /\ call'[h].by = call[h].by /\ UNCHANGED visitors
        /\ presence'[call[h].by] = call[h].object
    BY <1>0, <1>5 DEF SetPresence, Reply, Goto, CallRecord
  <2>2. Counted(call[h].by)' = {call[h].object}
    BY <1>1, <1>5, <2>1 DEF SetPresence, OnceOf, Counted
  <2> QED BY <1>0, <1>5, <2>1, <2>2, PresenceAssumption DEF SetPresence, OnceOf, Settled
<1>6. CASE RemoveVisitor(h)
  <2>1. pc'[h] = "del" /\ call'[h] = call[h]
    BY <1>6 DEF RemoveVisitor, Goto
  <2>2. Counted(call[h].by)' = Counted(call[h].by) \ {call[h].object}
    BY <1>0, <1>6 DEF RemoveVisitor, Counted
  <2>3. Counted(call[h].by)' = {}
    BY <1>1, <1>6, <2>2 DEF RemoveVisitor, OnceOf, Settled
  <2> QED BY <2>1, <2>3 DEF OnceOf
<1>7. CASE DelPresence(h)
  <2>1. /\ pc'[h] = "done" /\ call'[h].by = call[h].by /\ UNCHANGED visitors
        /\ presence'[call[h].by] = None
    BY <1>0, <1>7 DEF DelPresence, Reply, Goto, CallRecord
  <2>2. Counted(call[h].by)' = {}
    BY <1>1, <1>7, <2>1 DEF DelPresence, OnceOf, Counted
  <2> QED BY <2>1, <2>2 DEF OnceOf, Settled
<1>8. CASE Return(h)
  BY <1>8 DEF Return, Goto, OnceOf
<1> QED BY <1>2, <1>3, <1>4, <1>5, <1>6, <1>7, <1>8 DEF Step

\* Who is not busy after a step was not before, or their call has just returned.
LEMMA OnceIdle ==
  ASSUME TypeInv, OnceInv, NEW h \in Handlers, Step(h), NEW u \in Users, ~Busy(u)'
  PROVE  Settled(u)'
<1> USE DEF TypeInv, TypeOK
<1>1. CASE u # call[h].by
  <2>1. ~Busy(u)
    BY <1>1, OtherCalls DEF Busy, SameCall, Works
  <2>2. SameUser(u)
    BY <1>1, OtherUsers DEF Works
  <2> QED BY <2>1, <2>2 DEF OnceInv, Settled, Counted, SameUser
<1>2. CASE u = call[h].by
  <2>1. call'[h].by # u
    BY DEF Busy
  <2>2. Return(h)
    BY <1>2, <2>1, CallTypes DEF Step, CurrentObject, RemovePrevious, AddVisitor, SetPresence,
           RemoveVisitor, DelPresence, Reply, Goto, CallRecord
  <2>3. Settled(u)
    BY <1>2, <2>2 DEF Return, OnceInv, OnceOf
  <2> QED BY <2>2, <2>3 DEF Return, Settled, Counted
<1> QED BY <1>1, <1>2

LEMMA OnceBegin ==
  ASSUME TypeInv, OnceInv, env = {}, NEW h \in Handlers, Begin(h)
  PROVE  /\ UNCHANGED <<presence, visitors, sweep>>
         /\ OnceOf(h)'
         /\ \A u \in Users : ~Busy(u)' => ~Busy(u)
<1> USE DEF TypeInv, TypeOK
<1>1. PICK u \in Users, o \in Objects, action \in Actions : ChangeMapObjectStatus(h, u, o, action)
  BY DEF Begin
<1>2. /\ UNCHANGED <<presence, visitors, sweep>>
      /\ pc'[h] = IF action = "VISITING" THEN "get_prev" ELSE "srem"
      /\ call'[h].by = u /\ call'[h].object = o
      /\ ~Busy(u) /\ (action = "VISITING" \/ presence[u] \in {o, None})
  BY <1>1 DEF ChangeMapObjectStatus, Goto
<1>3. Settled(u)'
  BY <1>2 DEF OnceInv, Settled, Counted
<1>4. call[h].by = None
  BY <1>1 DEF ChangeMapObjectStatus, Shape, ShapeOf
<1> QED BY <1>2, <1>3, <1>4, OtherCalls, PresenceAssumption DEF OnceOf, Busy, SameCall

LEMMA OnceKept ==
  ASSUME TypeInv, OnceInv, [Next]_vars, env = {}
  PROVE  OnceInv'
<1> USE DEF TypeInv, TypeOK
<1>1. OneCall'
  BY OneCallKept DEF OnceInv
<1>2. ASSUME NEW h \in Handlers, Step(h) PROVE OnceInv'
  <2>1. ASSUME NEW g \in Handlers PROVE OnceOf(g)'
    <3>1. CASE g = h
      BY <1>2, <3>1, OnceStep
    <3>2. CASE g # h
      <4>1. pc[g] # "idle" => call[g].by \in Users /\ call[g].by # call[h].by
        BY <3>2, CallTypes, PresenceAssumption DEF OnceInv, OneCall
      <4> QED BY <1>2, <3>2, <4>1, OtherCalls, OtherUsers, OnceFrame DEF Works
    <3> QED BY <3>1, <3>2
  <2>2. UNCHANGED sweep
    BY <1>2 DEF Step, CurrentObject, RemovePrevious, AddVisitor, SetPresence, RemoveVisitor, DelPresence, Return
  <2>3. \A u \in Users : ~Busy(u)' => Settled(u)'
    BY <1>2, OnceIdle
  <2> QED BY <1>1, <2>1, <2>2, <2>3 DEF OnceInv
<1>3. ASSUME NEW h \in Handlers, Begin(h) PROVE OnceInv'
  <2>1. /\ UNCHANGED <<presence, visitors, sweep>>
        /\ OnceOf(h)'
        /\ \A u \in Users : ~Busy(u)' => ~Busy(u)
    BY <1>3, OnceBegin
  <2>2. ASSUME NEW g \in Handlers, g # h PROVE OnceOf(g)'
    BY <1>3, <2>1, <2>2, OtherCalls, OnceFrame DEF SameUser
  <2>3. \A u \in Users : ~Busy(u)' => Settled(u)'
    BY <2>1 DEF OnceInv, Settled, Counted
  <2> QED BY <1>1, <2>1, <2>2, <2>3 DEF OnceInv
<1>4. CASE UNCHANGED vars
  <2>1. \A g \in Handlers : OnceOf(g)'
    BY <1>4, OnceFrame DEF vars, SameCall, SameUser
  <2>2. \A u \in Users : ~Busy(u)' => Settled(u)'
    BY <1>4 DEF vars, OnceInv, Busy, Settled, Counted
  <2> QED BY <1>1, <1>4, <2>1, <2>2 DEF vars, OnceInv
<1>5. /\ ~Janitor /\ ~SkipInSweep
      /\ \A u \in Users : ~Expire(u)
      /\ \A h \in Handlers : ~IgnoreError(h) /\ ~Fail(h)
  BY DEF OnceInv, Janitor, Scan, ReadSet, CheckMember, RemoveStaleVisitor, NextSet, EndSweep, SkipInSweep,
         Expire, IgnoreError, Fail
<1> QED BY <1>2, <1>3, <1>4, <1>5 DEF Next

\* When nothing happens but calls, one per user at a time, of users who leave what
\* they visit, a user with no call in flight is counted exactly where present.
THEOREM CountsOnce == Spec => []CountedOnce
<1> DEFINE Inv == env = {} => OnceInv
<1>1. Init => Inv
  BY DEF Init, OnceInv, OneCall, OnceOf, IdleCall, Resting, Settled, Counted
<1>2. TypeInv /\ Inv /\ [Next]_vars => Inv'
  BY OnceKept, EnvFixed
<1>3. Inv => CountedOnce
  BY DEF OnceInv, Settled, CountedOnce
<1> HIDE DEF Inv
<1> QED BY <1>1, <1>2, <1>3, TypeInvariant, PTL DEF Spec
================================================================================
