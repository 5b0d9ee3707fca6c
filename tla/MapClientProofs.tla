----------------------------- MODULE MapClientProofs ---------------------------
(***************************************************************************)
(* Proofs about MapClient: types, that nobody is marked present where he   *)
(* never chose to be, and that the page is polled exactly while in sight.  *)
(***************************************************************************)
EXTENDS MapClient, TLAPS

LEMMA InitType == Init => TypeOK
<1> SUFFICES ASSUME Init PROVE TypeOK
  OBVIOUS
<1> USE MapClientAssumption
<1>1. Idle \in Task /\ Idle.object \notin Objects /\ Idle.step = "idle" /\ Idle.action = "none"
  BY DEF Idle, TaskRecord, Task, Steps
<1>2. task \in [Tasks -> Task] /\ \A t \in Tasks : task[t] = Idle
  BY <1>1 DEF Init
<1> QED
  BY <1>1, <1>2 DEF Init, TypeOK

\* A task that gets a well-formed call keeps the types of all.
WellFormed(r) ==
  /\ r \in Task
  /\ r.step \in {"object", "status"} <=> r.object \in Objects
  /\ r.step = "status" <=> r.action # "none"
TasksOK == task \in [Tasks -> Task] /\ \A t \in Tasks : WellFormed(task[t])

LEMMA SendKeeps ==
  ASSUME TasksOK, NEW t \in Tasks, NEW r, WellFormed(r), Send(t, r)
  PROVE  TasksOK'
BY DEF TasksOK, WellFormed, Send

LEMMA IdleFormed == WellFormed(Idle)
BY MapClientAssumption DEF WellFormed, Idle, TaskRecord, Task, Steps

LEMMA LoadFormed == ASSUME NEW w \in SUBSET Objects PROVE WellFormed(LoadMap(w))
BY MapClientAssumption DEF WellFormed, LoadMap, TaskRecord, Task, Steps

LEMMA FriendsFormed == WellFormed(TaskRecord("friends", None, "none", {}))
BY MapClientAssumption DEF WellFormed, TaskRecord, Task, Steps

LEMMA ObjectFormed == ASSUME NEW o \in Objects PROVE WellFormed(GetMapObject(o))
BY DEF WellFormed, GetMapObject, TaskRecord, Task, Steps

LEMMA StatusFormed ==
  ASSUME NEW o \in Objects, NEW a \in {"VISITING", "NOT_VISITING"}
  PROVE  WellFormed(ChangeStatus(o, a))
BY DEF WellFormed, ChangeStatus, TaskRecord, Task, Steps

\* The types of everything but the tasks.
Rest ==
  /\ presence \in Objects \cup {None}
  /\ objects \in [Objects -> {"absent", "there", "mine"}]
  /\ here \in Objects \cup {None} /\ window \in Windows
  /\ polling \in BOOLEAN /\ beating \in BOOLEAN
  /\ mount \in [Mounts -> {"none", "locating", "ready", "gone", "orphan"}] /\ hidden \in BOOLEAN
  /\ chosen \subseteq Objects /\ env \subseteq Happenings

LEMMA TypeParts == TypeOK <=> Rest /\ TasksOK
BY DEF TypeOK, Rest, TasksOK, WellFormed

LEMMA TypePartsNext == ASSUME Rest', TasksOK' PROVE TypeOK'
BY DEF TypeOK, Rest, TasksOK, WellFormed

LEMMA CallFormed ==
  ASSUME TypeOK, NEW t \in Tasks
  PROVE  WellFormed(task[t]) /\ TasksOK /\ Rest
BY TypeParts DEF TasksOK

LEMMA WindowObjects == ASSUME TypeOK PROVE window \in SUBSET Objects
BY MapClientAssumption DEF TypeOK

LEMMA ServeType == ASSUME TypeOK, NEW t \in Tasks, Serve(t), UNCHANGED env PROVE TypeOK'
<1> DEFINE r == task[t]
           ans == IF presence' \in (IF r.step = "load" THEN r.window ELSE {r.object})
                  THEN presence' ELSE None
           answered == [r EXCEPT !.served = TRUE, !.ans = ans]
<1>1. WellFormed(r) /\ TasksOK /\ Rest
  BY CallFormed
<1>2. presence' \in Objects \cup {None}
  <2>1. presence' \in {presence, None} \/ (r.action = "VISITING" /\ presence' = r.object)
    BY DEF Serve
  <2>2. r.action = "VISITING" => r.object \in Objects
    BY <1>1 DEF WellFormed
  <2> QED
    BY <1>1, <2>1, <2>2 DEF Rest
<1>3. ans \in Objects \cup {None}
  BY <1>2
<1>4. WellFormed(answered)
  <2> HIDE DEF ans
  <2>1. answered \in Task /\ answered.step = r.step /\ answered.object = r.object
        /\ answered.action = r.action
    BY <1>1, <1>3 DEF WellFormed, Task
  <2> QED
    BY <1>1, <2>1 DEF WellFormed
<1>5. Send(t, answered)
  BY DEF Serve
<1>6. TasksOK'
  BY <1>1, <1>4, <1>5, SendKeeps
<1>7. Rest'
  BY <1>1, <1>2 DEF Rest, Serve, store, timers, page
<1> QED
  BY <1>6, <1>7, TypePartsNext

LEMMA FailType == ASSUME TypeOK, NEW t \in Tasks, Fail(t), UNCHANGED env PROVE TypeOK'
<1>1. TasksOK' BY CallFormed, IdleFormed, SendKeeps DEF Fail, Finished
<1>2. Rest' BY CallFormed DEF Rest, Fail, store, timers, page
<1> QED BY <1>1, <1>2, TypePartsNext

LEMMA ReceiveType == ASSUME TypeOK, NEW t \in Tasks, Receive(t), UNCHANGED env PROVE TypeOK'
<1>1. WellFormed(task[t]) /\ TasksOK /\ Rest
  BY CallFormed
<1>2. task[t].ans \in Objects \cup {None} /\ task[t].object \in Objects \cup {None}
  BY <1>1 DEF WellFormed, Task
<1>3. CASE RefreshReceived(t)
  <2>1. TasksOK'
    BY <1>1, <1>3, FriendsFormed, SendKeeps DEF RefreshReceived
  <2>2. objects' \in [Objects -> {"absent", "there", "mine"}] /\ here' \in Objects \cup {None}
        /\ beating' \in BOOLEAN
    BY <1>2, <1>3 DEF RefreshReceived, HereAfter
  <2>3. Rest'
    BY <1>1, <1>3, <2>2 DEF Rest, RefreshReceived, page
  <2> QED
    BY <2>1, <2>3, TypePartsNext
<1>4. CASE FriendsReceived(t)
  <2>1. TasksOK'
    BY <1>1, <1>4, IdleFormed, SendKeeps DEF FriendsReceived, Finished
  <2>2. Rest'
    BY <1>1, <1>4 DEF Rest, FriendsReceived, store, timers, page
  <2> QED
    BY <2>1, <2>2, TypePartsNext
<1>5. CASE ObjectReceived(t)
  <2>1. TasksOK'
    BY <1>1, <1>5, IdleFormed, SendKeeps DEF ObjectReceived, Finished
  <2>2. objects' \in [Objects -> {"absent", "there", "mine"}]
    BY <1>1, <1>5 DEF Rest, ObjectReceived, UpsertObject
  <2>3. here' \in Objects \cup {None}
    BY <1>1, <1>2, <1>5 DEF Rest, ObjectReceived
  <2>4. Rest'
    BY <1>1, <1>5, <2>2, <2>3 DEF Rest, ObjectReceived, timers, page
  <2> QED
    BY <2>1, <2>4, TypePartsNext
<1>6. CASE StatusReceived(t)
  <2>1. WellFormed(LoadMap(window))
    BY WindowObjects, LoadFormed
  <2>2. TasksOK'
    BY <1>1, <1>6, <2>1, IdleFormed, SendKeeps DEF StatusReceived, Finished
  <2>3. objects' \in [Objects -> {"absent", "there", "mine"}]
    BY <1>1, <1>6 DEF Rest, StatusReceived, UpsertObject
  <2>4. Rest'
    BY <1>1, <1>6, <2>3 DEF Rest, StatusReceived, timers, page
  <2> QED
    BY <2>2, <2>4, TypePartsNext
<1> QED
  BY <1>3, <1>4, <1>5, <1>6 DEF Receive

LEMMA TickType ==
  ASSUME TypeOK, RefreshTick \/ HeartbeatTick \/ Lapse, UNCHANGED env
  PROVE  TypeOK'
<1>1. TasksOK /\ Rest
  BY TypeParts
<1>2. CASE RefreshTick
  <2>1. WellFormed(LoadMap(window)) /\ "poll" \in Tasks
    BY WindowObjects, LoadFormed DEF Tasks
  <2>2. TasksOK'
    BY <1>1, <1>2, <2>1, SendKeeps DEF RefreshTick
  <2>3. Rest'
    BY <1>1, <1>2 DEF Rest, RefreshTick, store, timers, page
  <2> QED
    BY <2>2, <2>3, TypePartsNext
<1>3. CASE HeartbeatTick
  <2>1. TasksOK'
    <3>1. CASE here = None
      BY <1>1, <1>3, <3>1 DEF HeartbeatTick, TasksOK
    <3>2. CASE here # None
      <4>1. WellFormed(ChangeStatus(here, "VISITING")) /\ "beat" \in Tasks
        BY <1>1, <3>2, StatusFormed DEF Rest, Tasks
      <4>2. Send("beat", ChangeStatus(here, "VISITING"))
        BY <1>3, <3>2 DEF HeartbeatTick
      <4> QED
        BY <1>1, <4>1, <4>2, SendKeeps
    <3> QED
      BY <3>1, <3>2
  <2>2. Rest'
    BY <1>1, <1>3 DEF Rest, HeartbeatTick, store, page
  <2> QED
    BY <2>1, <2>2, TypePartsNext
<1>4. CASE Lapse
  <2>1. TasksOK'
    BY <1>1, <1>4 DEF TasksOK, Lapse
  <2>2. Rest'
    BY <1>1, <1>4 DEF Rest, Lapse, store, timers, page
  <2> QED
    BY <2>1, <2>2, TypePartsNext
<1> QED
  BY <1>2, <1>3, <1>4

\* What starting the pollers does to the types.
LEMMA StartType ==
  ASSUME TypeOK, StartPolling, window' \in SUBSET Objects
  PROVE  TasksOK' /\ polling' \in BOOLEAN /\ beating' \in BOOLEAN
<1>1. TasksOK /\ Rest
  BY TypeParts
<1>2. WellFormed(LoadMap(window')) /\ "poll" \in Tasks
  BY LoadFormed DEF Tasks
<1>3. CASE Send("poll", LoadMap(window'))
  BY <1>1, <1>2, <1>3, SendKeeps DEF StartPolling, Rest
<1>4. CASE UNCHANGED task
  BY <1>1, <1>4 DEF StartPolling, TasksOK, Rest
<1> QED
  BY <1>3, <1>4 DEF StartPolling

LEMMA PageType ==
  ASSUME TypeOK, UNCHANGED env,
         \/ OnVisibilityChange
         \/ \E m \in Mounts : Mount(m) \/ Located(m) \/ Unmount(m)
  PROVE  TypeOK'
<1>1. TasksOK /\ Rest
  BY TypeParts
<1>2. ASSUME NEW m \in Mounts, Mount(m) PROVE TypeOK'
  <2>1. TasksOK'
    BY <1>1, <1>2 DEF TasksOK, Mount
  <2>2. Rest'
    BY <1>1, <1>2 DEF Rest, Mount, store, timers
  <2> QED
    BY <2>1, <2>2, TypePartsNext
<1>3. ASSUME NEW m \in Mounts, Located(m) PROVE TypeOK'
  <2>1. window' \in Windows /\ window' \in SUBSET Objects
    BY <1>1, <1>3, MapClientAssumption DEF Located, Rest
  <2>2. TasksOK' /\ polling' \in BOOLEAN /\ beating' \in BOOLEAN
    BY <1>3, <2>1, StartType DEF Located
  <2>3. Rest'
    BY <1>1, <1>3, <2>1, <2>2 DEF Rest, Located
  <2> QED
    BY <2>2, <2>3, TypePartsNext
<1>4. ASSUME NEW m \in Mounts, Unmount(m) PROVE TypeOK'
  <2>1. TasksOK'
    BY <1>1, <1>4 DEF TasksOK, Unmount
  <2>2. Rest'
    BY <1>1, <1>4 DEF Rest, Unmount, StopPolling, store
  <2> QED
    BY <2>1, <2>2, TypePartsNext
<1>5. CASE OnVisibilityChange
  <2>1. window' \in SUBSET Objects
    BY <1>5, WindowObjects DEF OnVisibilityChange, store
  <2>2. TasksOK' /\ polling' \in BOOLEAN /\ beating' \in BOOLEAN
    <3>1. CASE StartPolling
      BY <2>1, <3>1, StartType
    <3>2. CASE UNCHANGED task /\ (StopPolling \/ UNCHANGED timers)
      BY <1>1, <3>2 DEF TasksOK, Rest, StopPolling, timers
    <3> QED
      BY <1>5, <3>1, <3>2 DEF OnVisibilityChange
  <2>3. Rest'
    BY <1>1, <1>5, <2>2 DEF Rest, OnVisibilityChange, store
  <2> QED
    BY <2>2, <2>3, TypePartsNext
<1> QED
  BY <1>2, <1>3, <1>4, <1>5

LEMMA ClickType ==
  ASSUME TypeOK, UNCHANGED env, NEW k \in Clicks, NEW o \in Objects,
         Toggle(k, o) \/ OpenPopup(k, o) \/ FocusFriendObject(k, o)
  PROVE  TypeOK'
<1>1. TasksOK /\ Rest /\ k \in Tasks
  BY TypeParts DEF Tasks
<1>2. CASE Toggle(k, o)
  <2>1. TasksOK'
    BY <1>1, <1>2, StatusFormed, SendKeeps DEF Toggle
  <2>2. Rest'
    BY <1>1, <1>2 DEF Rest, Toggle, store, timers, page
  <2> QED
    BY <2>1, <2>2, TypePartsNext
<1>3. CASE OpenPopup(k, o)
  <2>1. TasksOK'
    BY <1>1, <1>3, ObjectFormed, SendKeeps DEF OpenPopup
  <2>2. Rest'
    BY <1>1, <1>3 DEF Rest, OpenPopup, store, timers, page
  <2> QED
    BY <2>1, <2>2, TypePartsNext
<1>4. CASE FocusFriendObject(k, o)
  <2>1. TasksOK'
    <3>1. CASE Send(k, GetMapObject(o))
      BY <1>1, <3>1, ObjectFormed, SendKeeps
    <3>2. CASE UNCHANGED task
      BY <1>1, <3>2 DEF TasksOK
    <3> QED
      BY <1>4, <3>1, <3>2 DEF FocusFriendObject
  <2>2. Rest'
    BY <1>1, <1>4 DEF Rest, FocusFriendObject, timers, page
  <2> QED
    BY <2>1, <2>2, TypePartsNext
<1> QED
  BY <1>2, <1>3, <1>4

LEMMA StutterType == ASSUME TypeOK, UNCHANGED vars PROVE TypeOK'
<1>1. TasksOK' /\ Rest'
  BY TypeParts DEF vars, store, timers, page, TasksOK, Rest
<1> QED
  BY <1>1, TypePartsNext

\* The tab, its store and its calls always have values of their types: a heartbeat is
\* never sent for no object (startHeartbeat looks at myPresenceObjectId first).
THEOREM TypeCorrect == Spec => []TypeOK
<1>1. TypeOK /\ [Next]_vars => TypeOK'
  BY ServeType, FailType, ReceiveType, TickType, PageType, ClickType, StutterType DEF Next
<1> HIDE DEF Init, Next, vars, TypeOK
<1> QED
  BY <1>1, InitType, PTL DEF Spec

--------------------------------------------------------------------------------
\* What the store holds of the user's presence, and every answer and heartbeat still
\* on its way, speaks of an object that was chosen.
CallWithin(r, os) == r.ans \in os \cup {None} /\ (r.action = "VISITING" => r.object \in os)
ChosenInv ==
  /\ {presence, here} \subseteq chosen \cup {None}
  /\ \A t \in Tasks : CallWithin(task[t], chosen)

LEMMA SendWithin ==
  ASSUME TypeOK, ChosenInv, NEW t \in Tasks, NEW r, Send(t, r),
         chosen \subseteq chosen', CallWithin(r, chosen')
  PROVE  \A u \in Tasks : CallWithin(task'[u], chosen')
<1>1. task' = [task EXCEPT ![t] = r] /\ task \in [Tasks -> Task]
  BY DEF Send, TypeOK
<1> SUFFICES ASSUME NEW u \in Tasks PROVE CallWithin(task'[u], chosen')
  OBVIOUS
<1>2. CASE u = t
  BY <1>1, <1>2
<1>3. CASE u # t
  BY <1>1, <1>3 DEF CallWithin, ChosenInv
<1> QED
  BY <1>2, <1>3

LEMMA KeepWithin ==
  ASSUME ChosenInv, UNCHANGED task, chosen \subseteq chosen'
  PROVE  \A u \in Tasks : CallWithin(task'[u], chosen')
BY DEF CallWithin, ChosenInv

\* The calls that carry no object the user would become present at.
LEMMA QuietCalls ==
  ASSUME NEW os
  PROVE  /\ CallWithin(Idle, os) /\ CallWithin(TaskRecord("friends", None, "none", {}), os)
         /\ \A w : CallWithin(LoadMap(w), os)
         /\ \A o : CallWithin(GetMapObject(o), os)
         /\ \A o : CallWithin(ChangeStatus(o, "NOT_VISITING"), os)
         /\ \A o \in os : CallWithin(ChangeStatus(o, "VISITING"), os)
BY DEF CallWithin, Idle, LoadMap, GetMapObject, ChangeStatus, TaskRecord

LEMMA ServeChosen ==
  ASSUME TypeOK, ChosenInv, NEW t \in Tasks, Serve(t)
  PROVE  ChosenInv'
<1> DEFINE r == task[t]
           ans == IF presence' \in (IF r.step = "load" THEN r.window ELSE {r.object})
                  THEN presence' ELSE None
           answered == [r EXCEPT !.served = TRUE, !.ans = ans]
<1>1. r \in Task /\ CallWithin(r, chosen) /\ chosen' = chosen
  BY DEF TypeOK, ChosenInv, Serve
<1>2. presence' \in {presence, None} \/ (r.action = "VISITING" /\ presence' = r.object)
  BY DEF Serve
<1>3. presence' \in chosen' \cup {None} /\ ans \in chosen' \cup {None}
  BY <1>1, <1>2 DEF CallWithin, ChosenInv
<1>4. CallWithin(answered, chosen')
  <2> HIDE DEF ans
  <2>1. answered.ans = ans /\ answered.action = r.action /\ answered.object = r.object
    BY <1>1 DEF Task
  <2> QED
    BY <1>1, <1>3, <2>1 DEF CallWithin
<1>5. Send(t, answered)
  BY DEF Serve
<1>6. \A u \in Tasks : CallWithin(task'[u], chosen')
  BY <1>1, <1>4, <1>5, SendWithin
<1>7. here' \in chosen' \cup {None}
  BY <1>1 DEF Serve, store, ChosenInv
<1> QED
  BY <1>3, <1>6, <1>7 DEF ChosenInv

LEMMA ReceiveChosen ==
  ASSUME TypeOK, ChosenInv, NEW t \in Tasks, Receive(t) \/ Fail(t)
  PROVE  ChosenInv'
<1>1. CallWithin(task[t], chosen) /\ chosen' = chosen /\ presence' = presence
  BY DEF ChosenInv, Receive, Fail, RefreshReceived, FriendsReceived, ObjectReceived, StatusReceived
<1>2. here' \in chosen' \cup {None}
  <2>1. here' \in {here, None, task[t].ans}
    BY DEF Receive, Fail, RefreshReceived, FriendsReceived, ObjectReceived, StatusReceived,
           HereAfter, store
  <2> QED
    BY <1>1, <2>1 DEF CallWithin, ChosenInv
<1>3. PICK r : Send(t, r) /\ CallWithin(r, chosen')
  <2>1. \/ Send(t, Idle)
        \/ Send(t, TaskRecord("friends", None, "none", {}))
        \/ Send(t, LoadMap(window))
    BY DEF Receive, Fail, RefreshReceived, FriendsReceived, ObjectReceived, StatusReceived, Finished
  <2> QED
    BY <2>1, QuietCalls
<1>4. \A u \in Tasks : CallWithin(task'[u], chosen')
  BY <1>1, <1>3, SendWithin
<1> QED
  BY <1>1, <1>2, <1>4 DEF ChosenInv

\* The timers and the page send LoadMap, or a heartbeat for myPresenceObjectId.
LEMMA TimerChosen ==
  ASSUME TypeOK, ChosenInv,
         \/ RefreshTick \/ HeartbeatTick \/ OnVisibilityChange \/ Lapse
         \/ \E m \in Mounts : Mount(m) \/ Located(m) \/ Unmount(m)
  PROVE  ChosenInv'
<1>1. chosen' = chosen /\ here' = here /\ presence' \in {presence, None}
  BY DEF RefreshTick, HeartbeatTick, OnVisibilityChange, Lapse, Mount, Located, Unmount, store
<1>2. {presence', here'} \subseteq chosen' \cup {None}
  BY <1>1 DEF ChosenInv
<1>3. \/ UNCHANGED task
      \/ Send("poll", LoadMap(window)) \/ Send("poll", LoadMap(window'))
      \/ here # None /\ Send("beat", ChangeStatus(here, "VISITING"))
  BY DEF RefreshTick, HeartbeatTick, OnVisibilityChange, Lapse, Mount, Located, Unmount,
         StartPolling, timers
<1>4. "poll" \in Tasks /\ "beat" \in Tasks /\ (here # None => here \in chosen)
  BY DEF Tasks, ChosenInv
<1>5. \A u \in Tasks : CallWithin(task'[u], chosen')
  <2>1. CASE UNCHANGED task
    BY <1>1, <2>1, KeepWithin
  <2>2. CASE \E w : Send("poll", LoadMap(w))
    <3>1. PICK w : Send("poll", LoadMap(w))
      BY <2>2
    <3> QED
      BY <1>1, <1>4, <3>1, SendWithin, QuietCalls
  <2>3. CASE here # None /\ Send("beat", ChangeStatus(here, "VISITING"))
    <3>1. CallWithin(ChangeStatus(here, "VISITING"), chosen')
      BY <1>1, <1>4, <2>3, QuietCalls
    <3> QED
      BY <1>1, <1>4, <2>3, <3>1, SendWithin
  <2> QED
    BY <1>3, <2>1, <2>2, <2>3
<1> QED
  BY <1>2, <1>5 DEF ChosenInv

LEMMA ClickChosen ==
  ASSUME TypeOK, ChosenInv, NEW k \in Clicks, NEW o \in Objects,
         Toggle(k, o) \/ OpenPopup(k, o) \/ FocusFriendObject(k, o)
  PROVE  ChosenInv'
<1>1. chosen \subseteq chosen' /\ here' = here /\ presence' = presence /\ k \in Tasks
  BY DEF Toggle, OpenPopup, FocusFriendObject, store, Tasks
<1>2. {presence', here'} \subseteq chosen' \cup {None}
  BY <1>1 DEF ChosenInv
<1>3. \/ UNCHANGED task
      \/ Send(k, GetMapObject(o)) \/ Send(k, ChangeStatus(o, "NOT_VISITING"))
      \/ o \in chosen' /\ Send(k, ChangeStatus(o, "VISITING"))
  BY DEF Toggle, OpenPopup, FocusFriendObject
<1>4. \A u \in Tasks : CallWithin(task'[u], chosen')
  <2>1. CASE UNCHANGED task
    BY <1>1, <2>1, KeepWithin
  <2>2. CASE Send(k, GetMapObject(o))
    BY <1>1, <2>2, SendWithin, QuietCalls
  <2>3. CASE Send(k, ChangeStatus(o, "NOT_VISITING"))
    BY <1>1, <2>3, SendWithin, QuietCalls
  <2>4. CASE o \in chosen' /\ Send(k, ChangeStatus(o, "VISITING"))
    <3>1. CallWithin(ChangeStatus(o, "VISITING"), chosen')
      BY <2>4, QuietCalls
    <3> QED
      BY <1>1, <2>4, <3>1, SendWithin
  <2> QED
    BY <1>3, <2>1, <2>2, <2>3, <2>4
<1> QED
  BY <1>2, <1>4 DEF ChosenInv

LEMMA InitChosen == Init => ChosenInv
BY DEF Init, ChosenInv, CallWithin, Idle, TaskRecord

\* Nobody is marked present where he never chose to be: neither a late answer nor a
\* heartbeat taken from one carries any other object.
THEOREM NeverElsewhere == Spec => []OnlyWhereChosen
<1>1. TypeOK /\ ChosenInv /\ [Next]_vars => ChosenInv'
  <2> SUFFICES ASSUME TypeOK, ChosenInv, [Next]_vars PROVE ChosenInv'
    OBVIOUS
  <2>1. CASE Next
    BY <2>1, ServeChosen, ReceiveChosen, TimerChosen, ClickChosen DEF Next
  <2>2. CASE UNCHANGED vars
    BY <2>2, KeepWithin DEF vars, store, ChosenInv
  <2> QED
    BY <2>1, <2>2
<1>2. ChosenInv => OnlyWhereChosen
  BY DEF ChosenInv, OnlyWhereChosen
<1> HIDE DEF Init, Next, vars, TypeOK, ChosenInv, OnlyWhereChosen
<1> QED
  BY <1>1, <1>2, InitChosen, TypeCorrect, PTL DEF Spec

--------------------------------------------------------------------------------
\* Where the page is not left, nor the tab hidden, before the position is known: there
\* is one visit at most, it waits for its position in sight, and polling follows it.
OneVisit ==
  /\ \A m \in Mounts : mount[m] \in {"none", "locating", "ready"}
  /\ \A m, n \in Mounts : mount[m] # "none" /\ mount[n] # "none" => m = n
  /\ \A m \in Mounts : mount[m] = "locating" => ~hidden
  /\ polling <=> Active
PollInv == Without({"early_leave", "background"}) => OneVisit

\* Everything but the page leaves mount, hidden and polling alone.
LEMMA OffPage ==
  ASSUME \/ \E t \in Tasks : Serve(t) \/ Receive(t) \/ Fail(t)
         \/ RefreshTick \/ HeartbeatTick \/ Lapse
         \/ \E k \in Clicks, o \in Objects : Toggle(k, o) \/ OpenPopup(k, o) \/ FocusFriendObject(k, o)
         \/ UNCHANGED vars
  PROVE  UNCHANGED <<mount, hidden, polling>>
BY DEF Serve, Receive, Fail, RefreshTick, HeartbeatTick, Lapse, Toggle, OpenPopup,
       FocusFriendObject, RefreshReceived, FriendsReceived, ObjectReceived, StatusReceived,
       vars, timers, page

LEMMA OffPageKeeps == ASSUME OneVisit, UNCHANGED <<mount, hidden, polling>> PROVE OneVisit'
BY DEF OneVisit, Active

LEMMA MountKeeps ==
  ASSUME TypeOK, OneVisit, Without({"early_leave", "background"}), NEW m \in Mounts, Mount(m)
  PROVE  OneVisit'
<1>1. mount' = [mount EXCEPT ![m] = "locating"] /\ ~hidden
      /\ hidden' = hidden /\ polling' = polling
  BY DEF Mount, Without, timers
<1>2. \A n \in Mounts : mount[n] = "none"
  BY DEF Mount, Open, OneVisit
<1> QED
  BY <1>1, <1>2 DEF OneVisit, Active, TypeOK

LEMMA LocatedKeeps ==
  ASSUME TypeOK, OneVisit, NEW m \in Mounts, Located(m)
  PROVE  OneVisit'
<1>1. mount[m] = "locating" /\ mount' = [mount EXCEPT ![m] = "ready"]
      /\ hidden' = hidden /\ polling' = TRUE
  BY DEF Located, OneVisit, StartPolling
<1>2. \A n \in Mounts : n # m => mount[n] = "none" /\ mount'[n] = "none"
  BY <1>1 DEF OneVisit, TypeOK
<1>3. mount'[m] = "ready" /\ ~hidden'
  BY <1>1 DEF OneVisit, TypeOK
<1> QED
  BY <1>1, <1>2, <1>3 DEF OneVisit, Active

LEMMA UnmountKeeps ==
  ASSUME TypeOK, OneVisit, Without({"early_leave", "background"}), NEW m \in Mounts, Unmount(m)
  PROVE  OneVisit'
<1>1. mount[m] = "ready" /\ mount' = [mount EXCEPT ![m] = "none"]
      /\ hidden' = hidden /\ polling' = FALSE
  BY DEF Unmount, Without, StopPolling
<1>2. \A n \in Mounts : mount'[n] = "none"
  BY <1>1 DEF OneVisit, TypeOK
<1> QED
  BY <1>1, <1>2 DEF OneVisit, Active

LEMMA VisibilityKeeps ==
  ASSUME TypeOK, OneVisit, Without({"early_leave", "background"}), OnVisibilityChange
  PROVE  OneVisit'
<1>1. hidden \in BOOLEAN /\ hidden' = ~hidden /\ mount' = mount
      /\ \A m \in Mounts : mount[m] # "locating"
  BY DEF OnVisibilityChange, Without, TypeOK
<1>2. Listening <=> \E m \in Mounts : mount[m] = "ready"
  BY DEF Listening, OneVisit
<1>3. polling' <=> Active'
  <2>1. CASE ~Listening
    BY <1>1, <1>2, <2>1 DEF OnVisibilityChange, timers, OneVisit, Active
  <2>2. CASE Listening
    BY <1>1, <1>2, <2>2 DEF OnVisibilityChange, StopPolling, StartPolling, Active
  <2> QED
    BY <2>1, <2>2
<1> QED
  BY <1>1, <1>3 DEF OneVisit

\* The map is polled exactly while the page is in sight, whatever the calls and the
\* other timers do, as long as the page is not left nor the tab hidden while the
\* position is awaited.
THEOREM PolledInSight == Spec => []PollsWhileActive
<1>1. Init => PollInv
  BY DEF Init, PollInv, OneVisit, Active
<1>2. TypeOK /\ PollInv /\ [Next]_vars => PollInv'
  <2> SUFFICES ASSUME TypeOK, PollInv, [Next]_vars, Without({"early_leave", "background"})'
               PROVE  OneVisit'
    BY DEF PollInv
  <2>1. Without({"early_leave", "background"}) /\ OneVisit
    BY DEF PollInv, Without, Next, vars
  <2> QED
    BY <2>1, OffPage, OffPageKeeps, MountKeeps, LocatedKeeps, UnmountKeeps, VisibilityKeeps DEF Next
<1>3. PollInv => PollsWhileActive
  BY DEF PollInv, OneVisit, PollsWhileActive
<1> HIDE DEF Init, Next, vars, TypeOK, PollInv, PollsWhileActive
<1> QED
  BY <1>1, <1>2, <1>3, TypeCorrect, PTL DEF Spec
================================================================================
