-------------------------------- MODULE MapClient ------------------------------
(***************************************************************************)
(* One browser tab on the map page: mapStore with its two pollers, the     *)
(* requests it has in flight, and the mounting, hiding and leaving of      *)
(* MapPage.                                                                *)
(*                                                                         *)
(* Everything between two awaits is one action.  A request is sent by the  *)
(* action that makes it, served at once by the Map service (Presence has   *)
(* the commands behind that), and its answer comes whenever it comes, so   *)
(* requests are served and answered in any order.  The user is one; other  *)
(* users' counts and friendsPresence are not read by the store.            *)
(***************************************************************************)
CONSTANTS Objects,   \* map objects
          None,      \* no object
          Windows,   \* what LoadMap may find around a centre: sets of objects
          Clicks,    \* calls of the user in flight at the same time
          Mounts,    \* visits of the page that are open, or left before their position came
          Envs       \* environments to consider: sets of Happenings

\* failure: a request may fail, before or after it is served.  lapse: the presence
\* may end without this tab.  elsewhere: the map may be centred anew, on the position
\* or on a friend's object.  early_leave: the page may be left before its position is
\* known.  background: the tab may be hidden before its position is known.
Happenings == {"failure", "lapse", "elsewhere", "early_leave", "background"}

ASSUME MapClientAssumption ==
  /\ None \notin Objects
  /\ Windows \subseteq SUBSET Objects
  /\ {"poll", "beat"} \cap Clicks = {}
  /\ Envs \subseteq SUBSET Happenings

VARIABLES presence,          \* of this user at the service: an object, or None
          objects,           \* mapStore.objects: absent, there, or mine (viewer_visiting)
          here,              \* mapStore.myPresenceObjectId
          window,            \* mapStore.center, as the objects LoadMap finds there
          polling, beating,  \* whether the intervals of the two pollers run
          task,              \* the calls that await an answer
          mount, hidden,     \* visits of the page; document.hidden
          chosen,            \* history: objects the user has chosen to visit
          env                \* what may happen, chosen at the start and never changed

store  == <<objects, here, window>>
timers == <<polling, beating>>
page   == <<mount, hidden>>
vars   == <<presence, store, timers, task, page, chosen, env>>

\* A poller has one call at a time (inFlight); a click has its own.
Tasks == {"poll", "beat"} \cup Clicks
Steps == {"idle", "load", "object", "status", "friends"}
TaskRecord(step, o, action, w) ==
  [step |-> step, object |-> o, action |-> action, window |-> w, served |-> FALSE, ans |-> None]
Idle == TaskRecord("idle", None, "none", {})

LoadMap(w)              == TaskRecord("load", None, "none", w)
GetMapObject(o)         == TaskRecord("object", o, "none", {})
ChangeStatus(o, action) == TaskRecord("status", o, action, {})

Init ==
  /\ presence \in Objects \cup {None}
  /\ objects = [o \in Objects |-> "absent"] /\ here = None /\ window \in Windows
  /\ polling = FALSE /\ beating = FALSE
  /\ task = [t \in Tasks |-> Idle]
  /\ mount = [m \in Mounts |-> "none"] /\ hidden = FALSE
  /\ chosen = {presence} \ {None}
  /\ env \in Envs

--------------------------------------------------------------------------------
\* A request and its end.
IsIdle(t)   == task[t].step = "idle"
Send(t, r)  == task' = [task EXCEPT ![t] = r]
Finished(t) == Send(t, Idle)

\* The Map service.  An answer shows the user's presence if it is at an object that the
\* answer holds.
Serve(t) ==
  LET r == task[t]  held == IF r.step = "load" THEN r.window ELSE {r.object} IN
  /\ r.step \in {"load", "object", "status"} /\ ~r.served
  /\ presence' = CASE r.action = "VISITING"     -> r.object
                   [] r.action = "NOT_VISITING" -> None
                   [] OTHER                     -> presence
  /\ Send(t, [r EXCEPT !.served = TRUE, !.ans = IF presence' \in held THEN presence' ELSE None])
  /\ UNCHANGED <<store, timers, page, chosen>>

\* Mutant of Fail: runTick without its finally.
FailStuck(t) ==
  /\ "failure" \in env
  /\ task[t].step \in {"load", "object", "status"}
  /\ Send(t, IF t \in Clicks THEN Idle ELSE [Idle EXCEPT !.step = "stuck"])
  /\ UNCHANGED <<presence, store, timers, page, chosen>>

\* The call throws, and inFlight and loading are cleared.
Fail(t) ==
  /\ "failure" \in env
  /\ task[t].step \in {"load", "object", "status"}
  /\ Finished(t)
  /\ UNCHANGED <<presence, store, timers, page, chosen>>

Answered(t, step) == task[t].step = step /\ task[t].served

\* Mutants of HereAfter: a visit is not restored; the first object in sight.
HereNotRestored(r) == here
HereFirst(r) == IF r.window = {} THEN None ELSE CHOOSE o \in r.window : TRUE

\* The first loaded object with viewer_visiting.
HereAfter(r) == r.ans

\* Mutant of RefreshReceived: the heartbeat is stopped, never started.
RefreshStopsOnly(t) ==
  LET r == task[t] IN
  /\ Answered(t, "load")
  /\ objects' = [o \in Objects |-> IF o \notin r.window THEN "absent"
                                   ELSE IF o = r.ans THEN "mine" ELSE "there"]
  /\ here' = HereAfter(r)
  /\ beating' = (beating /\ here' # None)
  /\ Send(t, TaskRecord("friends", None, "none", {}))
  /\ UNCHANGED <<presence, window, polling, page, chosen>>

\* refresh, from the answer of LoadMap to the request for the friends' presence.
RefreshReceived(t) ==
  LET r == task[t] IN
  /\ Answered(t, "load")
  /\ objects' = [o \in Objects |-> IF o \notin r.window THEN "absent"
                                   ELSE IF o = r.ans THEN "mine" ELSE "there"]
  /\ here' = HereAfter(r)
  /\ beating' = (here' # None)
  /\ Send(t, TaskRecord("friends", None, "none", {}))
  /\ UNCHANGED <<presence, window, polling, page, chosen>>

\* fetchFriendsPresence: answered or not, refresh ends.
FriendsReceived(t) ==
  /\ task[t].step = "friends"
  /\ Finished(t)
  /\ UNCHANGED <<presence, store, timers, page, chosen>>

UpsertObject(r) == objects' = [objects EXCEPT ![r.object] = IF r.ans = r.object THEN "mine" ELSE "there"]

\* refreshObject.  The heartbeat is left as it is.
ObjectReceived(t) ==
  LET r == task[t] IN
  /\ Answered(t, "object")
  /\ UpsertObject(r)
  /\ here' = IF r.ans = r.object THEN r.object ELSE IF here = r.object THEN None ELSE here
  /\ Finished(t)
  /\ UNCHANGED <<presence, window, timers, page, chosen>>

\* A heartbeat ends here; setVisiting goes on to refresh.
StatusReceived(t) ==
  /\ Answered(t, "status")
  /\ UpsertObject(task[t])
  /\ IF t = "beat" THEN Finished(t) ELSE Send(t, LoadMap(window))
  /\ UNCHANGED <<presence, here, window, timers, page, chosen>>

--------------------------------------------------------------------------------
\* The two pollers.  A tick that comes while the last one is in flight is skipped.
RefreshTick ==
  /\ polling /\ IsIdle("poll")
  /\ Send("poll", LoadMap(window))
  /\ UNCHANGED <<presence, store, timers, page, chosen>>

\* Mutant of HeartbeatTick: the visit may have ended.
HeartbeatUnchecked ==
  /\ beating /\ IsIdle("beat")
  /\ Send("beat", ChangeStatus(here, "VISITING"))
  /\ UNCHANGED <<presence, store, timers, page, chosen>>

HeartbeatTick ==
  /\ beating /\ IsIdle("beat")
  /\ IF here = None
     THEN beating' = FALSE /\ UNCHANGED task
     ELSE Send("beat", ChangeStatus(here, "VISITING")) /\ UNCHANGED beating
  /\ UNCHANGED <<presence, store, polling, page, chosen>>

\* Reads window after it is set: LoadMap is for the new centre.
StartPolling ==
  /\ polling' = TRUE
  /\ IF ~polling /\ IsIdle("poll") THEN Send("poll", LoadMap(window')) ELSE UNCHANGED task
  /\ beating' = (beating \/ here # None)

\* Mutant of StopPolling: the heartbeat only.
StopHeartbeat == beating' = FALSE /\ UNCHANGED polling

StopPolling == beating' = FALSE /\ polling' = FALSE

--------------------------------------------------------------------------------
\* MapPage.  A visit that is left before its position has come still starts polling
\* and listens for visibility when it comes.
Open      == \E m \in Mounts : mount[m] \in {"locating", "ready"}
Listening == \E m \in Mounts : mount[m] \in {"ready", "orphan"}
Active    == ~hidden /\ \E m \in Mounts : mount[m] = "ready"

Mount(m) ==
  /\ ~Open /\ mount[m] = "none"
  /\ "background" \in env \/ ~hidden
  /\ mount' = [mount EXCEPT ![m] = "locating"]
  /\ UNCHANGED <<presence, store, timers, task, hidden, chosen>>

\* The position, or the centre as it was.
Located(m) ==
  /\ mount[m] \in {"locating", "gone"}
  /\ mount' = [mount EXCEPT ![m] = IF @ = "locating" THEN "ready" ELSE "orphan"]
  /\ window' = window \/ ("elsewhere" \in env /\ window' \in Windows)
  /\ StartPolling
  /\ UNCHANGED <<presence, objects, here, hidden, chosen>>

Unmount(m) ==
  /\ mount[m] = "ready" \/ ("early_leave" \in env /\ mount[m] = "locating")
  /\ mount' = [mount EXCEPT ![m] = IF @ = "ready" THEN "none" ELSE "gone"]
  /\ StopPolling
  /\ UNCHANGED <<presence, store, task, hidden, chosen>>

OnVisibilityChange ==
  /\ "background" \in env \/ \A m \in Mounts : mount[m] # "locating"
  /\ hidden' = ~hidden
  /\ UNCHANGED <<presence, store, mount, chosen>>
  /\ IF ~Listening THEN UNCHANGED <<timers, task>>
     ELSE IF hidden' THEN StopPolling /\ UNCHANGED task
     ELSE StartPolling

--------------------------------------------------------------------------------
\* What the user does, on a page in sight.  (A popup blocks its button while its call
\* is in flight, but closing and opening it makes a new one.)
Click(k, o) == Open /\ ~hidden /\ IsIdle(k) /\ objects[o] # "absent"

\* The button of the popup: setVisiting.
Toggle(k, o) ==
  LET action == IF objects[o] = "mine" THEN "NOT_VISITING" ELSE "VISITING" IN
  /\ Click(k, o)
  /\ Send(k, ChangeStatus(o, action))
  /\ chosen' = IF action = "VISITING" THEN chosen \cup {o} ELSE chosen
  /\ UNCHANGED <<presence, store, timers, page>>

\* A popup opens: refreshObject.
OpenPopup(k, o) ==
  /\ Click(k, o)
  /\ Send(k, GetMapObject(o))
  /\ UNCHANGED <<presence, store, timers, page, chosen>>

\* The friend may be at any object.  The markers stay until the next refresh.
FocusFriendObject(k, o) ==
  /\ "elsewhere" \in env
  /\ Open /\ ~hidden /\ IsIdle(k)
  /\ window' \in {w \in Windows : o \in w}
  /\ IF objects[o] = "absent" THEN Send(k, GetMapObject(o)) ELSE UNCHANGED task
  /\ UNCHANGED <<presence, objects, here, timers, page, chosen>>

\* The TTL runs out, or the user leaves on another device.
Lapse ==
  /\ "lapse" \in env /\ presence # None
  /\ presence' = None
  /\ UNCHANGED <<store, timers, task, page, chosen>>

--------------------------------------------------------------------------------
Receive(t) == RefreshReceived(t) \/ FriendsReceived(t) \/ ObjectReceived(t) \/ StatusReceived(t)

Next ==
  /\ \/ \E t \in Tasks : Serve(t) \/ Receive(t) \/ Fail(t)
     \/ RefreshTick \/ HeartbeatTick \/ OnVisibilityChange \/ Lapse
     \/ \E m \in Mounts : Mount(m) \/ Located(m) \/ Unmount(m)
     \/ \E k \in Clicks, o \in Objects : Toggle(k, o) \/ OpenPopup(k, o) \/ FocusFriendObject(k, o)
  /\ UNCHANGED env

Spec == Init /\ [][Next]_vars

\* An interval that runs keeps ticking, and every request ends (fetch has no timeout
\* of its own; the browser and the proxy have).  The user does what he likes.
FairSpec ==
  /\ Spec
  /\ WF_vars(RefreshTick /\ UNCHANGED env) /\ WF_vars(HeartbeatTick /\ UNCHANGED env)
  /\ \A t \in Tasks : WF_vars((Serve(t) \/ Receive(t)) /\ UNCHANGED env)

--------------------------------------------------------------------------------
Task == [step : Steps, object : Objects \cup {None}, action : {"none", "VISITING", "NOT_VISITING"},
         window : SUBSET Objects, served : BOOLEAN, ans : Objects \cup {None}]

\* The type invariant.  A call that names an object has one, and
\* one that changes the presence says how.
TypeOK ==
  /\ presence \in Objects \cup {None}
  /\ objects \in [Objects -> {"absent", "there", "mine"}]
  /\ here \in Objects \cup {None} /\ window \in Windows
  /\ polling \in BOOLEAN /\ beating \in BOOLEAN
  /\ task \in [Tasks -> Task]
  /\ \A t \in Tasks :
       /\ task[t].step \in {"object", "status"} <=> task[t].object \in Objects
       /\ task[t].step = "status" <=> task[t].action # "none"
  /\ mount \in [Mounts -> {"none", "locating", "ready", "gone", "orphan"}] /\ hidden \in BOOLEAN
  /\ chosen \subseteq Objects /\ env \subseteq Happenings

Without(happenings) == env \cap happenings = {}

\* The map is polled exactly while the page is in sight, as MapPage arranges it:
\* however visits, hiding and late positions alternate.  Not when the page is left or
\* the tab hidden before the position comes.
PollsWhileActive == Without({"early_leave", "background"}) => (polling <=> Active)

\* Nobody is marked present where he never chose to be, however old the answers are
\* that myPresenceObjectId and the heartbeats are taken from.
OnlyWhereChosen == {presence, here} \subseteq chosen \cup {None}

\* While the page stays in sight the map is loaded again and again, whatever fails:
\* a failed tick gives the next one its turn.
RefreshKeepsComing == <>[]Active => []<>(task["poll"].step = "load")

\* A user who stays somewhere, with the page in sight and the place on it, is kept
\* present: heartbeats follow each other, however late older answers are that have
\* stopped them.  Without failures.
Steady(o) == Active /\ presence = o /\ o \in window \cup {None}
VisitKept == Without({"failure"}) => \A o \in Objects :
  <>[]Steady(o) => []<>(task["beat"].object = o)

\* What the page shows of the user's own presence becomes and stays true once it
\* no longer changes, although answers arrive out of order.  Without failures.
DisplayCatchesUp == Without({"failure"}) => \A o \in Objects \cup {None} :
  <>[]Steady(o) => <>[](here = o)

--------------------------------------------------------------------------------
\* What the docs say and the code does not keep.

\* Docs/03-Frontend.md:70: "Stop all polling when the tab is hidden / page unmounts."
FallsSilent == <>[](hidden \/ ~Open) => <>[](\A t \in Tasks : IsIdle(t))
================================================================================
