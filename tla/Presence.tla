-------------------------------- MODULE Presence -------------------------------
(***************************************************************************)
(* Presence in the Map service: presence:{user} and object:{id}:visitors   *)
(* in Valkey, the two actions of ChangeMapObjectStatus, the expiry of a    *)
(* presence key, and the janitor that sweeps the visitor sets.             *)
(*                                                                         *)
(* MarkVisiting and MarkNotVisiting are several commands with nothing      *)
(* around them, and the janitor looks at a presence key in one command and *)
(* removes the member in another; each command is an action.  A heartbeat  *)
(* is a VISITING call like any other.                                      *)
(***************************************************************************)
EXTENDS Integers, FiniteSets

CONSTANTS Users,
          Objects,   \* map objects that exist
          Handlers,  \* calls the service may serve at the same time
          None,      \* no user, no object
          Envs       \* environments to consider: sets of Happenings

\* expiry: a presence key may lapse.  failure: a call may fail at any command.
\* janitor: the sweep runs.  sweep_failure: its commands may fail, too.
\* stray_leave: a user may leave an object other than the one visited.
\* overlap: a user may have several calls in flight.
Happenings == {"expiry", "failure", "janitor", "sweep_failure", "stray_leave", "overlap"}

ASSUME PresenceAssumption ==
  /\ None \notin Users \cup Objects
  /\ Envs \subseteq SUBSET Happenings

VARIABLES presence,  \* presence:{user}: the object, or None
          visitors,  \* object:{id}:visitors
          pc, call,  \* a handler's next command, and its arguments
          sweep,     \* the janitor's pass
          env        \* what may happen, chosen at the start and never changed

vars == <<presence, visitors, pc, call, sweep, env>>

IdleCall == [by |-> None, object |-> None, action |-> "none", prev |-> None, ok |-> FALSE]
Resting  == [at |-> "rest", keys |-> {}, object |-> None, todo |-> {}, user |-> None]

Actions   == {"VISITING", "NOT_VISITING"}
Steps     == {"idle", "get_prev", "srem_prev", "sadd", "set", "srem", "del", "done"}
SweepPcs  == {"rest", "sets", "members", "remove"}

Init ==
  /\ presence = [u \in Users |-> None]
  /\ visitors = [o \in Objects |-> {}]
  /\ pc = [h \in Handlers |-> "idle"]
  /\ call = [h \in Handlers |-> IdleCall]
  /\ sweep = Resting
  /\ env \in Envs

--------------------------------------------------------------------------------
Goto(h, step) == pc' = [pc EXCEPT ![h] = step]

Reply(h, ok) == Goto(h, "done") /\ call' = [call EXCEPT ![h].ok = ok]

Busy(u) == \E h \in Handlers : call[h].by = u

ChangeMapObjectStatus(h, u, o, action) ==
  /\ pc[h] = "idle"
  /\ "overlap" \in env \/ ~Busy(u)
  /\ "stray_leave" \in env \/ action = "VISITING" \/ presence[u] \in {o, None}
  /\ Goto(h, IF action = "VISITING" THEN "get_prev" ELSE "srem")
  /\ call' = [call EXCEPT ![h] = [by |-> u, object |-> o, action |-> action,
                                  prev |-> None, ok |-> FALSE]]
  /\ UNCHANGED <<presence, visitors, sweep>>

\* MarkVisiting: leave the object visited before, if it is another one.  An error
\* of the GET or of the SREM is ignored.
Elsewhere(prev, o) == prev \notin {None, o}

CurrentObject(h) ==
  LET c == call[h]  prev == presence[c.by] IN
  /\ pc[h] = "get_prev"
  /\ Goto(h, IF Elsewhere(prev, c.object) THEN "srem_prev" ELSE "sadd")
  /\ call' = [call EXCEPT ![h].prev = prev]
  /\ UNCHANGED <<presence, visitors, sweep>>

\* Mutant of RemovePrevious: the new object instead of the old one.
RemoveFromNew(h) ==
  LET c == call[h] IN
  /\ pc[h] = "srem_prev"
  /\ visitors' = [visitors EXCEPT ![c.object] = @ \ {c.by}]
  /\ Goto(h, "sadd")
  /\ UNCHANGED <<presence, call, sweep>>

RemovePrevious(h) ==
  LET c == call[h] IN
  /\ pc[h] = "srem_prev"
  /\ visitors' = [visitors EXCEPT ![c.prev] = @ \ {c.by}]
  /\ Goto(h, "sadd")
  /\ UNCHANGED <<presence, call, sweep>>

IgnoreError(h) ==
  /\ "failure" \in env
  /\ pc[h] \in {"get_prev", "srem_prev"}
  /\ Goto(h, "sadd")
  /\ UNCHANGED <<presence, visitors, call, sweep>>

\* Mutant of AddVisitor: a heartbeat trusts the membership it finds.
AddUnlessHere(h) ==
  LET c == call[h] IN
  /\ pc[h] = "sadd"
  /\ visitors' = IF c.prev = c.object THEN visitors
                 ELSE [visitors EXCEPT ![c.object] = @ \cup {c.by}]
  /\ Goto(h, "set")
  /\ UNCHANGED <<presence, call, sweep>>

AddVisitor(h) ==
  LET c == call[h] IN
  /\ pc[h] = "sadd"
  /\ visitors' = [visitors EXCEPT ![c.object] = @ \cup {c.by}]
  /\ Goto(h, "set")
  /\ UNCHANGED <<presence, call, sweep>>

\* Mutant of SetPresence: user and object swapped.
SetSwapped(h) ==
  /\ pc[h] = "set"
  /\ presence' = [presence EXCEPT ![call[h].by] = call[h].by]
  /\ Reply(h, TRUE)
  /\ UNCHANGED <<visitors, sweep>>

SetPresence(h) ==
  /\ pc[h] = "set"
  /\ presence' = [presence EXCEPT ![call[h].by] = call[h].object]
  /\ Reply(h, TRUE)
  /\ UNCHANGED <<visitors, sweep>>

\* Mutant of RemoveVisitor: the object of the presence key.
RemoveWherePresent(h) ==
  LET c == call[h] IN
  /\ pc[h] = "srem"
  /\ visitors' = [o \in Objects |-> IF presence[c.by] = o THEN visitors[o] \ {c.by} ELSE visitors[o]]
  /\ Goto(h, "del")
  /\ UNCHANGED <<presence, call, sweep>>

\* MarkNotVisiting: the object the caller names, and the presence wherever it is.
RemoveVisitor(h) ==
  LET c == call[h] IN
  /\ pc[h] = "srem"
  /\ visitors' = [visitors EXCEPT ![c.object] = @ \ {c.by}]
  /\ Goto(h, "del")
  /\ UNCHANGED <<presence, call, sweep>>

\* Mutant of DelPresence: the key is left to expire.
LeaveToExpiry(h) ==
  /\ pc[h] = "del"
  /\ Reply(h, TRUE)
  /\ UNCHANGED <<presence, visitors, sweep>>

DelPresence(h) ==
  /\ pc[h] = "del"
  /\ presence' = [presence EXCEPT ![call[h].by] = None]
  /\ Reply(h, TRUE)
  /\ UNCHANGED <<visitors, sweep>>

\* A store error, a cancelled context or a crash; from "done" a lost reply.
Fail(h) ==
  /\ "failure" \in env
  /\ pc[h] \notin {"idle", "done"} \/ call[h].ok
  /\ Reply(h, FALSE)
  /\ UNCHANGED <<presence, visitors, sweep>>

Return(h) ==
  /\ pc[h] = "done"
  /\ Goto(h, "idle")
  /\ call' = [call EXCEPT ![h] = IdleCall]
  /\ UNCHANGED <<presence, visitors, sweep>>

\* The TTL of presence:{user} runs out.
Expire(u) ==
  /\ "expiry" \in env
  /\ presence[u] # None
  /\ presence' = [presence EXCEPT ![u] = None]
  /\ UNCHANGED <<visitors, pc, call, sweep>>

--------------------------------------------------------------------------------
\* Reconcile.  The keys of the SCAN are taken at one moment: a set that is made
\* or emptied while it runs counts as made after or emptied after it.
Scan ==
  /\ "janitor" \in env
  /\ sweep.at = "rest"
  /\ sweep' = [sweep EXCEPT !.at = "sets", !.keys = {o \in Objects : visitors[o] # {}}]
  /\ UNCHANGED <<presence, visitors, pc, call>>

ReadSet ==
  /\ sweep.at = "sets"
  /\ \E o \in sweep.keys :
       sweep' = [sweep EXCEPT !.at = "members", !.keys = @ \ {o}, !.object = o, !.todo = visitors[o]]
  /\ UNCHANGED <<presence, visitors, pc, call>>

\* Mutant of CheckMember: the rest of the set is skipped after a live member.
StopAtLive ==
  /\ sweep.at = "members"
  /\ \E u \in sweep.todo :
       sweep' = IF presence[u] = None
                THEN [sweep EXCEPT !.at = "remove", !.todo = @ \ {u}, !.user = u]
                ELSE [sweep EXCEPT !.todo = {}]
  /\ UNCHANGED <<presence, visitors, pc, call>>

\* HasPresence.
CheckMember ==
  /\ sweep.at = "members"
  /\ \E u \in sweep.todo :
       sweep' = IF presence[u] = None
                THEN [sweep EXCEPT !.at = "remove", !.todo = @ \ {u}, !.user = u]
                ELSE [sweep EXCEPT !.todo = @ \ {u}]
  /\ UNCHANGED <<presence, visitors, pc, call>>

RemoveStaleVisitor ==
  /\ sweep.at = "remove"
  /\ visitors' = [visitors EXCEPT ![sweep.object] = @ \ {sweep.user}]
  /\ sweep' = [sweep EXCEPT !.at = "members", !.user = None]
  /\ UNCHANGED <<presence, pc, call>>

NextSet ==
  /\ sweep.at = "members" /\ sweep.todo = {}
  /\ sweep' = [sweep EXCEPT !.at = "sets", !.object = None]
  /\ UNCHANGED <<presence, visitors, pc, call>>

EndSweep ==
  /\ sweep.at = "sets" /\ sweep.keys = {}
  /\ sweep' = Resting
  /\ UNCHANGED <<presence, visitors, pc, call>>

\* A command of the sweep fails and its set or member is passed over, or the
\* service stops and a new sweep starts from the beginning.
SkipInSweep ==
  /\ "sweep_failure" \in env
  /\ \/ /\ sweep.at = "sets"
        /\ \E o \in sweep.keys : sweep' = [sweep EXCEPT !.keys = @ \ {o}]
     \/ /\ sweep.at = "members"
        /\ \E u \in sweep.todo : sweep' = [sweep EXCEPT !.todo = @ \ {u}]
     \/ /\ sweep.at = "remove"
        /\ sweep' = [sweep EXCEPT !.at = "members", !.user = None]
     \/ /\ sweep.at # "rest"
        /\ sweep' = Resting
  /\ UNCHANGED <<presence, visitors, pc, call>>

--------------------------------------------------------------------------------
Begin(h) == \E u \in Users, o \in Objects, action \in Actions : ChangeMapObjectStatus(h, u, o, action)

Step(h) ==
  \/ CurrentObject(h) \/ RemovePrevious(h) \/ AddVisitor(h) \/ SetPresence(h)
  \/ RemoveVisitor(h) \/ DelPresence(h) \/ Return(h)

Janitor == Scan \/ ReadSet \/ CheckMember \/ RemoveStaleVisitor \/ NextSet \/ EndSweep

Next ==
  /\ \/ \E h \in Handlers : Begin(h) \/ Step(h) \/ IgnoreError(h) \/ Fail(h)
     \/ \E u \in Users : Expire(u)
     \/ Janitor \/ SkipInSweep
  /\ UNCHANGED env

Spec == Init /\ [][Next]_vars

\* Handlers that have started run on, and the ticker keeps firing; nobody has to
\* visit or leave, and no key has to expire.
FairSpec ==
  /\ Spec
  /\ WF_vars(Janitor /\ UNCHANGED env)
  /\ \A h \in Handlers : WF_vars(Step(h) /\ UNCHANGED env)

--------------------------------------------------------------------------------
CallRecord  == [by : Users \cup {None}, object : Objects \cup {None},
                action : Actions \cup {"none"}, prev : Objects \cup {None}, ok : BOOLEAN]
SweepRecord == [at : SweepPcs, keys : SUBSET Objects, object : Objects \cup {None},
                todo : SUBSET Users, user : Users \cup {None}]

\* The type invariant.
TypeOK ==
  /\ presence \in [Users -> Objects \cup {None}]
  /\ visitors \in [Objects -> SUBSET Users]
  /\ pc \in [Handlers -> Steps]
  /\ call \in [Handlers -> CallRecord]
  /\ sweep \in SweepRecord
  /\ env \subseteq Happenings

Without(happenings) == env \cap happenings = {}

\* After VISITING replied ok the user is counted at the object, and present there
\* or lapsed, whatever failed in earlier calls and whatever others do (MarkVisiting
\* adds the member again on every heartbeat, and adds before it sets the key).
\* Needs one call per user at a time and no sweep.
VisitedMeansCounted == Without({"overlap", "janitor"}) => \A h \in Handlers :
  LET c == call[h] IN c.ok /\ c.action = "VISITING" =>
    c.by \in visitors[c.object] /\ presence[c.by] \in {c.object, None}

\* After NOT_VISITING replied ok the user is neither counted at the object nor
\* present anywhere, with the sweep and all failures (MarkNotVisiting trusts the
\* object named, not the presence key).  Needs one call per user at a time.
LeftMeansGone == Without({"overlap"}) => \A h \in Handlers :
  LET c == call[h] IN c.ok /\ c.action = "NOT_VISITING" =>
    c.by \notin visitors[c.object] /\ presence[c.by] = None

\* A user with no call in flight who holds a presence is counted where it says.
\* Besides, no call fails half way.
PresentIsCounted == Without({"overlap", "janitor", "failure"}) => \A u \in Users :
  ~Busy(u) /\ presence[u] # None => u \in visitors[presence[u]]

\* When besides no presence lapses and users leave only what they visit, the
\* visitor sets hold a user with no call in flight exactly at the presence.
Counted(u)  == {o \in Objects : u \in visitors[o]}
CountedOnce == env = {} => \A u \in Users : ~Busy(u) => Counted(u) = {presence[u]} \ {None}

\* The janitor's promise: a user who stays away is in the end not counted
\* anywhere, whatever became of the calls before and whatever others do.
AwayLeavesCounts == Without({"sweep_failure"}) => \A u \in Users :
  <>[](presence[u] = None /\ ~Busy(u)) => <>[](Counted(u) = {})
================================================================================
