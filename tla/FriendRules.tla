------------------------------ MODULE FriendRules ------------------------------
(***************************************************************************)
(* What the Profiles service promises about who may be whose friend, with  *)
(* every operation atomic.  The handlers of profiles_server.go check these *)
(* rules in several database calls; FriendGraph models the calls, and a    *)
(* Profiles service that serves one call at a time implements this module. *)
(***************************************************************************)
CONSTANT Users

VARIABLES friends,  \* ordered pairs: <<u, v>> and <<v, u>> stand for one friendship
          pending,  \* <<u, v>>: u asked v and v has not answered
          blocked   \* <<u, v>>: u blocks v

vars == <<friends, pending, blocked>>

Both(u, v) == {<<u, v>>, <<v, u>>}

Init == friends = {} /\ pending = {} /\ blocked = {}

\* SendFriendRequest: refused when blocked, friends already, or a request waits
\* in either direction.
Ask(u, v) ==
  /\ u # v
  /\ Both(u, v) \cap (friends \cup pending \cup blocked) = {}
  /\ pending' = pending \cup {<<u, v>>}
  /\ UNCHANGED <<friends, blocked>>

\* SendFriendResponse by the addressee v of a waiting request.
Accept(u, v) ==
  /\ <<u, v>> \in pending
  /\ pending' = pending \ {<<u, v>>}
  /\ friends' = friends \cup Both(u, v)
  /\ UNCHANGED blocked

Decline(u, v) ==
  /\ <<u, v>> \in pending
  /\ pending' = pending \ {<<u, v>>}
  /\ UNCHANGED <<friends, blocked>>

Unfriend(u, v) ==
  /\ friends' = friends \ Both(u, v)
  /\ UNCHANGED <<pending, blocked>>

\* BlockUser: the friendship and the waiting requests go with it.
Block(u, v) ==
  /\ u # v
  /\ blocked' = blocked \cup {<<u, v>>}
  /\ friends' = friends \ Both(u, v)
  /\ pending' = pending \ Both(u, v)

\* UnblockUser gives nothing back.
Unblock(u, v) ==
  /\ blocked' = blocked \ {<<u, v>>}
  /\ UNCHANGED <<friends, pending>>

Next == \E u, v \in Users :
  Ask(u, v) \/ Accept(u, v) \/ Decline(u, v) \/ Unfriend(u, v) \/ Block(u, v) \/ Unblock(u, v)

Spec == Init /\ [][Next]_vars
================================================================================
