----------------------------- MODULE MCFriendGraph -----------------------------
(* FriendGraph for TLC: users, request ids and handlers are interchangeable.   *)
EXTENDS FriendGraph, TLC

Symmetric == Permutations(Users) \cup Permutations(Rids) \cup Permutations(Handlers)

\* agreed is read by no action and by no property but Consent: runs that do not
\* check Consent leave it out of the fingerprint.
WithoutHistory == <<friendships, requests, blocks, cache, pc, call>>
================================================================================
