------------------------------- MODULE MCPresence ------------------------------
(* Presence for TLC: users, objects and handlers are interchangeable.          *)
EXTENDS Presence, TLC

Symmetric == Permutations(Users) \cup Permutations(Objects) \cup Permutations(Handlers)

\* One call per user: everything may happen, then less and less.
Environments == {Happenings \ {"overlap"}, {"expiry", "failure", "stray_leave"},
                 {"expiry", "stray_leave"}, {}}

\* For the sweep: all but failures of the sweep itself.
SweepWorks == {Happenings \ {"sweep_failure", "overlap"}}
================================================================================
