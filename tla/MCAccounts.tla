------------------------------- MODULE MCAccounts ------------------------------
(* Accounts for TLC: all names are interchangeable.                            *)
EXTENDS Accounts, TLC

Symmetric == Permutations(Ids) \cup Permutations(Logins) \cup Permutations(Emails)
             \cup Permutations(Passwords) \cup Permutations(Tokens) \cup Permutations(Handlers)

\* Everything may happen; all but a refused row; nothing.
Environments == {Happenings, {"failure", "expiry"}, {}}

Failures == {{"failure"}}
================================================================================
