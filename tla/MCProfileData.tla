----------------------------- MODULE MCProfileData -----------------------------
EXTENDS ProfileData, TLC

\* The reads under a friend graph that changes, and under edits.
Environments == {{"graph", "store_error"}, {"edits", "store_error"}}
Symmetric == Permutations(Users) \cup Permutations(Editors)
================================================================================
