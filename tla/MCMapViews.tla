------------------------------- MODULE MCMapViews ------------------------------
EXTENDS MapViews, TLC

\* Reads fail; visits do not, and no key lapses (leaving does to an answer what a
\* lapse does).  The caller may visit or leave while the view of a call is read.
Environments == {{"overlap"}}
Symmetric == Permutations(Users \ {Caller}) \cup Permutations(Objects)
================================================================================
