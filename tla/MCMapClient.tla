------------------------------ MODULE MCMapClient ------------------------------
(* MapClient for TLC, in three environments: requests fail and the presence    *)
(* ends elsewhere; the map is centred elsewhere; the page is left or hidden     *)
(* before the position is known.                                                *)
EXTENDS MapClient

CONSTANTS o1, o2

Places == {{o1, o2}, {o2}}

Environments == {{"failure", "lapse"}, {"elsewhere"}, {"early_leave", "background"}}

\* Nothing but the user's own steps.
Calm == {{}}
================================================================================
