------------------------------- MODULE MCService -------------------------------
EXTENDS Service, TLC

Every == {"auth", "profiles", "map"}
\* Anything at once, a server's error with nothing beside it, and a signal alone.
Environments == {{"setup_error", "signal", "hangup", "slow_edge"},
                 {"serve_error", "signal"}, {"signal"}}
================================================================================
