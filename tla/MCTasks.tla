------------------------------ MODULE MCTasks -------------------------------
EXTENDS Tasks, TLC

CONSTANTS r, a, b

\* The programs: r opens a group, and cancels; a opens a group inside the one it is
\* in, and may leave it, spawns and awaits; b sleeps, and has a handler.
MCOps == r :> {"group", "add", "cancel"}
           @@ a :> {"group", "add", "await", "escape", "spawn"}
           @@ b :> {"sleep", "handler"}
=============================================================================
