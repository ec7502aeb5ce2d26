---------------------------- MODULE MCRunScheduler ----------------------------
(* Instances of RunScheduler for TLC. *)
EXTENDS RunScheduler

CONSTANTS u1, u2, g, a, b

\* One turn of the user, one group turn, one agent and one background run.
FourTasks == {u1, g, a, b}
FourLanes == [t \in FourTasks |-> CASE t = a -> "agent" [] t = b -> "background" [] OTHER -> "user"]

GroupTurns == {g}
===============================================================================
