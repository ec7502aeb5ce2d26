----------------------------- MODULE MCPendingWakes -----------------------------
(* Instances of PendingWakes for TLC. *)
EXTENDS PendingWakes

CONSTANTS s, c, t, x, a, g

\* A shell command, a cloud agent and a subagent of an agent a, and a shell
\* command of a group g.
OneOfEach == {s, c, t, x}
OfOneAndGroup == [w \in OneOfEach |-> IF w = x THEN g ELSE a]
EachKind == [w \in OneOfEach |-> CASE w = c -> "cloud-agent" [] w = t -> "subagent" [] OTHER -> "shell"]
JustG == {g}

\* Two that a recreation carries, two whose completions share a queue, or the
\* one of the group.
PairOrGroup == {{s, c}, {c, t}, {x}}
===============================================================================
