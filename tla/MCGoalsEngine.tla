---- MODULE MCGoalsEngine ----
(***************************************************************************)
(* The goals engine with the kinds of goal that stereo_topology_goals.c    *)
(* declares: a pair that exclude each other, a pair that run concurrently, *)
(* and one that cancels the others.  There are as few slots as goals.      *)
(***************************************************************************)
EXTENDS GoalsEngine

MCContention ==
    [g \in Goals |-> CASE g = "stop" -> "cancel"
                       [] g \in {"allow_le", "connectable"} -> "concurrent"
                       [] OTHER -> "wait"]

MCExclusive ==
    [g \in Goals |-> CASE g = "connect" -> "disconnect"
                       [] g = "disconnect" -> "connect"
                       [] OTHER -> None]

MCConcurrent ==
    [g \in Goals |-> CASE g = "allow_le" -> {"connectable"} \cap Goals
                       [] g = "connectable" -> {"allow_le"} \cap Goals
                       [] OTHER -> {}]
====
