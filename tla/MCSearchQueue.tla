---------------------------- MODULE MCSearchQueue ----------------------------
(***************************************************************************)
(* SearchQueue for TLC.  The searches: a scheduled backlog search of a     *)
(* show's season, a forced one of the same season (the same search for     *)
(* is_in_queue, another row for the unique index), a manual search, and a  *)
(* recent search, which is not saved.                                      *)
(***************************************************************************)
EXTENDS SearchQueue, TLC

CONSTANTS b1, b2, m, r     \* the works
CONSTANTS s1               \* the shows
CONSTANTS q1, q2           \* threads that make requests

MCAction == [w \in Work |-> CASE w \in {b1, b2} -> "backlog"
                              [] w = m -> "manual"
                              [] w = r -> "recent"]
MCPriority == [w \in Work |-> CASE w \in {b1, b2} -> LOW
                                [] w = m -> HIGH
                                [] w = r -> NORMAL]
MCKey     == [w \in Work |-> w]
MCShowOf  == [w \in Work |-> IF w = r THEN NoShow ELSE s1]
MCSegment == [w \in Work |-> CASE w \in {b1, b2} -> "season 1"
                               [] w = m -> "1x1"
                               [] w = r -> "all"]
MCPersisted == {b1, b2, m} \cap Work
Symmetry   == Permutations({q1, q2})
=============================================================================
