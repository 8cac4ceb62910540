--------------------------- MODULE PriorityQueue ---------------------------
(***************************************************************************)
(* What a work queue promises to those who put work into it: one piece of  *)
(* work runs at a time; of those that wait the one of the highest priority *)
(* runs next, and of equal priorities the one put first; nothing stops     *)
(* waiting but to run, to be withdrawn, or with the whole process.         *)
(* Nothing is said here of threads, numbers, tables and locks.             *)
(***************************************************************************)
EXTENDS Naturals

CONSTANTS Work,
          Priority   \* Priority[w]: higher goes first

VARIABLES waiting,   \* pieces of work with the time they were put
          running    \* the one that runs

vars == <<waiting, running>>

Before(i, j) == \/ Priority[i.work] > Priority[j.work]
                \/ Priority[i.work] = Priority[j.work] /\ i.added < j.added

Init == waiting = {} /\ running = {}

Put(i) ==
    /\ i.work \in Work
    /\ \A j \in waiting : j.added < i.added
    /\ waiting' = waiting \cup {i}
    /\ UNCHANGED running

Take(i) ==
    /\ running = {}
    /\ \A j \in waiting \ {i} : Before(i, j)
    /\ waiting' = waiting \ {i}
    /\ running' = {i}

Finish ==
    /\ running' = {}
    /\ UNCHANGED waiting

Withdraw ==
    /\ waiting' \subseteq waiting
    /\ UNCHANGED running

Vanish == waiting' = {} /\ running' = {}

Next ==
    \/ \E i \in waiting' : Put(i)
    \/ \E i \in waiting : Take(i)
    \/ Finish \/ Withdraw \/ Vanish

Spec == Init /\ [][Next]_vars
=============================================================================
