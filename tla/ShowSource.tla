----------------------------- MODULE ShowSource -----------------------------
(***************************************************************************)
(* What the switch of a show from one source to another promises: a show   *)
(* is moved only by a switch that was asked for, to an id no other show    *)
(* has; episodes are loaded for the id the show has and no other; and a    *)
(* show that was moved is not forgotten before its episodes are those of   *)
(* the new id.  Nothing is said of rows, queues, crashes and restarts.     *)
(***************************************************************************)
CONSTANTS Show, Id,
          Gone       \* the id, and the episodes, of a show that was deleted

VARIABLES id,        \* per show, the id it has
          loaded,    \* per show, the id its episodes are of
          unsettled  \* shows of which a switch is on record, or was dropped

vars == <<id, loaded, unsettled>>

Settled(s) == loaded[s] = id[s]

Init ==
    /\ id \in [Show -> Id] /\ loaded \in [Show -> Id]
    /\ \A s, t \in Show : id[s] = id[t] => s = t
    /\ unsettled \subseteq Show
    /\ \A s \in Show : Settled(s) \/ s \in unsettled

\* switches are put on record, and taken off it where there is nothing to do
Record ==
    /\ unsettled' \subseteq Show
    /\ \A s \in unsettled \ unsettled' : Settled(s)
    /\ UNCHANGED <<id, loaded>>

Move(s) ==
    /\ s \in unsettled
    /\ \E new \in Id : /\ \A t \in Show \ {s} : id[t] # new
                       /\ id' = [id EXCEPT ![s] = new]
    /\ UNCHANGED <<loaded, unsettled>>

Load(s) ==
    /\ s \in unsettled
    /\ loaded' = [loaded EXCEPT ![s] = id[s]]
    /\ unsettled' \in {unsettled, unsettled \ {s}}
    /\ UNCHANGED id

\* the show is deleted, and what is on record of it may go
Remove(s) ==
    /\ id' = [id EXCEPT ![s] = Gone]
    /\ loaded' = [loaded EXCEPT ![s] = Gone]
    /\ unsettled' \subseteq unsettled
    /\ \A t \in unsettled \ unsettled' : t = s \/ Settled(t)

Next ==
    \/ Record
    \/ \E s \in Show : Move(s) \/ Load(s) \/ Remove(s)

Spec == Init /\ [][Next]_vars
=============================================================================
