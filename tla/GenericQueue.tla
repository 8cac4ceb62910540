---------------------------- MODULE GenericQueue ----------------------------
(***************************************************************************)
(* The work queue every SickGear queue inherits from: GenericQueue in      *)
(* sickgear/generic_queue.py.  The operators below are the methods of the  *)
(* class; each is what one thread does while it holds the queue's RLock,   *)
(* so each is one atomic step of the queue that uses it.                   *)
(*                                                                         *)
(* A queue item is a thread object.  Of its data the queue tells apart     *)
(*   uid    its number, given by _get_new_id or kept from the saved row;   *)
(*   work   what it does: action, show and arguments;                      *)
(*   added  datetime.now() when it was appended, of which only the order   *)
(*          is kept (a clock that is set back is not modelled).            *)
(***************************************************************************)
EXTENDS Naturals, FiniteSets

CONSTANTS Work,       \* what can be asked of the queue
          Action,     \* Action[w]: the action_id of the item class
          Priority,   \* Priority[w]: QueueItem.priority
          Key,        \* Key[w]: the columns of the table's unique index
          Persisted,  \* the works for which _get_item_sql returns SQL
          NoItem      \* currentItem is None

LOW      == 10
NORMAL   == 20
HIGH     == 30
VERYHIGH == 40

ASSUME GenericQueueAssumption ==
    /\ Priority \in [Work -> Nat]
    /\ Persisted \subseteq Work

VARIABLES queue,         \* the items that wait
          currentItem,   \* the item taken last, until job_run reaps it
          threads,       \* the uids of the items whose thread is alive
          min_priority,  \* items below it are not started
          id_counter,    \* the last uid given
          table          \* the rows of the queue's table: uid and work

queueVars == <<queue, currentItem, threads, min_priority, id_counter, table>>

Item == [uid : Nat, work : Work, added : Nat]
Row  == [uid : Nat, work : Work]

(***************************************************************************)
(* Readings of the state.                                                  *)
(***************************************************************************)
Current == IF currentItem = NoItem THEN {} ELSE {currentItem}
Live    == queue \cup Current
Uids(S) == {x.uid : x \in S}
RowOf(i) == [uid |-> i.uid, work |-> i.work]

\* `added' of the next item: later than that of every item in the queue object
NextAdded == {n \in {1} \cup {i.added + 1 : i \in Live} :
                 \A i \in Live : i.added < n}

\* queue.sort(key=lambda y: (-y.priority, y.added))
Precedes(i, j) == \/ Priority[i.work] > Priority[j.work]
                  \/ /\ Priority[i.work] = Priority[j.work]
                     /\ i.added < j.added
\* [mutant] sorted by priority alone
HeadsOfPriority == {i \in queue : \A j \in queue : Priority[j.work] <= Priority[i.work]}

Heads == {i \in queue : \A j \in queue \ {i} : Precedes(i, j)}

\* INSERT OR IGNORE: the unique indexes on the uid and on the key
Insert(rows, i) ==
    IF i.work \in Persisted /\ \A r \in rows : r.uid # i.uid /\ Key[r.work] # Key[i.work]
    THEN rows \cup {RowOf(i)} ELSE rows

\* [mutant] the saved uids are not looked at
InitIdZero == {0}

(***************************************************************************)
(* _load_init_id: the counter of a new queue object starts at the highest  *)
(* uid of its table.                                                       *)
(***************************************************************************)
InitId == {n \in {0} \cup Uids(table) : \A r \in table : r.uid <= n}

(***************************************************************************)
(* add_item.  An item that brings a uid keeps it; one that was read from   *)
(* the table is not saved again (add_to_db=False).                         *)
(***************************************************************************)
AddItem(u, w) ==
    \E a \in NextAdded :
        LET i == [uid |-> u, work |-> w, added |-> a]
        IN  /\ queue' = queue \cup {i}
            /\ table' = Insert(table, i)
            /\ UNCHANGED <<currentItem, threads, min_priority>>

AddNew(w) ==
    /\ AddItem(id_counter + 1, w)
    /\ id_counter' = id_counter + 1

AddLoaded(row) ==
    \E a \in NextAdded :
        /\ queue' = queue \cup {[uid |-> row.uid, work |-> row.work, added |-> a]}
        /\ UNCHANGED <<currentItem, threads, min_priority, id_counter, table>>

\* [mutant] the thread of the item taken last is not looked at
CurrentAliveUnchecked == FALSE

\* [mutant] an item is taken for alive until somebody clears it
CurrentAliveByItem == currentItem # NoItem

(***************************************************************************)
(* job_run, the scheduler's call.  While the item's thread is alive it     *)
(* does nothing.  Otherwise it reaps the dead item (finish, delete_item)   *)
(* and starts the first item of the sorted queue, unless its priority is   *)
(* below min_priority.                                                     *)
(***************************************************************************)
CurrentAlive == currentItem # NoItem /\ currentItem.uid \in threads

\* [mutant] the row of a finished item is kept
ReapedWithoutDelete == table

Reaped == IF currentItem = NoItem THEN table
          ELSE {r \in table : r.uid # currentItem.uid}

StartHead ==
    \E i \in Heads :
        /\ Priority[i.work] >= min_priority
        /\ queue' = queue \ {i}
        /\ currentItem' = i
        /\ threads' = threads \cup {i.uid}

StartNone ==
    /\ \A i \in Heads : Priority[i.work] < min_priority
    /\ currentItem' = NoItem
    /\ UNCHANGED <<queue, threads>>

JobRun ==
    \/ CurrentAlive /\ UNCHANGED queueVars
    \/ /\ ~CurrentAlive
       /\ table' = Reaped
       /\ StartHead \/ StartNone
       /\ UNCHANGED <<min_priority, id_counter>>

\* the run() of the current item returns: its thread is dead
ItemEnds(u) ==
    /\ u \in threads
    /\ threads' = threads \ {u}
    /\ UNCHANGED <<queue, currentItem, min_priority, id_counter, table>>

(***************************************************************************)
(* _remove_from_queue without force: of the uids asked for, only those of  *)
(* waiting items of a type that is not excluded go, from the list and from *)
(* the table.                                                              *)
(***************************************************************************)
Removable(uids, excluded) ==
    {i \in queue : i.uid \in uids /\ Action[i.work] \notin excluded}

RemoveFromQueue(uids, excluded) ==
    LET gone == Removable(uids, excluded)
    IN  /\ queue' = queue \ gone
        /\ table' = {r \in table : r.uid \notin Uids(gone)}
        /\ UNCHANGED <<currentItem, threads, min_priority, id_counter>>

(***************************************************************************)
(* _clear_queue: every row of the types goes, whoever it belongs to.       *)
(***************************************************************************)
ClearQueue(types, excluded) ==
    /\ queue' = {i \in queue : Action[i.work] \in excluded \/ Action[i.work] \notin types}
    /\ table' = {r \in table : Action[r.work] \notin types}
    /\ UNCHANGED <<currentItem, threads, min_priority, id_counter>>

\* unpause, and the callers that set a limit of their own (pause has no caller)
SetMinPriority(p) ==
    /\ min_priority' = p
    /\ UNCHANGED <<queue, currentItem, threads, id_counter, table>>

(***************************************************************************)
(* save_queue, second half: DELETE all, then INSERT OR IGNORE the current  *)
(* item and the waiting ones in the order they were read.  Of two with the *)
(* same key the first wins: items with the same key have the same          *)
(* priority, so the first is the one added first.                          *)
(***************************************************************************)
Outranked(i, S) == \E j \in S : Key[j.work] = Key[i.work] /\ j.added < i.added
SavedRows(S) == {RowOf(i) : i \in {j \in S : j.work \in Persisted /\ ~Outranked(j, S)}}

\* the queue object of a process that ended, and of one that starts
Empty == /\ queue = {}
         /\ currentItem = NoItem
         /\ threads = {}
         /\ min_priority = 0
Vanish == /\ queue' = {}
          /\ currentItem' = NoItem
          /\ threads' = {}
          /\ min_priority' = 0

(***************************************************************************)
(* The promise of PriorityQueue, in terms of the class: what runs is the   *)
(* current item while its thread is alive.                                 *)
(***************************************************************************)
Running == {i \in Current : i.uid \in threads}
Promise == INSTANCE PriorityQueue WITH waiting <- queue, running <- Running
=============================================================================
