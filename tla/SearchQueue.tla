----------------------------- MODULE SearchQueue -----------------------------
(***************************************************************************)
(* The search queue of SickGear, its scheduler thread, the threads that    *)
(* ask for searches and the life of the process around them:               *)
(*   sickgear/search_queue.py   class SearchQueue                          *)
(*   sickgear/scheduler.py      Scheduler.run for that queue               *)
(*   sickgear/__init__.py       halt                                       *)
(* The web server still serves while halt runs (sickgear.py stops it       *)
(* afterwards), so requests interleave with every step of a shutdown.      *)
(***************************************************************************)
EXTENDS GenericQueue

CONSTANTS Show, ShowOf,      \* ShowOf[w]: item.show_obj, or NoShow
          NoShow,
          Segment,           \* Segment[w]: item.segment
          Requesters,        \* threads that call add_item: web, backlog, ...
          Loader,            \* the scheduler thread inside load_queue
          Idle,              \* a thread that is not inside add_item
          MaxUid             \* bound: uids one life of the process may reach

ActionTypes == {"backlog", "recent", "failed", "manual", "proper"}
\* the uid of a new item inside add_item: it has none yet
NoUid == 0

\* the types _clear_queue and remove_from_queue exclude
Excluded == {"recent", "proper"}

SearchPriority(a) == CASE a = "backlog" -> {LOW}
                       [] a = "recent" -> {NORMAL}
                       [] a \in {"failed", "manual"} -> {HIGH}
                       [] a = "proper" -> {HIGH, VERYHIGH}

ASSUME SearchQueueAssumption ==
    /\ Action \in [Work -> ActionTypes]
    /\ \A w \in Work : Priority[w] \in SearchPriority(Action[w])
    /\ \A v, w \in Work : Key[v] = Key[w] => v = w
    /\ Persisted = {w \in Work : Action[w] \in {"backlog", "failed", "manual"}}
    /\ \A w \in Work : (w \in Persisted) <=> (ShowOf[w] # NoShow)
    /\ Loader \notin Requesters
    /\ NoItem \notin Item
    /\ Idle \notin Row
    /\ MaxUid \in Nat

VARIABLES
    adding,    \* per thread: the item between add_item's check and its append
    loading,   \* rows read by load_queue and not handled yet
    sched,     \* the scheduler thread: loading, idle, in job_run, or exited
    phase,     \* the process: up, the steps of halt, or down
    snapshot,  \* the items save_queue listed and has not written yet
    unsaved,   \* history: uids that live without a row, for a named reason
    stale      \* history: uids of rows that outlived their item

procVars == <<adding, loading, sched, phase, snapshot, unsaved, stale>>
vars == <<queueVars, procVars>>

Threads == Requesters \cup {Loader}
Alive   == phase # "down"

\* the rows load_queue has read and not yet appended to the queue or skipped
Held == loading \cup ({adding[Loader]} \ {Idle})

TypeOK ==
    /\ queue \subseteq Item
    /\ currentItem \in Item \cup {NoItem}
    /\ threads \subseteq Nat
    /\ min_priority \in {0, HIGH}
    /\ id_counter \in Nat
    /\ table \subseteq Row
    /\ adding \in [Threads -> Row \cup {Idle}]
    /\ loading \subseteq Row
    /\ sched \in {"loading", "idle", "armed", "exited"}
    /\ phase \in {"up", "stopping", "saving", "saved", "down"}
    /\ snapshot \subseteq Item
    /\ unsaved \subseteq Nat
    /\ stale \subseteq Nat

Init ==
    /\ Empty
    /\ id_counter = 0
    /\ table = {}
    /\ adding = [t \in Threads |-> Idle]
    /\ loading = {}
    /\ sched = "loading"
    /\ phase = "up"
    /\ snapshot = {}
    /\ unsaved = {}
    /\ stale = {}

(***************************************************************************)
(* add_item is a test and then an append, each under the lock but not      *)
(* together.  is_in_queue and is_ep_in_queue look at the waiting items     *)
(* only, at their type, show and segment, and not at the other arguments.  *)
(***************************************************************************)
SameSearch(v, w) == /\ Action[v] = Action[w]
                    /\ Segment[v] = Segment[w]
                    /\ ShowOf[v] = ShowOf[w]
InQueue(w) == \E i \in queue : SameSearch(i.work, w)
Refused(w) == w \in Persisted /\ InQueue(w)

\* a request passes the test; one that does not changes nothing
AddCheck(t, w) ==
    /\ Alive
    /\ id_counter < MaxUid
    /\ adding[t] = Idle
    /\ ~Refused(w)
    /\ adding' = [adding EXCEPT ![t] = [uid |-> NoUid, work |-> w]]
    /\ UNCHANGED <<queueVars, loading, sched, phase, snapshot, unsaved, stale>>

\* the new row is not written when a row with the same columns is there;
\* what is written while save_queue holds an older list is wiped by it
AddAppend(t) ==
    /\ Alive
    /\ adding[t] # Idle
    /\ id_counter < MaxUid
    /\ LET w == adding[t].work
       IN  /\ AddNew(w)
           /\ unsaved' = IF (\E r \in table : r.work = w) \/ phase = "saving"
                         THEN unsaved \cup {id_counter + 1} ELSE unsaved
    /\ adding' = [adding EXCEPT ![t] = Idle]
    /\ UNCHANGED <<loading, sched, phase, snapshot, stale>>

(***************************************************************************)
(* load_queue, in the scheduler thread before its loop: row by row, in the *)
(* order SQLite returns them.  A row whose show is not found is passed     *)
(* over, one that is refused like any other request too.                   *)
(***************************************************************************)
LoadSkip(row) ==
    /\ Alive /\ sched = "loading" /\ adding[Loader] = Idle
    /\ row \in loading
    /\ loading' = loading \ {row}
    /\ stale' = stale \cup {row.uid}
    /\ UNCHANGED <<queueVars, adding, sched, phase, snapshot, unsaved>>

LoadCheck(row) ==
    /\ Alive /\ sched = "loading" /\ adding[Loader] = Idle
    /\ row \in loading
    /\ ~Refused(row.work)
    /\ loading' = loading \ {row}
    /\ adding' = [adding EXCEPT ![Loader] = row]
    /\ UNCHANGED <<queueVars, sched, phase, snapshot, unsaved, stale>>

LoadAppend ==
    /\ Alive
    /\ adding[Loader] # Idle
    /\ AddLoaded(adding[Loader])
    /\ adding' = [adding EXCEPT ![Loader] = Idle]
    /\ unsaved' = IF phase = "saving" THEN unsaved \cup {adding[Loader].uid} ELSE unsaved
    /\ UNCHANGED <<loading, sched, phase, snapshot, stale>>

LoadDone ==
    /\ Alive /\ sched = "loading"
    /\ loading = {} /\ adding[Loader] = Idle
    /\ sched' = "idle"
    /\ UNCHANGED <<queueVars, adding, loading, phase, snapshot, unsaved, stale>>

(***************************************************************************)
(* The loop of Scheduler.run: test _stopper, then job_run.                 *)
(***************************************************************************)
SchedTest ==
    /\ Alive /\ sched = "idle"
    /\ sched' = IF phase = "up" THEN "armed" ELSE "exited"
    /\ UNCHANGED <<queueVars, adding, loading, phase, snapshot, unsaved, stale>>

SchedRun ==
    /\ Alive /\ sched = "armed"
    /\ JobRun
    /\ sched' = "idle"
    /\ UNCHANGED <<adding, loading, phase, snapshot, unsaved, stale>>

SearchEnds(u) ==
    /\ Alive
    /\ ItemEnds(u)
    /\ UNCHANGED procVars

(***************************************************************************)
(* Requests that take items out.  abort_show passes the uids of the show's *)
(* running and waiting items to remove_from_queue.                         *)
(***************************************************************************)
Remove(uids) ==
    /\ Alive
    /\ Removable(uids, Excluded) # {}
    /\ RemoveFromQueue(uids, Excluded)
    /\ UNCHANGED procVars

AbortShow(s) == Remove({i.uid : i \in {j \in Live : ShowOf[j.work] = s}})

\* clear_queue drops the rows of the type, those of the running search and
\* of the rows load_queue still holds among them
Clear(type) ==
    /\ Alive
    /\ ClearQueue({type}, Excluded)
    /\ unsaved' = unsaved \cup Uids({x \in Current \cup Held : Action[x.work] = type})
    /\ UNCHANGED <<adding, loading, sched, phase, snapshot, stale>>

\* [mutant] the limit its comment suggests
PauseBacklogAtNormal ==
    /\ Alive /\ min_priority # NORMAL
    /\ SetMinPriority(NORMAL)
    /\ UNCHANGED procVars

PauseBacklog ==
    /\ Alive /\ min_priority # HIGH
    /\ SetMinPriority(HIGH)
    /\ UNCHANGED procVars

UnpauseBacklog ==
    /\ Alive /\ min_priority # 0
    /\ SetMinPriority(0)
    /\ UNCHANGED procVars

(***************************************************************************)
(* The end of the process.  halt stops the scheduler, then calls           *)
(* save_queue, which lists the items under the lock and writes the list    *)
(* after it has released it; the process ends some time later.  A crash    *)
(* may come at any time.  The next process reads the table.                *)
(***************************************************************************)
HaltStop ==
    /\ phase = "up"
    /\ phase' = "stopping"
    /\ UNCHANGED <<queueVars, adding, loading, sched, snapshot, unsaved, stale>>

\* [mutant] the running item is forgotten
SaveListQueueOnly ==
    /\ phase = "stopping"
    /\ phase' = "saving"
    /\ snapshot' = queue
    /\ UNCHANGED <<queueVars, adding, loading, sched, unsaved, stale>>

SaveList ==
    /\ phase = "stopping"
    /\ phase' = "saving"
    /\ snapshot' = Live
    /\ UNCHANGED <<queueVars, adding, loading, sched, unsaved, stale>>

\* [mutant] the table is not emptied first
SaveWriteOnTop ==
    /\ phase = "saving"
    /\ phase' = "saved"
    /\ table' = table \cup {r \in SavedRows(snapshot) : r.uid \notin Uids(table)}
    /\ unsaved' = unsaved \cup Uids({i \in snapshot : Outranked(i, snapshot)})
    /\ stale' = Uids(snapshot) \ Uids(Live)
    /\ snapshot' = {}
    /\ UNCHANGED <<queue, currentItem, threads, min_priority, id_counter,
                   adding, loading, sched>>

\* an item that is not in the list, because load_queue still holds its row,
\* or that is listed after one with the same columns, is not written
SaveWrite ==
    /\ phase = "saving"
    /\ phase' = "saved"
    /\ table' = SavedRows(snapshot)
    /\ unsaved' = unsaved \cup Uids(Held)
                  \cup Uids({i \in snapshot : Outranked(i, snapshot)})
    /\ stale' = Uids(snapshot) \ Uids(Live)
    /\ snapshot' = {}
    /\ UNCHANGED <<queue, currentItem, threads, min_priority, id_counter,
                   adding, loading, sched>>

ProcessEnds ==
    /\ Vanish
    /\ phase' = "down"
    /\ adding' = [t \in Threads |-> Idle]
    /\ loading' = {} /\ snapshot' = {} /\ unsaved' = {} /\ stale' = {}
    /\ sched' = "exited"
    /\ UNCHANGED <<id_counter, table>>

Exit  == phase = "saved" /\ ProcessEnds
Crash == Alive /\ ProcessEnds

Start ==
    /\ phase = "down"
    /\ phase' = "up"
    /\ sched' = "loading"
    /\ id_counter' \in InitId
    /\ loading' = table
    /\ UNCHANGED <<queue, currentItem, threads, min_priority, table,
                   adding, snapshot, unsaved, stale>>

SchedulerStep ==
    \/ \E row \in loading : LoadSkip(row) \/ LoadCheck(row)
    \/ LoadAppend \/ LoadDone
    \/ SchedTest \/ SchedRun

Halting == HaltStop \/ SaveList \/ SaveWrite \/ Exit

Next ==
    \/ \E t \in Requesters, w \in Work : AddCheck(t, w)
    \/ \E t \in Requesters : AddAppend(t)
    \/ SchedulerStep
    \/ \E u \in threads : SearchEnds(u)
    \/ \E uids \in SUBSET Uids(queue) : Remove(uids)
    \/ \E s \in Show : AbortShow(s)
    \/ \E type \in ActionTypes : Clear(type)
    \/ PauseBacklog \/ UnpauseBacklog
    \/ Halting
    \/ Crash \/ Start

Spec == Init /\ [][Next]_vars

(***************************************************************************)
(* Threads that started go on: the scheduler's loop, a thread between the  *)
(* two halves of add_item, halt once it began.  A search ends, for every   *)
(* request it makes has a timeout.  Nobody need ask, clear, pause, halt or *)
(* crash, and nobody need start the program again.                         *)
(***************************************************************************)
Fairness ==
    /\ WF_vars(SchedulerStep)
    /\ \A t \in Requesters : WF_vars(AddAppend(t))
    /\ WF_vars(\E u \in threads : SearchEnds(u))
    /\ WF_vars(SaveList \/ SaveWrite \/ Exit)

FairSpec == Spec /\ Fairness

-----------------------------------------------------------------------------
(***************************************************************************)
(* Safety.                                                                 *)
(***************************************************************************)

\* A uid names one thing: two items, two rows, or an item and a row with the
\* same uid are the same search, and no uid is ahead of the counter that
\* hands them out.  remove_from_queue, delete_item and the queue pages of the
\* web interface rest on it, and the counter of a new process comes from the
\* rows the last one happened to leave.
UidsNameOneSearch ==
    /\ \A i, j \in Live : i.uid = j.uid => i = j
    /\ \A r, s \in table : r.uid = s.uid => r = s
    /\ \A i \in Live, r \in table : i.uid = r.uid => i.work = r.work
    /\ \A u \in Uids(Live) \cup Uids(table) : u <= id_counter

\* Whatever waits or runs and has to survive a crash has its row, but for the
\* uids in `unsaved': added while an equal search's row held the unique key,
\* added between the two halves of save_queue, or cleared under load_queue
\* or a running search.  Nothing else loses a request.
Durable ==
    \A i \in Live : \/ i.work \notin Persisted
                    \/ i.uid \in unsaved
                    \/ RowOf(i) \in table

\* A row is of an item that waits or runs, or of one load_queue has yet to
\* take up, but for the uids in `stale': passed over by load_queue, or ended
\* or removed between the two halves of save_queue.  Nothing else makes the
\* next process repeat a search that was done or taken out.
NoSearchRepeated ==
    Alive => \A r \in table :
                \/ r.uid \in stale
                \/ r \in Held
                \/ \E i \in Live : RowOf(i) = r

\* One search runs at a time and it is the current item, also while load_queue,
\* requests and a stopping scheduler interleave with job_run.
OneSearchAtATime == threads \subseteq Uids(Current)

\* The queue keeps the promise of PriorityQueue, whatever load_queue, requests,
\* removals, pauses, halts and crashes do in between: it implements it.
KeepsPromise == Promise!Spec

(***************************************************************************)
(* Liveness.                                                               *)
(***************************************************************************)
Waiting(w) == \E i \in queue : i.work = w

\* While the process stays up and nothing is paused, what waits is taken up
\* (or out), whatever its priority; the uids of a life are finite here, so no
\* endless flow of higher priorities starves a backlog search.
WaitingIsTaken ==
    (<>[](phase = "up") /\ <>[](min_priority = 0)) =>
        \A w \in Work : Waiting(w) ~> ~Waiting(w)

\* A saved search is done or taken off the table in the end, by this process
\* or, if it crashes, by the one after it, unless load_queue passed it over.
OnTable(w) == \E r \in table : r.work = w /\ r.uid \notin stale
SavedIsWorkedOff ==
    (<>[](phase = "up") /\ <>[](min_priority = 0)) =>
        \A w \in Work : OnTable(w) ~> ~OnTable(w)
=============================================================================
