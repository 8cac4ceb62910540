------------------------------ MODULE ShowQueue ------------------------------
(***************************************************************************)
(* The show queue, the work its items do to a show, the daily update that  *)
(* fills it, and the restart that loads it again:                          *)
(*   sickgear/show_queue.py     class ShowQueue and the run of its items   *)
(*   sickgear/show_updater.py   ShowUpdater.job_run                        *)
(*   sickgear/tv.py             TVShow.delete_show                         *)
(* update_show, refresh_show and switch_show test and append under one     *)
(* hold of the RLock, so each is one step.  What halt saves is modelled    *)
(* with the search queue: here the process only crashes.                   *)
(***************************************************************************)
EXTENDS GenericQueue

CONSTANTS Show,
          Updaters,    \* the threads that run ShowUpdater: a subset of
          Cycle,       \*   the scheduler SHOWDATAUPDATE and
          Startup,     \*   STARTUP-FORCE-SHOW-UPDATE
          NoRun,       \* an updater that is not running
          MaxUid       \* bound: the uid at which requests end, and the
                       \* highest a crash may leave in the table

Updates     == {"update", "force update", "force web update"}
ActionTypes == Updates \cup {"add", "refresh", "rename", "subtitle", "switch"}

\* what an item is asked to do, and the refresh an update asks for at its end
WorkType == [action : ActionTypes, show : Show, scheduled : BOOLEAN, force : BOOLEAN]
Refresh(s, scheduled, force) ==
    [action |-> "refresh", show |-> s, scheduled |-> scheduled, force |-> force]
RefreshAfter(w) == Refresh(w.show, w.scheduled, w.force)

DailyUpdate(s)  == [action |-> "update", show |-> s, scheduled |-> TRUE, force |-> FALSE]
DailyRefresh(s) == Refresh(s, TRUE, TRUE)

\* SWITCH_PRIO is HIGH + 5; "do refreshes first because they're quick"
ShowPriority(a) == CASE a = "add" -> VERYHIGH
                     [] a = "switch" -> HIGH + 5
                     [] a = "refresh" -> HIGH
                     [] OTHER -> NORMAL

ASSUME ShowQueueAssumption ==
    /\ Work \subseteq WorkType
    /\ \A w \in Work : w.action \in Updates => RefreshAfter(w) \in Work
    /\ \A s \in Show : DailyUpdate(s) \in Work /\ DailyRefresh(s) \in Work
    /\ Action = [w \in Work |-> w.action]
    /\ Priority = [w \in Work |-> ShowPriority(w.action)]
    /\ Key = [w \in Work |-> <<w.show, w.action>>]
    /\ Persisted = {w \in Work : w.action # "switch"}
    /\ Updaters \subseteq {Cycle, Startup}
    /\ NoItem \notin Item
    /\ MaxUid \in Nat

VARIABLES
    showList,   \* the shows SickGear knows
    leaving,    \* shows of which delete_show has begun
    over,       \* uids of items of which run() has done its work
    kept,       \* uids that load_queue brought from the table
    loading,    \* rows load_queue has read and not handled
    sched,      \* the scheduler thread: loading, in its loop, within
                \*   check_events while the events run, or dead
    runs,       \* per updater: the shows left and whether an item was queued
    amActive,   \* ShowUpdater.amActive
    daily_update_running,
    owed,       \* history: updates that ended, until the show is refreshed
    due         \* history: a run got to its end and queued something, and
                \*   the event is still to come

dailyVars == <<runs, amActive, daily_update_running>>
procVars  == <<showList, leaving, over, kept, loading, sched, dailyVars, owed, due>>
vars      == <<queueVars, procVars>>

Run == [left : SUBSET Show, got : BOOLEAN]

TypeOK ==
    /\ queue \subseteq Item
    /\ currentItem \in Item \cup {NoItem}
    /\ threads \subseteq Uids(Current)
    /\ min_priority = 0
    /\ id_counter \in Nat
    /\ table \subseteq Row
    /\ showList \subseteq Show /\ leaving \subseteq Show
    /\ over \subseteq Nat /\ kept \subseteq Nat
    /\ loading \subseteq Row
    /\ sched \in {"loading", "loop", "events", "dead"}
    /\ runs \in [Updaters -> Run \cup {NoRun}]
    /\ amActive \in BOOLEAN /\ daily_update_running \in BOOLEAN
    /\ owed \subseteq Work /\ due \in BOOLEAN

Init ==
    /\ Empty
    /\ id_counter = 0 /\ table = {}
    /\ showList \in SUBSET Show /\ leaving = {}
    /\ over = {} /\ kept = {} /\ loading = {} /\ sched = "loading"
    /\ runs = [d \in Updaters |-> NoRun]
    /\ amActive = FALSE /\ daily_update_running = FALSE
    /\ owed = {} /\ due = FALSE

Up == sched # "dead"

\* job_run holds the lock of the queue while check_events runs the events
Unlocked == sched \notin {"dead", "events"}

(***************************************************************************)
(* _is_in_queue and _is_being_somethinged.  The current item counts until  *)
(* job_run reaps it; an add has a show_obj only once it found the show.    *)
(***************************************************************************)
IsInQueue(s, actions) == \E i \in queue : Action[i.work] \in actions /\ i.work.show = s
IsBeing(s, actions) ==
    \E c \in Current : /\ Action[c.work] \in actions /\ c.work.show = s
                       /\ Action[c.work] = "add" => c.uid \in over
SwitchPending(s) == IsBeing(s, {"switch"}) \/ IsInQueue(s, {"switch"})
ShowUpdateRunning == \E i \in Live : i.work.scheduled

\* [mutant] the update that runs is not looked at
UpdateRefusedQueued(s) == IsBeing(s, {"add"}) \/ IsInQueue(s, Updates) \/ SwitchPending(s)

UpdateRefused(s) == \/ IsBeing(s, {"add"} \cup Updates)
                    \/ IsInQueue(s, Updates)
                    \/ SwitchPending(s)

\* refresh_show raises, or skips without a word, or appends
RefreshQueued(w) == (IsBeing(w.show, {"refresh"}) \/ IsInQueue(w.show, {"refresh"})) /\ ~w.force

\* [mutant] the update that asks for the refresh stands in its way
RefreshSkippedAlways(w, after_update) ==
    /\ ~w.force /\ ~RefreshQueued(w)
    /\ IsBeing(w.show, Updates) \/ IsInQueue(w.show, Updates)

RefreshSkipped(w, after_update) ==
    /\ ~w.force /\ ~RefreshQueued(w)
    /\ (~after_update /\ IsBeing(w.show, Updates)) \/ IsInQueue(w.show, Updates)
RefreshRaises(w, after_update) ==
    \/ RefreshQueued(w)
    \/ ~RefreshSkipped(w, after_update) /\ SwitchPending(w.show)
RefreshTaken(w, after_update) == ~RefreshSkipped(w, after_update) /\ ~RefreshRaises(w, after_update)

(***************************************************************************)
(* Requests from the web and the API, none of which is scheduled or forces *)
(* a refresh.                                                              *)
(***************************************************************************)
Accepts(w) == CASE w.action \in Updates -> ~UpdateRefused(w.show)
                [] w.action = "refresh" -> RefreshTaken(w, FALSE)
                [] w.action = "switch" -> ~SwitchPending(w.show)
                [] OTHER -> TRUE

Request(w) ==
    /\ Unlocked /\ id_counter < MaxUid
    /\ w.action = "add" \/ w.show \in showList
    /\ ~w.scheduled /\ (w.action = "refresh" => ~w.force)
    /\ Accepts(w)
    /\ AddNew(w)
    /\ UNCHANGED procVars

\* what requests take out is owed no more
Forgive(shows) == owed' = {w \in owed : w.show \notin shows}

Remove(uids) ==
    /\ Unlocked
    /\ Removable(uids, {}) # {}
    /\ RemoveFromQueue(uids, {})
    /\ Forgive({i.work.show : i \in Removable(uids, {})})
    /\ UNCHANGED <<showList, leaving, over, kept, loading, sched, dailyVars, due>>

\* clear_show_queue of the web interface: the updates together, others apart
Clear(types) ==
    /\ Unlocked
    /\ ClearQueue(types, {})
    /\ Forgive({i.work.show : i \in {j \in queue : Action[j.work] \in types}})
    /\ UNCHANGED <<showList, leaving, over, kept, loading, sched, dailyVars, due>>

(***************************************************************************)
(* delete_show: abort_show takes the waiting items of the show out (and    *)
(* sets a stop event no item of this queue reads); then, after the rows of *)
(* the show are deleted, it leaves the list.  Its callers test before,     *)
(* without the lock (delete_show of the web pages), or not at all          *)
(* (bulk_change).                                                          *)
(***************************************************************************)
DeleteBegins(s) ==
    /\ Unlocked
    /\ RemoveFromQueue({i.uid : i \in {j \in queue : j.work.show = s /\ Action[j.work] # "add"}}, {})
    /\ leaving' = leaving \cup {s}
    /\ Forgive({s})
    /\ UNCHANGED <<showList, over, kept, loading, sched, dailyVars, due>>

DeleteShow(s) == s \in showList /\ DeleteBegins(s)

DeleteEnds(s) ==
    /\ s \in leaving
    /\ leaving' = leaving \ {s}
    /\ showList' = showList \ {s}
    /\ UNCHANGED <<queueVars, over, kept, loading, sched, dailyVars, owed, due>>

(***************************************************************************)
(* What items do: run() up to the end of the thread.                       *)
(***************************************************************************)
Working(actions) == {i \in Current : i.uid \in threads /\ Action[i.work] \in actions}

\* QueueItemAdd finds the show and puts it on the list
AddFinds(i) ==
    /\ i.uid \notin over
    /\ over' = over \cup {i.uid}
    /\ showList' = showList \cup {i.work.show}
    /\ UNCHANGED <<queueVars, leaving, kept, loading, sched, dailyVars, owed, due>>

\* QueueItemAdd fails later: _finish_early deletes the show again
AddFails(i) ==
    /\ i.uid \in over
    /\ DeleteBegins(i.work.show)

\* [mutant] the refresh does not belong to the daily update
UpdateChainsUnscheduled(i, result) ==
    LET w == Refresh(i.work.show, FALSE, i.work.force)
    IN  /\ IF RefreshTaken(w, TRUE) THEN AddNew(w) ELSE UNCHANGED queueVars
        /\ owed' = IF result = "updated" /\ ~SwitchPending(w.show)
                   THEN owed \cup {i.work} ELSE owed

(***************************************************************************)
(* The refresh at the end of an update (result "updated"), or in place of  *)
(* an update whose source is switched off (result "inactive").  The forced *)
(* updates hand all their keywords on, the uid they were loaded with too.  *)
(***************************************************************************)
UpdateChains(i, result) ==
    LET w == RefreshAfter(i.work)
        hasUid == result = "updated" /\ i.work.force /\ i.uid \in kept
    IN  /\ CASE ~RefreshTaken(w, TRUE) -> UNCHANGED queueVars
             [] RefreshTaken(w, TRUE) /\ hasUid -> AddItem(i.uid, w) /\ UNCHANGED id_counter
             [] OTHER -> AddNew(w)
        /\ owed' = IF result = "updated" /\ ~SwitchPending(w.show)
                   THEN owed \cup {i.work} ELSE owed

UpdateWorks(i) ==
    /\ Unlocked
    /\ i.uid \notin over
    /\ \E result \in {"updated", "inactive"} : UpdateChains(i, result)
    /\ over' = over \cup {i.uid}
    /\ UNCHANGED <<showList, leaving, kept, loading, sched, dailyVars, due>>

\* the thread ends: after its work, or early, on an error of any kind
ThreadEnds(u) ==
    /\ Up
    /\ ItemEnds(u)
    /\ UNCHANGED procVars

ItemStep ==
    /\ Up
    /\ \/ \E i \in Working({"add"}) : AddFinds(i) \/ AddFails(i)
       \/ \E i \in Working(Updates) : UpdateWorks(i)

(***************************************************************************)
(* ShowUpdater.job_run, in its scheduler's thread, where prevent_cycle_run *)
(* holds it back, or in a thread of its own at startup, where nothing does.*)
(***************************************************************************)
DailyStart(d) ==
    /\ Up /\ runs[d] = NoRun
    /\ d = Cycle => ~ShowUpdateRunning
    /\ runs' = [runs EXCEPT ![d] = [left |-> showList, got |-> FALSE]]
    /\ amActive' = TRUE
    /\ UNCHANGED <<queueVars, showList, leaving, over, kept, loading, sched,
                   daily_update_running, owed, due>>

\* a show to update, or, when it ended long ago, to refresh by force
DailyAsks(d, s) ==
    /\ Unlocked /\ runs[d] # NoRun /\ id_counter < MaxUid
    /\ s \in runs[d].left
    /\ \E w \in {DailyUpdate(s), DailyRefresh(s)} :
          /\ IF Accepts(w) THEN AddNew(w) ELSE UNCHANGED queueVars
          /\ runs' = [runs EXCEPT ![d].left = @ \ {s},
                                  ![d].got = @ \/ Accepts(w)]
    /\ UNCHANGED <<showList, leaving, over, kept, loading, sched, amActive,
                   daily_update_running, owed, due>>

\* the loop is done (or the bound on requests is reached)
RunOver(d) == runs[d] # NoRun /\ (runs[d].left = {} \/ id_counter >= MaxUid)

(***************************************************************************)
(* The end of a run sets the flag when it queued anything, without the     *)
(* lock; the first of two runs to end clears amActive for both.  The event *)
(* is due then, but for a run that ends while it is being executed.        *)
(***************************************************************************)
\* [mutant] the flag says how the last run fared
DailyEndOverwrites(d) ==
    /\ Up /\ RunOver(d)
    /\ daily_update_running' = runs[d].got
    /\ amActive' = FALSE
    /\ runs' = [runs EXCEPT ![d] = NoRun]
    /\ due' = (due \/ (runs[d].got /\ sched # "events"))
    /\ UNCHANGED <<queueVars, showList, leaving, over, kept, loading, sched, owed>>

DailyEnd(d) ==
    /\ Up /\ RunOver(d)
    /\ daily_update_running' = (daily_update_running \/ runs[d].got)
    /\ amActive' = FALSE
    /\ runs' = [runs EXCEPT ![d] = NoRun]
    /\ due' = (due \/ (runs[d].got /\ sched # "events"))
    /\ UNCHANGED <<queueVars, showList, leaving, over, kept, loading, sched, owed>>

\* The try is around the loop too: an exception other than the two caught in
\* it ends the run wherever it is, and what was queued gets no flag.
DailyRaises(d) ==
    /\ Up /\ runs[d] # NoRun
    /\ amActive' = FALSE
    /\ runs' = [runs EXCEPT ![d] = NoRun]
    /\ UNCHANGED <<queueVars, showList, leaving, over, kept, loading, sched,
                   daily_update_running, owed, due>>

DailyStep == \E d \in Updaters : DailyEnd(d) \/ \E s \in Show : DailyAsks(d, s)

(***************************************************************************)
(* The scheduler: load_queue, then job_run with check_events at its end,   *)
(* which runs the events of the finished daily update and then clears the  *)
(* flag, while an updater that needs no lock may start, set it or end.     *)
(***************************************************************************)
DailyFinished ==
    ~CurrentAlive /\ daily_update_running /\ ~amActive /\ ~ShowUpdateRunning'

CheckEvents ==
    /\ sched' = IF DailyFinished THEN "events" ELSE "loop"
    /\ due' = (due /\ ~DailyFinished)

SchedRun ==
    /\ sched = "loop"
    /\ JobRun
    /\ CheckEvents
    /\ LET started == {i \in queue : i \notin queue' /\ Action[i.work] = "refresh"}
       IN  Forgive({i.work.show : i \in started})
    /\ over' = IF CurrentAlive THEN over ELSE over \ Uids(Current)
    /\ UNCHANGED <<showList, leaving, kept, loading, dailyVars>>

FlagCleared ==
    /\ sched = "events"
    /\ sched' = "loop"
    /\ daily_update_running' = FALSE
    /\ UNCHANGED <<queueVars, showList, leaving, over, kept, loading, runs, amActive,
                   owed, due>>

\* a row of a show that is gone, or a refresh that is skipped
LoadPasses(row) ==
    \/ row.work.action # "add" /\ row.work.show \notin showList
    \/ row.work.action = "refresh" /\ RefreshSkipped(row.work, FALSE)

LoadRow(row) ==
    /\ sched = "loading" /\ row \in loading
    /\ loading' = loading \ {row}
    /\ \/ LoadPasses(row) /\ UNCHANGED <<queueVars, kept>>
       \/ /\ ~LoadPasses(row) /\ Accepts(row.work)
          /\ AddLoaded(row)
          /\ kept' = kept \cup {row.uid}
    /\ UNCHANGED <<showList, leaving, over, sched, dailyVars, owed, due>>

\* the try is around the loop: a request that is refused ends it
LoadAborts(row) ==
    /\ sched = "loading" /\ row \in loading
    /\ ~LoadPasses(row) /\ ~Accepts(row.work)
    /\ sched' = "loop"
    /\ UNCHANGED <<queueVars, showList, leaving, over, kept, loading, dailyVars, owed, due>>

LoadDone ==
    /\ sched = "loading" /\ loading = {}
    /\ sched' = "loop"
    /\ UNCHANGED <<queueVars, showList, leaving, over, kept, loading, dailyVars, owed, due>>

SchedulerStep ==
    \/ \E row \in loading : LoadRow(row) \/ LoadAborts(row)
    \/ LoadDone
    \/ SchedRun
    \/ FlagCleared

Crash ==
    /\ Up /\ \A r \in table : r.uid <= MaxUid
    /\ Vanish
    /\ sched' = "dead"
    /\ leaving' = {} /\ over' = {} /\ kept' = {} /\ loading' = {}
    /\ runs' = [d \in Updaters |-> NoRun]
    /\ amActive' = FALSE /\ daily_update_running' = FALSE
    /\ owed' = {} /\ due' = FALSE
    /\ UNCHANGED <<id_counter, table, showList>>

Start ==
    /\ sched = "dead"
    /\ sched' = "loading"
    /\ id_counter' \in InitId
    /\ loading' = table
    /\ UNCHANGED <<queue, currentItem, threads, min_priority, table,
                   showList, leaving, over, kept, dailyVars, owed, due>>

ClearTypes == {Updates} \cup {{a} : a \in {"add", "refresh", "rename", "subtitle", "switch"}}

Next ==
    \/ \E w \in Work : Request(w)
    \/ \E uids \in SUBSET Uids(queue) : Remove(uids)
    \/ \E types \in ClearTypes : Clear(types)
    \/ \E s \in Show : DeleteShow(s) \/ DeleteEnds(s)
    \/ ItemStep
    \/ \E u \in threads : ThreadEnds(u)
    \/ \E d \in Updaters : DailyStart(d) \/ DailyRaises(d)
    \/ DailyStep
    \/ SchedulerStep
    \/ Crash \/ Start

Spec == Init /\ [][Next]_vars

(***************************************************************************)
(* Threads that started go on: the scheduler's loop, an item (each request *)
(* to a source has a timeout), a run of the updater.                       *)
(***************************************************************************)
FairSpec ==
    /\ Spec
    /\ WF_vars(SchedulerStep)
    /\ WF_vars(\E u \in threads : ThreadEnds(u))
    /\ \A d \in Updaters : WF_vars(DailyEnd(d) \/ \E s \in Show : DailyAsks(d, s))

-----------------------------------------------------------------------------
\* A show has one update at a time, waiting or running, whoever asked: web,
\* daily updates of two threads, or load_queue.  Two would write its episodes
\* and delete what the other added.
OneUpdatePerShow ==
    \A i, j \in Live :
        /\ {Action[i.work], Action[j.work]} \subseteq Updates
        /\ i.work.show = j.work.show
        => i = j

\* An update that succeeded leaves a refresh of the show in the queue until
\* one starts: the one it queued or one that was there.  Exempt are a show
\* about to be switched, and what requests took out.
UpdateIsRefreshed == \A w \in owed : IsInQueue(w.show, {"refresh"})

\* The event of the finished daily update comes when no show it updated is
\* still to be refreshed: each refresh counts as scheduled, is queued before
\* its update's thread ends, and never waits behind the update of another.
DailyFinishedMeansRefreshed ==
    [][sched = "loop" /\ sched' = "events" => \A w \in owed' : ~w.scheduled]_vars

\* When a run of the updater has queued anything and got to its end, the event
\* comes, unless the process dies or runs start for ever before it can.  Not
\* so for a run that raised.
DailyIsAnnounced == <>[](\A d \in Updaters : runs[d] = NoRun) => (due ~> ~due)
=============================================================================
