# SickGear: TLA+ models, model checking and proofs

SickGear keeps a library of TV shows: it asks TV info sources for shows and
episodes, searches providers for releases, hands what it snatches to download
clients, post-processes what they deliver and tells media centres about it.  One
Python process does all of it, with a dozen scheduler threads, a thread for each
item of work, and the threads of a web server, over three SQLite files
(`sickbeard.db`, `cache.db`, `failed.db`).

Most of the program is I/O and data transformation: parsers of sites and names,
writers of metadata, pages.  Its own core is the machinery that decides *what work
is done, once, in which order, and what of it survives a failure or a restart*: the
work queues and the threads that drive them, the way of a release from its snatch
to a file of the library or back, when a provider is left alone, and multi-step
changes of a show that a crash may cut.  That is what the modules here model.

Line numbers are those of the repository; paths are relative to `src/`.

## 1. Inventory

| Part | State it keeps | Operations | What is hard about it | What makes it correct |
|---|---|---|---|---|
| **GenericQueue** (`sickgear/generic_queue.py`) | list of items, current item, `min_priority`, uid counter, a table in `cache.db` | `add_item`, `job_run`, `_remove_from_queue`, `_clear_queue`, `save_queue`, `pause`, events | an RLock held per method and not across them; items are threads; rows are written apart from the list | one item at a time; list, current item and rows agree; priorities and order; nothing lost or repeated after a restart |
| **Search queue** (`search_queue.py`) | the above; five kinds of search | `add_item` with tests for equal searches, `load_queue`, `abort_show`, `pause_backlog`, `clear` | test and append are two critical sections; `load_queue` runs while requests come in; `INSERT OR IGNORE` | a saved search is durable, is not repeated, is worked off |
| **Show queue** (`show_queue.py`) | the above; adds, updates, refreshes, renames, subtitles, switches | tests between kinds of items, chained refreshes, `check_events` | a running item queues another; skips in favour of one another; deletion in two steps | one update per show; every update is followed by its refresh; the event of the daily update comes and comes late enough |
| **Daily updater** (`show_updater.py`) | `amActive`, `daily_update_running` | `job_run`, in the scheduler's thread and once in a startup thread | two threads, one flag | the flag is set for what was queued and cleared when it is worked off |
| **Switch of a show's source** (`show_queue.py` 1530, `tv.py` 3517, `sickgear.py` 571) | table `tv_src_switch`, the show's ids in two databases and `showDict` | request, verify, move, update, refresh, resume | a crash between any two steps; errors of the source | ids and episodes agree or a record says they do not yet; no two shows with one id; an interrupted switch is resumed |
| **Scheduler, Job** (`scheduler.py`) | force flag, stop and pause events, `amActive` | `run`, `force_run`, `set_paused_state`, `stopit`, `Job.run` | flags written by several threads without a lock | a forced run happens; the pause follows the setting; an enabled job runs on; a stopped thread ends |
| **Failed downloads** (`failed_history.py`, `failedProcessor.py`, `FailedQueueItem`, `snatch_episode`) | tables `history` and `failed` of `failed.db`, the status of episodes, retries in the search queue | snatch, report, retry, block, revert, forget | several episodes in one release, several snatches of one episode, reports and requests while a retry runs | an episode gets back the status it had; what failed is blocked and searched again |
| **Provider backoff** (`providers/generic.py`) | failure count and time, request limit, a row of `provider_fails_count` | `should_skip`, `inc_failure_count`, `tmr_limit_update`, `retry_next`, the setters, `_load_fail_values` | one object, many threads; a field's attribute and column written apart, fields one by one | a failing provider rests, a limit is kept, no provider is given up |
| **Post-processing** (`processTV.py`, `postProcessor.py`, `tv.py` `refresh_dir`, `history.py`) | download folders, library, the dict and the row of each episode, its list of related episodes, table `history` | `process_dir`, `process`, `_already_postprocessed`, `_safe_replace`, delete, move, tidy; refresh | processors that exclude nobody; one list of related episodes for all threads; delete before move; status before move; failing and torn file operations; crashes | no last file of an episode is lost; what counts as downloaded has its file; a failed video comes again |
| **Config and event queues** (`event_queue.py`) | two `Queue`s | put, run, stop | an event behind the stop | a requested save is done before the end |
| **People queue** (`people_queue.py`) | a GenericQueue | `add_cast_update`, `load_queue` | `finish` clears what `save_queue` reads | as GenericQueue |
| **Watched-state queue** (`watchedstate_queue.py`) | a GenericQueue without a table | `add_item` | test and add apart | one item of a type |
| **Backlog, recent and proper searchers** (`search_backlog.py`, `search_recent.py`, `search_propers.py`, `properFinder.py`) | the table `backlogparts`, times of last runs | `search_backlog`, `change_backlog_parts` | renumbering when the length of the cycle changes | each part is searched once a cycle |
| **Search and snatch** (`search.py`) | status of episodes, history | `pick_best_result`, `is_final_result`, `snatch_episode` | results of many providers | the best wanted release is taken |
| **Startup and shutdown** (`sickgear.py`, `sickgear/__init__.py`) | the process | `start`, `halt`, `save_all` | the web server serves while it halts | what waits is saved |
| **Databases** (`db.py`, `databases/*`) | three files, `db_lock` | `action`, `mass_action`, `upsert`, migrations | retries that end in silence | a batch is written whole or not |
| **Provider scrapers, sources, metadata, notifiers, clients, web pages, parsers** | little of their own | one call each | strings and foreign services | outside the reach of a model checker |

`PROJECT.json` lists every part with its status, and the hazards of the code at
their lines with the properties that would catch them going wrong.

How they interact: requests come from the web server, the API, the updater, the
searchers and the failed-download code, each in its own thread, and go straight into a
queue object.  A queue has a `Scheduler` thread, which calls `load_queue` once and
then `job_run` every few seconds; `job_run` starts the item's own thread and
reaps it in a later cycle.  Items call back: an update queues a refresh into the
queue that runs it, a failed download queues a search, a deletion of a show takes
items out of three queues.  A search asks each provider that is not to be skipped,
hands what it takes to a client and records it in `failed.db`; the client's files
come back through post-processing, its failures through the failed processor.
At the end of the process `halt` stops each scheduler and calls `save_queue`; at
its start the tables are read again.

## 2. Modules

    PriorityQueue           what a queue promises: the abstract specification
    GenericQueue            operators: the methods of the queue, one atomic step each;
                            INSTANCE PriorityQueue WITH waiting <- queue, running <- Running
      SearchQueue           the search queue in a process that halts, crashes and starts
        MCSearchQueue       for TLC
        SearchQueueProofs   theorems
      ShowQueue             the show queue, its items, the updater, deletion, restart
        MCShowQueue, ShowQueueProofs
    ShowSource              what the switch of a show promises: the abstract specification
    SwitchSource            the switch of a source and its resume; INSTANCE ShowSource
                            WITH id <- main, loaded <- Loaded, unsettled <- Unsettled
      MCSwitchSource, SwitchSourceProofs, SwitchRecordsProofs
    Scheduler               a scheduler thread, its job and who acts on them
      MCScheduler, SchedulerProofs
    FailedDownloads         from a snatch to its retry, block and revert
      MCFailedDownloads, FailedDownloadsProofs
    ProviderBackoff         a provider's failures and limits, written field by field
      MCProviderBackoff, ProviderBackoffProofs
    MediaProcess            from a download folder to the library, and the refresh
      MCMediaProcess, MediaProcessProofs

### PriorityQueue and GenericQueue

`PriorityQueue` knows two sets, what waits and what runs: work is put, the first in
priority and age is taken when nothing runs, it finishes, is withdrawn, or all of it
vanishes.  It says nothing of threads, uids, tables and locks.

In `GenericQueue`, `queue`, `currentItem`, `min_priority`, `id_counter` and `table` are
the fields of the class and its table; `threads` is the set of uids whose thread is
alive.  Every operator is one method under the lock: `AddItem`, `AddLoaded`
(`add_item` with `add_to_db=False`), `JobRun`, `RemoveFromQueue`, `ClearQueue`,
`SetMinPriority`.  `JobRun` is `job_run` whole: the early return while the thread
lives, the reaping of the dead item and its row, the sort, the limit, the start.  The
list is a set of items with the time they were added, which is what the sort keys
on; of that time only the order is kept, and it is assumed not to go back.  `Insert`
is `INSERT OR IGNORE`, with both unique indexes.  The refinement maps the list to
what waits and the current item, while its thread lives, to what runs.

### SearchQueue

Adds what makes the hazards:

* `add_item` is **two steps**, `AddCheck` and `AddAppend`, since the test takes the
  lock and releases it before the append takes it again (`search_queue.py` 294);
* `load_queue` goes row by row (`LoadSkip`, `LoadCheck`, `LoadAppend`) over rows it
  read at the start (`loading`), while everything else runs;
* the scheduler tests its stop event and calls `job_run` in two steps (`SchedTest`,
  `SchedRun`), so one more run may come after the stop;
* `save_queue` is **two steps**, `SaveList` under the lock and `SaveWrite` after it
  was released; requests that arrive in between are served, the web server stops
  later;
* `Crash` may come at any time, `Start` loads the table.

Two history variables say which hole a violation of the naive claims would come
through: `unsaved` holds uids that live without a row for a *named* reason, `stale`
uids of rows that outlive their item for a named reason.  The properties then say
that there is no other hole.

### ShowQueue

`update_show`, `refresh_show`, `switch_show` test and append under one hold of the
RLock and are one step (`Request`).  `UpdateRefused`, `RefreshQueued`,
`RefreshSkipped`, `RefreshRaises` are the conditions of those methods, and are also
applied to rows being loaded and to the refresh an update asks for at its end
(`UpdateChains`).  An item runs in steps: an add finds its show (`AddFinds`) and may
fail later and delete it again (`AddFails`), an update does its work and chains
(`UpdateWorks`), the thread ends (`ThreadEnds`), which may come early.  `DeleteShow`
and `DeleteEnds` are the two halves of `TVShow.delete_show`.  The updater's runs are
`DailyStart`, `DailyAsks` (one show), `DailyEnd`, or `DailyRaises`: the `except` is around
the loop, so an exception may end a run anywhere and what it queued gets no flag.  Two
updaters may run at once, the cycle's only when no scheduled update is queued.
`CheckEvents` is part of `SchedRun`: `job_run` calls it under the lock in every cycle
that finds no thread alive.  It runs the events (`sched` is "events") and then clears the
flag (`FlagCleared`); while it holds the lock nothing is queued or removed, but updaters
start, end and set the flag.  The history `due` says that a run got to its end and queued
something, and that the event is still to come; a run that ends while the event is
executed is counted as announced by it.  What `halt` saves is modelled with the search queue only.

### ShowSource and SwitchSource

`ShowSource` knows, per show, the id it has and the id its episodes are of, and which
shows are unsettled.  Only an unsettled show is moved, and only to an id nobody has;
episodes are loaded for the show's own id; a show becomes settled when its episodes
are of its id, or when it is deleted.  Rows, queues, crashes and resumes are not in
it.  `SwitchSource` implements it: the id is that of `sickbeard.db` (`main`), the
episodes are those of a show that is not deleted (`Loaded`), and a show is unsettled
while its switch has a row that is open (status 0 or `TVSWITCH_NORMAL`), or is in
`dropped`.

In the detailed module there is one row of `tv_src_switch` per switch, with the status codes of `tv.py`.  The run of
a switch is cut where a crash matters: `TakeId` (the new id is saved in the row, then
set in the object), `MoveMain` (the transaction of `sickbeard.db`), `MoveRest`
(`failed.db`, `showDict`), `Update`/`UpdateFails`, `Finish`; `VerifyFails` and
`Raises` are its other ends.  `SchedRun` reaps it, which deletes its row only if
the status is normal.  `Start` reads the rows with status 0 and `Resume` handles
them one at a time: a show found under the old id is switched again, one found
under the new id goes on with its update.  `Inherited` is a row an earlier release
left, with the status 0 the column has by default and the code compares with.  The
`show` of a row is not a column: it says whose switch the row is, so that a row
applied to another show can be seen.  `dropped` and `split` name the windows.

### Scheduler

One scheduler thread and any number of callers.  `Scheduler.run` is cut where another
thread can come in between: waiting for `_unpause`, the test of the stop event, the
reading of the force flag and the time (`Look`), `prevent_cycle_run` (`Prevent`), the
job (`Run`, `RunEnds`), and the `finally` that clears the flag (`CycleEnds`).
`set_paused_state` is two steps, the reading of the setting (`Decide`) and the event
(`Apply`); so is `force_run` (`AskForce`, `SetForce`).  A caller may also run the
job itself (`RunNow`), as the startup does with the show updater.  The histories
(`late`, `dropped`, `shared`, `overlapped`, `overtaken`) name the races in which a
flag ends up wrong.

### FailedDownloads

A search records a snatch after it handed it over and sets the status after that
(`Send`, `Record`, `SetSnatched`, two databases).  The client ends what it was given as
failed (`Fails`: a retry for each episode of the name) or not (`Downloaded`, and
`Forget`, which removes the history rows, after it).  What was reported or set to
failed is in `asking` until its thread has appended the retry (`QueueRetry`), `retries`
are the waiting items and `saved` those with a row in the queue's table.  A retry is
`FailedQueueItem.run` step by step for
each episode: `MarkFailed`, `FindRelease` (the newest snatch, which clears older
rows), `Revert`, `Blame` (`add_failed`), then a search; an exception ends it
wherever it is (`Raises`).  Users ask for retries, set statuses, take retries out of
the queue and releases off the block list at any time; a crash brings back the rows of
the queue and repeats the running retry, if it has one, from the start.
`lost` names the episodes whose way back the rows no longer tell, `missed` the
reports that find another snatch or none, `abandoned` the episodes whose retry was
removed, raised or died without a row, until another retry begins with them.

### ProviderBackoff

Four fields, each a property whose setter writes the attribute and then, if the value
changed, the column: a thread holds the writes it still has to do (`writes`) and
does them one at a time, `Assign` for the attribute (and the reading half of
`+= 1`), `Save` for the `UPDATE` and, when no row was there, the `REPLACE`.
`should_skip` computes the time left, clears an expired limit, sets a missing time
and reads it again (`LimitExpired`, `Clear`, `TimeMissing`, `Skips`, `Passes`);
what `get_url` makes of a response is `Succeeds`, `Fails`, `Limited`; `RetryLimit` and
`RetryFails` are `retry_next`; `Restart` is `_load_fail_values`.  Times are ages, so
that `Tick` is the clock.  `raced` names the part (failures or limit) that two
threads have written at once, until one thread writes all of it anew.

### MediaProcess

Several processors, each with its own call (method, whether it tidies, forces,
replaces, and the folders).  A processor takes a folder's videos (`Enter`), the largest first
(`Picks`), passes over those that are known or not safe to replace (`Skips`,
`Refuses`), and for the others goes through `PostProcessor.process`: `Delete`, or
`DeleteFails` where it raises, with some files gone; `Relist`, `Change` and `SaveChange`
(the episodes count as downloaded); `Name`, which chooses the place; `Move` or one of its
failures (`MoveBreaks`, `CopiesNothing`, `MoveFails`); `Locate` and `SaveLocation`.
`LeaveFolder` tidies.

Which episodes a video is of, `Of`, is what its name says.  What the code works with is
`[ep_obj] + ep_obj.related_ep_obj` (`Listed`), and that list (`related`) hangs on the show's
one `TVEpisode`.  `_get_ep_obj` empties the list of the video's first episode and
appends to it again, once before the video is judged (`Takes`, then `Refuses` or
`Accepts`) and once before the status is set (`Relist`).  `ep_obj_from_file` appends
in a refresh (`RefreshFinds`), and `get_all_episodes` resets it, or appends what is at the same
place, whenever a page, a renaming or the metadata asks (`Relates`).  Each step of a processor
uses the list as it is then: `Delete` takes the files of those on it, `Change` marks
them downloaded, `Name` names the place for them (`Path`), `Locate` sets their
locations.

The dict of an episode (`ep`) and its row (`row`) are apart,
as `get_sql` takes the values and `mass_action` writes them later.  `refresh_dir` runs beside it: it reads the folder, takes up what it
finds, and clears locations that are gone.  `Crash` leaves a torn file where one was
being written, loads the rows and forgets the lists.  `bare` names the episodes that may be
without the file they name.

## 3. Runs

| Run | Instance | Distinct states | Shows |
|---|---|---|---|
| `search_core` | 2 requesters (symmetric), two backlog searches that differ in their flags only, a recent search, 3 uids | 1 031 104 | types; uids stay unambiguous across restarts; `Durable`; `NoSearchRepeated`; one search at a time; `KeepsPromise`: the queue implements `PriorityQueue` |
| `search_live` | 1 requester, backlog and manual search, 2 uids | 16 129 | what waits is taken; what is saved is worked off, by this process or the next |
| `show_core` | one show, every kind of request, both updater threads, uids to 2 | 186 091 | types; `OneUpdatePerShow`; `UpdateIsRefreshed`; `DailyFinishedMeansRefreshed`; `DailyIsAnnounced` |
| `switch_core` | 2 shows, 3 ids (both symmetric), 2 uids | 2 089 592 | types; `RowNamesShow`, `OneShowPerId`, `FailedFollowsMain`; `KeepsPromise`: the switch implements `ShowSource` |
| `sched_core` | the scheduler and 2 callers | 95 672 | types; `PauseFollowsSetting`, `ActiveMeansInside`, `ForceIsKept`; `EnabledJobRuns`, `StopEnds` |
| `failed_core` | 2 episodes, a release of both from two providers (symmetric) and one of a single episode, 2 snatches, 1 request of a user or search that raises | 4 784 861 | types; `SnatchCanBeUndone`, `ReportedIsBlocked`, `FailedIsRetried`, `BlamedIsOneSnatch`, `RevertRestores` |
| `provider_core` | 2 threads, one of which also retries, one wait, one limit | 783 632 | types; `SavedIsMemory`, `LimitKept`, `FailuresCounted`, `RetryUnblocks`; `AskedAgain` |
| `process_core` | the scheduled processor and a client's call for the second of these: a video of 2 episodes and one of the first of them, 1 failure or crash | 1 699 947 | `DownloadedHasFile`, `LastFileStays` |
| `process_refresh` | the scheduled processor, a refresh and pages that change the list of the first episode, the same videos, 1 failure or crash | 366 382 | types; `FailedMoveRecovers` |
| `switch_resume` | 1 show, 2 ids, 1 uid | violation | an interrupted switch is never resumed |
| `failed_refused` | as `failed_core`, episodes that start ignored | violation | an episode whose change to failed was refused is marked failed |
| `process_lost` | the scheduled processor alone, 1 failure | violation | a folder is removed with the only file of an episode |

Run one with `tlc -workers 2 -config SearchQueue_core.cfg MCSearchQueue`.  A run
marked *violation* ends with TLC's shortest counterexample: a sentence of the
repository's docs, comments or messages set against what its code does
(`findings` in `PROJECT.json` quotes both).

**Bounds.**  `MaxUid` ends the requests of one life of the process when its uid
counter reaches the bound; refreshes that updates chain go beyond it, restarts and
crashes are unbounded.  Three uids in the search queue are enough for a running
search, a waiting one and one in a requester's hands, or for a row that is loaded, its
double and a newcomer; with a second requester every two-thread race of `add_item` is
there.  One show is enough in the show queue: all tests are about the items of
one show, except the queue's order, which the proofs treat for any number of
shows.  In the switch, two shows are the least in which one's id can be in the
other's way, and three ids leave one free.  The scheduler needs two callers for a change
of the setting that overlaps another and for a force in the middle of both; it has no
counter to bound.  Of failed downloads two snatches (`MaxSnatch`) are what it takes to
snatch on top of a snatch, two episodes in one release what it takes to rob
one of them of its row, and `MaxAsk` ends what users ask for and searches that raise (what they set to failed is `Chosen`,
both episodes at once, since reports and the retry button give segments of one);
reports and crashes are unbounded, and since a crash and a report can follow each of
them, one is enough to abandon a retry in every state.  The episodes start downloaded,
so that a snatch is an upgrade and the status to give back is not the default.  A provider's counts go no further than the wait does and ages no
further than the longest wait, where the code no longer tells them apart; one
wait and one limit, of one unit each, let time expire in every state of every
thread.  In post-processing a video of two episodes beside one of the first of them is
the least in which a file is deleted for another of its episodes and one processor changes
the list the other works by; the client's call is for the latter, so that the scheduled
processor can be at the former or at the same one; `MaxTrouble` bounds failures of the file system
and crashes together, `MaxRefresh` the refreshes.  `Asked` are the episodes whose list
pages change: the first of the video in `process_refresh`, none in `process_core`,
where the second processor changes it.  In `process_core` no video was
snatched by SickGear, in `process_refresh` one was; a call that replaces what is there
is in the proofs only, it lets more videos through `_safe_replace`.  The theorems hold for every value
of all of these.

**Symmetry** is used in safety runs only: requesters that differ in nothing, shows and
ids that differ in nothing, the two offers of one release (the model uses of their
providers only that they differ).

**Deadlock** is not checked where the system may stop: a scheduler that was stopped
with no caller at work, and failed downloads when the bounds of snatches
and requests are used up.

**Fairness.**  Weak fairness of the scheduler's loop (a thread that does not end until
the stop event), of a requester between the halves of `add_item`, of an item's end
(every request it makes has a timeout and every loop is over finite data) and, once
`halt` began, of its steps.  In `Scheduler`, of every step of a thread that has
begun something, of time, and strong fairness of the look at a due job at its hour
of the day, since the hour comes round every day.  In `ProviderBackoff`, of each
thread's steps (searches go on) and of time.  In `MediaProcess`, of each processor's steps and of its
next call: the scheduled one is called over and over.  No
fairness of requests, removals, pauses, saves, refreshes, crashes, of the beginning of
a halt or of a restart: liveness of the queues is claimed for a process that stays
up (`<>[](phase = "up")`) and, where it matters, a queue that is not paused for ever.
That a finite number of uids is given is what keeps higher priorities from starving
lower ones: the code has no ageing, and an endless stream of manual searches would
starve the backlog.

**Properties worth a word.**

* `Durable`: whatever waits or runs and is of a saved kind has its row, but for
  three windows: an equal search's row held the unique key, it was appended between
  the halves of `save_queue`, it was cleared while it ran or was loaded.
* `NoSearchRepeated`: the converse for rows.
* `KeepsPromise`: that `job_run` starts the first item in priority and age is a claim
  about two methods far apart; `load_queue` and requests insert while it sorts and pauses.
* `UpdateIsRefreshed`: when an update succeeded, a refresh of its show waits until
  one starts, although `refresh_show` skips refreshes when updates are about.
* `DailyFinishedMeansRefreshed`: the event of the finished daily update does not
  come while a show it updated has yet to be refreshed.  It rests on three
  facts in different places: the chained refresh inherits `scheduled_update`, it is
  queued before the update's thread ends, and refreshes have a higher priority.
* `KeepsPromise` of the switch: a show is moved only by a switch on record, never to
  an id another show has, and no failure, deletion, crash or resume settles it
  while its episodes are of the old id; but for the switches whose update had no answer
  or raised, whose row was cleared, or was replaced by that of a show that took the
  id (`dropped`).  That such a show always has its switch on record is
  `EpisodesFollowSource`, a consequence that is proved and not run.
* `ForceIsKept`: a `force_run` that returned `True` is lost in two ways only: the flag
  was set after the cycle had looked at it, or the cycle was prevented.
* `BlamedIsOneSnatch`: `add_failed` has branches for rows of several sizes and several
  providers; the clearing that `find_release` does just before makes them dead.
* `FailedIsRetried`: `FAILED` is a status on the way only.  It leaves it through a
  retry that is about to be appended, waits or runs, also after a crash.  The code
  has ways to leave it there for good: the web server commits the status thirty lines
  before it appends the retry (`webserve.py` 3344, 3374), a user can clear the queue,
  and an exception ends the retry with the rest of its segment not looked at
  (`search_queue.py` 825).  They are in `abandoned`, and there is no other.
* `RetryUnblocks`: after a user's retry the provider is asked, unless something else
  was written meanwhile: both the limit and the cool-down are lifted, by setting
  times that are just long enough ago.
* `AskedAgain`: whatever was written in whatever order, lost or torn by a restart, no
  provider is skipped for ever.
* `LastFileStays`: four ways remain in which the last whole file of an episode goes,
  each of them a line of the code: a copy that broke off counts as done; a deletion is for
  an episode the video is not of, or the video has gone meanwhile; a place was named for
  a list that was not the video's, and what is there is written over (`Overwrites`); a
  folder is removed.
* `DownloadedHasFile`: the second episode of a video is left downloaded and without a
  location when another processor empties the list between `Change` and `Locate`.  The
  reverse happens too: an episode a refresh appended is located at a file it is not in.  Both are in
  `bare`, as is a status that was set by such a list; `bare` is a list of lines of
  the code and not of symptoms.
* `FailedMoveRecovers`: a video whose move failed after its episode was marked
  downloaded is not passed over for good, because the test for what is processed
  already is asked only after the run has processed a video.

## 4. Findings

1. **A switch of a source is never resumed** (`switch_resume`).  `TVSWITCH_NORMAL` is
   3 (`tv.py` 93), `save_item` writes it, and `SickGear.start` selects `status = 0`
   (`sickgear.py` 572), which is `TVSWITCH_DUPLICATE_SHOW`.  `CHANGES.md` 1121 promises
   the resume.  The same comparison in `_set_switch_tbl_status` deletes the row of a
   switch that failed with a duplicate, instead of keeping it with its status.
2. **What was refused is marked failed** (`failed_refused`).  `set_show_status` says
   "Refusing to change status ... to failed because it's not snatched/downloaded"
   (`webserve.py` 3315, 3323), but has put the episode into the segment to retry
   before (3293), and the retry marks every episode of the segment failed.
3. **A folder is removed with a video that is needed** (`process_lost`).  The comment
   says "Delete all file not needed" (`processTV.py` 498); the folder goes with all
   that is in it once the run has processed any video.

Met while modelling and plain in the code, without a run of their own:

* a forced update that was loaded hands all its keywords, `uid` among them, to the
  refresh it queues (`show_queue.py` 1480): a uid may name two items, of one show;
* the `try` of `load_queue` is around the loop and a refused request raises: one bad
  row ends the load (`show_queue.py` 126);
* the test for an equal search and the append are apart (`search_queue.py` 316), and
  the test looks at the waiting items only (135);
* a refresh skipped in favour of an update that then fails is not made up for (1388);
* pausing the backlog holds recent searches as well (`generic_queue.py` 74);
* `attempted += ep_obj.location` in `refresh_dir` (`tv.py` 3405) extends a list by the
  characters of a path, so with `prune` a file of two episodes is counted, and
  deleted, once for each of them; refreshes are modelled with `prune` off;
* the rest of 30 seconds that `Scheduler.run` gives a disabled job tests the method
  `is_enabled` and not what it returns (`scheduler.py`), and never comes.

## 5. Proofs

`tlapm <Module>Proofs.tla` checks every leaf.  The constants are arbitrary: any set of
works, shows, threads, videos or offers, any bound; what they must
satisfy is in the named assumptions (`GenericQueueAssumption`, `SearchQueueAssumption`,
`ShowQueueAssumption`, `SwitchSourceAssumption`, `SchedulerAssumption`,
`FailedAssumption`, `ProcessAssumption`, `BackoffAssumption`, `NoneAssumption`), which
TLC evaluates in the runs.  Every inductive invariant was checked with TLC before it was
proved.

**SearchQueueProofs**: `TypeCorrect`, `Invariant`, `RequestsAreDurable`,
`SearchesAreNotRepeated`, `UidsStayDistinct`, `SearchesRunAlone`, and
`ImplementsPromise`: `Spec => KeepsPromise`.  None of the
four safety properties is inductive: `Durable` says nothing about the list that
`save_queue` holds and is about to write, `NoSearchRepeated` nothing about rows that
`load_queue` has read and that are no longer in the table, and all need that uids do not
collide.  The inductive invariant adds: a uid names one thing among items, rows, rows
held by `load_queue` and the list of `save_queue` (`UidsInv`), and none is ahead of
the counter (`CounterInv`); a held row is in the table or its uid in `unsaved`
(`HeldInv`); while `save_queue` has a list, what lives and is not on it has its uid in
`unsaved` (`SnapshotInv`); a process that is down holds nothing (`DownInv`).  The
refinement needs the invariant: a step of `job_run` that reaps and starts is one `Take`
only because the thread of the reaped item is not alive, hence nothing ran.
`OneRequesterIsSaved` (section *Excuses* below) has in addition that nothing is
loaded once the load has ended (`LoadedInv`), that the work a lone requester has found
to be new is not waiting meanwhile (`StillNew`: only it appends), and that only
kinds that are saved have rows (`RowsPersisted`).

**ShowQueueProofs**: `TypeCorrect`, `Invariant`, `UpdatesAreSingle`,
`UidsStayWithAShow` (a uid may name two items, see section 4, but never of two
shows), `UpdatesAreRefreshed`, `EventComesLast` and `ImplementsPromise` of the same
abstract queue.  The
argument: an update is refused while one waits, runs or is not reaped (the tests and
the append are one step), and nothing is current while the queue is loaded, so there
is one update per show.  When a scheduled update is started no refresh of its show
waits that is not scheduled, because refreshes have the higher priority and were taken
before (`WaitingInv`); while it runs a refresh that is asked for is skipped.  So the
refresh it finds or queues at its end counts as scheduled, and as long as one
waits `ShowUpdateRunning` holds and the events are not run (`OwedInv`).
`OneUpdaterEventComesLast`: with one updater thread `amActive` is up whenever it is in
its run (`ActiveInv`), so the events come only behind the run, and then no scheduled
item is left.  TLC finds the same formula violated with the second thread, which clears
`amActive` for both.  `LostFlagIsDone` is about the window in which `check_events` runs
the events and an updater sets the flag that is then cleared: nothing scheduled waits or
runs as long as the window is open, because queueing takes the lock that `job_run` holds.

**SwitchSourceProofs**: `TypeCorrect` and `IdsStayUnique`.  That two shows never have
one id depends on where a switch is: the database has the new id before `showDict`
has it, and the test of the new id was made one step earlier still.  `IdsInv` says
that the two differ for the show that is being moved and for deleted ones only, and
that the new id is nobody's meanwhile; `PendingInv` that a show has one switch at a
time, that a switch which waits has the show's present id for its old one (or, resumed,
knows the new one), and that from the check on the new id is known: this is also
what makes the types inductive, since a row may lack the id (`NoId`).

**SwitchRecordsProofs** builds on it: `RowAlwaysNamesShow`, `EpisodesAlwaysFollowSource`,
`FailedAlwaysFollowsMain`, the three that relate rows, shows and databases, and
`ImplementsPromise`: `Spec => KeepsPromise`.  Two
switches of different shows meet in the table, where `REPLACE` goes by the old id:
the row of a switch that waits or runs survives because its old id is still, or is
again, the show's own and shows have different ids (`RowInv`, `ShowIdInv`).  A show that
moved without its episodes has a *witness*: a row with another old id, whose uid no
live switch has but one of that show that is past the move (`HalfInv`); so nobody
deletes the row, or gives it another id or status, unless `dropped` says so.  That a resumed switch
does not touch the witness of another show needs that uids are not given twice
(`UidInv`), and that the rows the start reads are one and its twins (`OldRowInv`,
`TodoInv`).  The refinement goes action by action: `MoveMain` is `Move`, since the
running switch's row is open and its new id free (`RowInv`, `IdsInv`); an update that
succeeds is `Load`, a deletion `Remove`, and everything else is `Record` or
a stutter: wherever a row goes, is replaced or changes its status, its show has its
episodes already, keeps another row, or is in `dropped`, which is what `HalfInv` says
before and after the step.

**SchedulerProofs**: `Typed`, `PauseFollows`, `ActiveTells`, `ForceKept`, for any number
of callers.  Unless changes overlapped, at most one thread changes the setting and what
it has read is what holds (`SettingInv`); unless runs overlapped, at most one thread
is inside the job (`ActiveInv`); a promise that was neither late nor dropped is
still to be looked at, or makes this cycle run (`ForceInv`).  Two more are about what a
cycle may begin.  `StoppedBeginsNothing`: after `stopit` no cycle begins, and a
thread that has not ended has the stop event set and either may pass its wait or was
paused by a setting applied after the stop (`StopInv`): all of `StopEnds` that is
safety.  `DisabledBeginsNothing`: the thread passes its wait for an enabled job, or to
end, but while the setting is being changed or after changes that overlapped; it
is an action property that follows from `PauseFollowsSetting` and the wait.

**FailedDownloadsProofs**: `TypeCorrect`, `SnatchesUndone`, `ReportsBlock`,
`FailedRetried`, `OneSnatchBlamed`, `RevertsRestore`: all that `failed_core` checks.
The rows of one date are of one snatch and the rows of a snatch stand or fall together
for the episodes not in `lost` (`RowsInv`); what the newest row of an episode tells is
the status before the snatch, while it is snatched and while a search is between its
two statements (`TellsInv`); where the running retry is says which rows of the
release it chose can be left (`FoundInv`, `RevertedInv`, `JobInv`, `RetriedInv`); and an offer
that was reported and not missed is still the newest snatch of an episode that has its retry
to come or in `abandoned` (`ReportedInv`, `Kept`: no step but `Blame` takes an episode out
of both).  `OrderlyNothingExcused` is proved with an invariant per
episode, `InOrder`: which of its rows there are, what they tell and what was reported,
for each place a search, the client and the retry can be at.  A release is of one
episode there, so a step touches one episode and leaves the others' `InOrder` as it was
(`Untouched`).

**MediaProcessProofs**: `TypeCorrect`, `VideosUnderTheirNames`, `LastFilesStay`,
`DownloadedHaveFiles`, for any number of processors, with refreshes and with lists that
anybody changes at any time.  The first episode of a video is on its own list
whatever the others do, so that a whole file is at a place whose name has its first
episode, and a move too (`PlaceInv`).  A file that is lost to a move was either at such a place
under another list's name, or is replaced by one that is (`Overwrites`): if both are named
for the video they hold, they are of the same episodes.
A row that is not held by anybody follows the dict
(`RowsFollow`, `HeldRows`), what a processor has moved is in its place until
somebody else's step is named in `bare` (`MovedIsThere`), and an episode without its
file is inside a replacement or in `bare` (`FileOrReplaced`).

`EpisodesAtOwnPlaces` is about videos of one episode each (`OneEach`).  The lists then stay
empty, since all who append find nothing to append, and what a processor is about
to put has a place named for its video (`NameInv`); no dict, row, row to be written or row a refresh
holds has an episode at a place that is named for another (`LocationInv`).  The two hold
together only: `get_all_episodes` appends by the locations, and locations are set by the lists.
So what a deletion takes away is of the episode being
processed, whose new file is in the download folder: which is how
`AloneNoFileIsLost` and `AloneDownloadedHaveFiles` go.  With videos of more episodes nothing
like it holds, as `process_core` would show at once.

**ProviderBackoffProofs**: `TypeCorrect`, `SavedIsUsed`, `LimitsAreKept`,
`FailuresAreCounted`, `RetriesUnblock`, for any number of threads, any table of waits and
any limits.  None is inductive, since between the writes of one `should_skip` or failure the
attributes are half old and half new.  The invariant is about `Out`: what a field will
hold once the thread has written what it began to write; that does not change while it
writes.  While a part is in order one thread writes it, and what it is about to save
is what it has set (`SaveInv`); what comes out is the streak of failures (`FailsInv`), and
at least the limit asked for, of which nothing is left once a thread has decided to
clear it (`LimitInv`); after a user's retry nobody else writes, and both waits come out
as over (`RetryInv`).  `FailsInv` also says that a count comes with a time, without
which the retry could leave a provider that `is_waiting` calls open and `should_skip`
skips.  With one thread nothing is ever in `raced`, and between its calls what is in
use, what is saved, and what was asked for and counted are one (`OneThreadKeepsAll`);
and a provider is asked only when its server's wait is over (`OneThreadWaits`).

**Excuses.**  Most properties here have exceptions, kept in history variables that
name the window (`unsaved`, `stale`, `lost`, `missed`, `abandoned`, `bare`, `raced`, `overlapped`,
`amActive` of two runs).  A history variable could excuse too much.  These theorems
say that it does not, each as `Spec` together with an assumption on the steps or the
environment that rules the windows out, implying the property *without* exceptions:

| Theorem | Assumed | Then |
|---|---|---|
| `OneRequesterIsSaved` | one requester, which asks when the load has ended | a search is appended without its row only between the halves of `save_queue`, or when the row with its columns is of the running search or of a finished one |
| `OneUpdaterEventComesLast` | one updater thread | the event comes after the run and all that was queued in it |
| `StoppedBeginsNothing`, `DisabledBeginsNothing` | nothing; changes did not overlap | no cycle begins |
| `OrderlyNothingExcused` | releases of one episode, no snatch of an episode that is snatched or failed or whose success is still being recorded, no user, no search that raises, no crash | nothing lost, nothing missed, nothing abandoned, failed only inside the retry |
| `OneThreadKeepsAll` | one thread, restarts between its writes only | attributes and row agree, every failure counted, every wait kept |
| `OneThreadWaits` | one thread, restarts at any time | no provider is asked before its server's wait is over |
| `AloneNoFileIsLost` | one processor that does not tidy, videos of one episode, no failure, no crash | no episode loses its last file, with refreshes and pages that change lists |
| `AloneDownloadedHaveFiles` | the same, with tidying | every downloaded episode has its file, outside its own replacement |

The assumptions are ways the program is used, and behaviours meet them: each theorem was
model-checked on a small instance that satisfies its assumption before it was
proved.  The other theorems need none of them and hold for every behaviour of the
model.

**Only model-checked**: the liveness properties `WaitingIsTaken`, `SavedIsWorkedOff`,
`DailyIsAnnounced`, `EnabledJobRuns`, `StopEnds`, `AskedAgain` and `FailedMoveRecovers`,
since the proof system has no rule for fairness here.  Every invariant and every action
property that a run checks is also proved.

## 6. What is not modelled

* Failures of database writes: `mass_action` gives up after five locked attempts and
  says nothing (`db.py` 250); the models take each batch as written.
* An exception of `delete_item` after a search has ended, which `job_run` passes over
  (`generic_queue.py` 70): the row stays until the whole queue is saved, or the next process has searched again.
* A clock that is set back (`generic_queue.py` 263): `added` is local time.
* One row `load_queue` of the show queue cannot queue ends the load of all that follow
  (`show_queue.py` 126): `LoadAborts` is an action, and no property is about it.
* A limit that is cleared while `should_skip` computes with it, which raises
  (`providers/generic.py` 520).
* `GenericQueue.pause`, which nobody calls.
* An exception or a failed write inside `switch_infosrc`, and what a deleted show that
  is still updated writes back.
* An add that fails late deletes the show object it holds, which may be one that
  existed before (`show_queue.py` 1190).
* A time to the next try that is overwritten by the failure cool-down even where a
  limit is longer (`providers/generic.py` 483): it is only shown.
* Of post-processing: archives, links, subtitles and other files beside the video,
  propers, unknown qualities, name parsing, `prune`; `_ep_name`, which puts a sorted
  copy in the place of the list where the naming pattern has the episode's name
  (`tv.py` 4914), so that another thread may append to one that is not used any more; an episode that cannot
  be created (`postProcessor.py` 742).
* Of the other queues (`people_queue.py` 165, `watchedstate_queue.py` 50,
  `event_queue.py` 37): a `finish` that clears what a save reads, a test and an add
  apart, an event behind the stop.
* The arithmetic of backlog parts (`search_backlog.py` 142).
* Of failed downloads: `add_item` tests for an equal waiting retry and appends in two
  holds of the lock, so that one retry can be appended twice, which only repeats it; a
  shutdown in order, which saves what has no row (`SearchQueue` has it); an exception
  between two statements of `add_snatched` or `add_failed`; a status that was set and
  not yet committed when the process dies.
* All that the table of section 1 has in its last rows: string and page handling has
  no state for a model checker to explore, and what it calls is foreign.

The share of the repository's lines that the modules stand for is small and
will stay small: most of its half a million lines are vendored libraries, site
scrapers, data tables and page templates.

## 7. Plan

In this order; a run of less value gives its place to one of more.

1. **Database faults**: a batch that is silently not written, as an action of the queue
   models and of `MediaProcess`.
2. **BacklogParts**: the renumbering against its definition: every part once a cycle.
3. **People** and **watched-state queues** on GenericQueue, each implementing
   `PriorityQueue`; **event queues and shutdown**.
4. **Composition**: a retry of `FailedDownloads` as an item of `SearchQueue`, a refresh
   of `MediaProcess` as one of `ShowQueue`.
5. **refresh_dir with prune**, renaming, and the choice of a new episode's status.
6. **Qualities and statuses** of `common.py` as operators.
