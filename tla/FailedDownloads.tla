-------------------------- MODULE FailedDownloads --------------------------
(***************************************************************************)
(* The life of a snatched release that fails:                              *)
(*   sickgear/search.py            snatch_episode                          *)
(*   sickgear/failed_history.py    the tables history and failed           *)
(*   sickgear/failedProcessor.py   what a download client reports          *)
(*   sickgear/search_queue.py      FailedQueueItem.run                     *)
(*   sickgear/webserve.py          set_show_status, episode_retry          *)
(*   sickgear/postProcessor.py     the two steps of a success              *)
(* Searches run one at a time in the thread of the search queue; requests  *)
(* and post-processing run in others.  A waiting or running retry with a   *)
(* row in the table of the queue runs again from its start after a crash.  *)
(* USE_FAILED_DOWNLOADS is on.  Of a status the quality is left out: any   *)
(* offer may be an upgrade.                                                *)
(***************************************************************************)
EXTENDS Naturals, FiniteSets

CONSTANTS Ep,                      \* the episodes of a season
          Offer,                   \* what providers offer
          EpsOf,                   \* EpsOf[o]: SearchResult.ep_obj_list
          Release, Size, Provider, \* the columns a snatch is recorded with
          None,
          Initial,                 \* the statuses episodes start with
          Chosen,                  \* what a user may set to failed at once
          MaxSnatch,               \* bound: snatches
          MaxAsk                   \* bound: requests of users, and searches
                                   \*   that raise

\* "ignored" stands for what nobody asked to download: ignored, archived, ...
Settled == {"wanted", "downloaded", "ignored"}
Status  == Settled \cup {"snatched", "failed"}

ASSUME FailedAssumption ==
    /\ EpsOf \in [Offer -> (SUBSET Ep) \ {{}}]
    /\ \A o, p \in Offer : Release[o] = Release[p] => EpsOf[o] = EpsOf[p]
    /\ \A o, p \in Offer : <<Release[o], Size[o], Provider[o]>> =
                           <<Release[p], Size[p], Provider[p]>> => o = p
    /\ None \notin Ep \cup Offer
    /\ Initial \subseteq Settled /\ Chosen \subseteq SUBSET Ep
    /\ MaxSnatch \in Nat /\ MaxAsk \in Nat

VARIABLES
    status,      \* TVEpisode.status
    history,     \* table history of failed.db
    failed,      \* table failed of failed.db
    client,      \* snatches the download client has not ended yet
    asking,      \* retries that threads are about to append
    retries,     \* segments of the waiting FailedQueueItems
    saved,       \* those of them with a row in search_queue
    job,         \* the search that runs
    processed,   \* the offer whose success is being recorded, or None
    now,         \* the date the last snatch was recorded with
    asked,       \* how often users have asked or a search has raised
    origin,      \* history: the status before the snatch, or set since
    lost,        \* history: episodes whose origin the rows no longer tell
    reported,    \* history: offers the client reported as failed
    missed,      \* history: those of them that are not blamed, for a named reason
    abandoned    \* history: episodes whose retry was taken out of the queue,
                 \*   raised or died unsaved, until a retry of them begins

queueVars == <<asking, retries, saved, abandoned>>
vars == <<status, history, failed, client, queueVars, job, processed, now, asked,
          origin, lost, reported, missed>>

\* who is about to append a retry: a report of a snatch, or a user
Ask == [by : {"client", "user"}, at : Nat, segment : SUBSET Ep]
Segments(asks) == {a.segment : a \in asks}

Row == [date : Nat, offer : Offer, ep : Ep, old : Status]
Steps == {"idle", "mark", "find", "revert", "blame", "search", "record", "status", "over"}
NoJob == [pc |-> "idle", segment |-> {}, todo |-> {}, ep |-> None, found |-> {},
          offer |-> None, saved |-> FALSE]

TypeOK ==
    /\ status \in [Ep -> Status]
    /\ history \subseteq Row
    /\ failed \subseteq Offer
    /\ client \subseteq [date : Nat, offer : Offer]
    /\ asking \subseteq Ask
    /\ retries \subseteq SUBSET Ep /\ saved \subseteq retries
    /\ job \in [pc : Steps, segment : SUBSET Ep, todo : SUBSET Ep, ep : Ep \cup {None},
                found : SUBSET {Release[o] : o \in Offer}, offer : Offer \cup {None},
                saved : BOOLEAN]
    /\ processed \in Offer \cup {None}
    /\ now \in Nat /\ asked \in Nat
    /\ origin \in [Ep -> Settled]
    /\ lost \subseteq Ep
    /\ reported \subseteq Offer
    /\ missed \subseteq Offer
    /\ abandoned \subseteq Ep

Init ==
    /\ status \in [Ep -> Initial]
    /\ history = {} /\ failed = {} /\ client = {}
    /\ asking = {} /\ retries = {} /\ saved = {}
    /\ job = NoJob
    /\ processed = None
    /\ now = 0 /\ asked = 0
    /\ origin = status
    /\ lost = {} /\ reported = {} /\ missed = {} /\ abandoned = {}

Asks == asked < MaxAsk /\ asked' = asked + 1

RowsOf(e)      == {r \in history : r.ep = e}
Newest(e)      == {r \in RowsOf(e) : \A s \in RowsOf(e) : s.date <= r.date}
RowsNamed(rel) == {r \in history : Release[r.offer] = rel}
Pending(e)     == \/ \E seg \in Segments(asking) \cup retries : e \in seg
                  \/ e \in job.todo

(***************************************************************************)
(* snatch_episode, for a search of any kind: hand the release over, record *)
(* it in failed.db with the status its episodes have, set their status.    *)
(* pick_best_result passes over what has_failed finds.                     *)
(***************************************************************************)
Send(o) ==
    /\ job.pc \in {"idle", "search"}
    /\ job.pc = "search" => EpsOf[o] \cap job.segment # {}
    /\ now < MaxSnatch
    /\ o \notin failed
    /\ now' = now + 1
    /\ client' = client \cup {[date |-> now', offer |-> o]}
    /\ job' = [job EXCEPT !.pc = "record", !.offer = o]
    /\ UNCHANGED <<status, history, failed, queueVars, processed, origin, lost,
                   reported, missed, asked>>

\* add_snatched
RecordWith(old) ==
    /\ job.pc = "record"
    /\ LET eps == EpsOf[job.offer]
       IN  /\ history' = history \cup
                {[date |-> now, offer |-> job.offer, ep |-> e, old |-> old[e]] : e \in eps}
           \* a snatch on top of another one, or of a failure not yet handled
           /\ lost' = (lost \ eps) \cup {e \in eps : status[e] \notin Settled}
           /\ missed' = missed \cup {o \in reported : EpsOf[o] \cap eps # {}}
    /\ job' = [job EXCEPT !.pc = "status"]
    /\ UNCHANGED <<status, failed, client, queueVars, processed, now, origin, reported, asked>>

\* [mutant] recorded after the status was set
RecordLate == RecordWith([e \in Ep |-> "snatched"])
\* [mutant] recorded without the status
RecordUnknown == RecordWith([e \in Ep |-> None])

Record == RecordWith(status)

\* what is recorded and has not got its status
Unset == IF job.pc = "status" THEN EpsOf[job.offer] ELSE {}

AfterSnatch == IF job.segment = {} THEN NoJob
               ELSE [job EXCEPT !.pc = "search", !.offer = None]

SetSnatched ==
    /\ job.pc = "status"
    /\ status' = [e \in Ep |-> IF e \in EpsOf[job.offer] THEN "snatched" ELSE status[e]]
    /\ job' = AfterSnatch
    /\ UNCHANGED <<history, failed, client, queueVars, processed, now, origin, lost,
                   reported, missed, asked>>

(***************************************************************************)
(* FailedQueueItem.run: each episode of the segment, then a search.        *)
(***************************************************************************)
TakeRetry(seg) ==
    /\ job.pc = "idle"
    /\ seg \in retries
    /\ retries' = retries \ {seg} /\ saved' = saved \ {seg}
    /\ job' = [NoJob EXCEPT !.pc = "mark", !.segment = seg, !.todo = seg,
                            !.saved = (seg \in saved)]
    /\ UNCHANGED <<status, history, failed, client, asking, abandoned, processed, now,
                   origin, lost, reported, missed, asked>>

\* set_episode_failed
MarkFailed(e) ==
    /\ job.pc = "mark" /\ e \in job.todo
    /\ status' = [status EXCEPT ![e] = "failed"]
    /\ job' = [job EXCEPT !.pc = "find", !.ep = e]
    /\ abandoned' = abandoned \ {e}
    /\ UNCHANGED <<history, failed, client, asking, retries, saved, processed, now,
                   origin, lost, reported, missed, asked>>

\* find_release: the newest snatch of the episode; older ones of it go, and
\* so do the rows of another snatch of a release in `cleared'
FindClearing(cleared) ==
    /\ job.pc = "find"
    /\ \/ /\ RowsOf(job.ep) = {}
          /\ job' = [job EXCEPT !.pc = "revert", !.found = {}]
          /\ UNCHANGED history
       \/ \E r \in Newest(job.ep) :
             /\ history' = history \ ({s \in RowsOf(job.ep) : s.date < r.date} \cup
                                      {s \in RowsNamed(Release[r.offer]) :
                                            r.offer \in cleared /\ s.date # r.date})
             /\ job' = [job EXCEPT !.pc = "revert", !.found = {Release[r.offer]}]
    /\ UNCHANGED <<status, failed, client, queueVars, processed, now, origin, lost,
                   reported, missed, asked>>

\* [mutant] the rows of another snatch of the same release stay
FindReleaseNoClear == FindClearing({})

FindRelease == FindClearing(Offer)

\* revert_episode
RevertFrom(rows) ==
    /\ job.pc = "revert"
    /\ \/ /\ rows = {}
          /\ status' = [status EXCEPT ![job.ep] = "wanted"]
       \/ \E r \in rows : status' = [status EXCEPT ![job.ep] = r.old]
    /\ job' = [job EXCEPT !.pc = "blame"]
    /\ IF status'[job.ep] \in Settled
       THEN /\ origin' = [origin EXCEPT ![job.ep] = status'[job.ep]]
            /\ lost' = lost \ {job.ep}
       ELSE UNCHANGED <<origin, lost>>
    /\ UNCHANGED <<history, failed, client, queueVars, processed, now, reported, missed, asked>>

\* [mutant] any row of the season will do
RevertSeason == RevertFrom(history)

Revert == RevertFrom(RowsOf(job.ep))

\* what add_failed blocks: the one snatch the rows are of; the size or provider
\* that several do not share is left out, and that row matches no offer
Offers(rows) == {r.offer : r \in rows}
\* [mutant] several rows are taken for several snatches
BlockedSingleRow(rows) == IF Cardinality(rows) = 1 THEN Offers(rows) ELSE {}

Blocked(rows) == IF Cardinality(Offers(rows)) = 1 THEN Offers(rows) ELSE {}

\* what it removes: all of them, but with one size and several providers none
Removed(rows) == IF /\ Cardinality({Size[o] : o \in Offers(rows)}) = 1
                    /\ Cardinality({Provider[o] : o \in Offers(rows)}) > 1
                 THEN {} ELSE rows

\* add_failed
Blame ==
    /\ job.pc = "blame"
    /\ LET rows == UNION {RowsNamed(rel) : rel \in job.found}
           left == job.todo \ {job.ep}
       IN  /\ failed' = failed \cup Blocked(rows)
           /\ history' = history \ Removed(rows)
           /\ job' = [job EXCEPT !.pc = IF left = {} THEN "search" ELSE "mark",
                                 !.todo = left, !.ep = None, !.found = {}]
           \* the other episodes of the release lose their rows as well
           /\ lost' = lost \cup {r.ep : r \in {s \in Removed(rows) : s.ep # job.ep}}
    /\ UNCHANGED <<status, client, queueVars, processed, now, origin, reported, missed, asked>>

\* The except of run() ends a search of any kind wherever it is: what is left
\* of the segment is not looked at, and a snatch that was recorded may never
\* get its status.
Raises ==
    /\ Asks
    /\ job.pc \notin {"idle", "over"}
    /\ job' = IF job.segment = {} THEN NoJob
              ELSE [NoJob EXCEPT !.pc = "over", !.segment = job.segment, !.saved = job.saved]
    /\ abandoned' = abandoned \cup job.todo
    /\ lost' = lost \cup Unset
    /\ UNCHANGED <<status, history, failed, client, asking, retries, saved, processed, now,
                   origin, reported, missed>>

\* the thread is done; job_run reaps it and deletes its row
EndRetry ==
    /\ job.pc \in {"search", "over"}
    /\ job' = NoJob
    /\ UNCHANGED <<status, history, failed, client, queueVars, processed, now, origin, lost,
                   reported, missed, asked>>

(***************************************************************************)
(* What the download client makes of a release.  A download takes longer   *)
(* than the two statements that follow its hand-over.                      *)
(***************************************************************************)
Ends(d) == /\ d \in client
           /\ ~(job.pc \in {"record", "status"} /\ d.date = now)
           /\ client' = client \ {d}

(***************************************************************************)
(* FailedProcessor.process: one retry for each episode of the name, which  *)
(* it appends one after the other.  add_item refuses a retry of the same   *)
(* episodes that waits; the row of one that runs keeps the new one out of  *)
(* the table (INSERT OR IGNORE).                                           *)
(***************************************************************************)
Fails(d) ==
    /\ Ends(d)
    /\ asking' = asking \cup {[by |-> "client", at |-> d.date, segment |-> {e}] :
                                  e \in EpsOf[d.offer]}
    /\ reported' = reported \cup {d.offer}
    \* snatched anew since, or by a process that died before it recorded it
    /\ missed' = IF \A e \in EpsOf[d.offer] : \E r \in Newest(e) : r.offer = d.offer
                 THEN missed ELSE missed \cup {d.offer}
    /\ UNCHANGED <<status, history, failed, retries, saved, abandoned, job, processed, now,
                   origin, lost, asked>>

Appended(seg) ==
    /\ retries' = retries \cup {seg}
    /\ saved' = IF seg \in retries \/ (job.saved /\ job.segment = seg)
                THEN saved ELSE saved \cup {seg}

QueueRetry(a) ==
    /\ a \in asking
    /\ asking' = asking \ {a}
    /\ Appended(a.segment)
    /\ UNCHANGED <<status, history, failed, client, abandoned, job, processed, now, asked,
                   origin, lost, reported, missed>>

\* the status after the new file is in place
Downloaded(d) ==
    /\ processed = None
    /\ Ends(d)
    /\ LET eps == EpsOf[d.offer]
       IN  /\ status' = [e \in Ep |-> IF e \in eps THEN "downloaded" ELSE status[e]]
           /\ origin' = [e \in Ep |-> IF e \in eps THEN "downloaded" ELSE origin[e]]
           /\ lost' = lost \cup {e \in eps : RowsOf(e) # {}}
    /\ processed' = d.offer
    /\ UNCHANGED <<history, failed, queueVars, job, now, reported, missed, asked>>

\* remove_failed, unless no release name can be made out
Forget(known) ==
    /\ processed # None
    /\ history' = IF known THEN history \ RowsNamed(Release[processed]) ELSE history
    /\ missed' = missed \cup {o \in reported : EpsOf[o] \cap EpsOf[processed] # {}}
    /\ lost' = lost \cup {e \in EpsOf[processed] :
                              status[e] \notin Settled \/ job.pc = "status"}
    /\ processed' = None
    /\ UNCHANGED <<status, failed, client, queueVars, job, now, origin, reported, asked>>

(***************************************************************************)
(* What the user asks for.                                                 *)
(***************************************************************************)
\* the retry button of an episode that was snatched
AskRetry(e) ==
    /\ Asks
    /\ status[e] \in {"snatched", "downloaded", "failed"}
    /\ Appended({e})
    /\ UNCHANGED <<status, history, failed, client, asking, abandoned, job, processed, now,
                   origin, lost, reported, missed>>

\* set_show_status to FAILED commits the status, and appends the retry later.
\* What is neither snatched nor downloaded keeps its status, and is in the
\* segment that is retried all the same.
SetFailed(seg) ==
    /\ Asks
    /\ status' = [e \in Ep |-> IF e \in seg /\ status[e] \in {"snatched", "downloaded"}
                               THEN "failed" ELSE status[e]]
    /\ asking' = asking \cup {[by |-> "user", at |-> asked', segment |-> seg]}
    /\ UNCHANGED <<history, failed, client, retries, saved, abandoned, job, processed, now,
                   origin, lost, reported, missed>>

\* any other status: the rows stay
SetStatus(e, s) ==
    /\ Asks
    /\ s # status[e]
    /\ status' = [status EXCEPT ![e] = s]
    /\ origin' = [origin EXCEPT ![e] = s]
    /\ lost' = IF RowsOf(e) = {} THEN lost ELSE lost \cup {e}
    /\ UNCHANGED <<history, failed, client, queueVars, job, processed, now, reported, missed>>

\* remove_from_search_queue: waiting retries and their rows
RemoveRetries(segs) ==
    /\ Asks
    /\ segs # {}
    /\ retries' = retries \ segs /\ saved' = saved \ segs
    /\ abandoned' = abandoned \cup UNION segs
    /\ UNCHANGED <<status, history, failed, client, asking, job, processed, now,
                   origin, lost, reported, missed>>

\* clear_search_queue of failed searches: the row of the running one goes too
ClearRetries ==
    /\ Asks
    /\ retries' = {} /\ saved' = {}
    /\ job' = [job EXCEPT !.saved = FALSE]
    /\ abandoned' = abandoned \cup UNION retries
    /\ UNCHANGED <<status, history, failed, client, asking, processed, now,
                   origin, lost, reported, missed>>

\* failed_downloads of the web pages deletes a release from the block list
Unblock(rel) ==
    /\ Asks
    /\ LET freed == {o \in failed : Release[o] = rel}
       IN  freed # {} /\ failed' = failed \ freed /\ reported' = reported \ freed
    /\ UNCHANGED <<status, history, client, queueVars, job, processed, now,
                   origin, lost, missed>>

\* [mutant] the running retry is not saved
RedoNothing == {}

\* the running retry, whose row job_run has not deleted yet
Redo == IF job.saved THEN {job.segment} ELSE {}

\* the process dies and starts: the running retry starts over
Crash ==
    /\ job # NoJob \/ processed # None \/ asking # {} \/ saved # retries
    /\ retries' = saved \cup Redo /\ saved' = retries'
    /\ asking' = {}
    /\ abandoned' = abandoned \cup (IF job.saved THEN {} ELSE job.todo)
                              \cup UNION (Segments(asking) \cup (retries \ saved))
    /\ job' = NoJob
    /\ processed' = None
    /\ lost' = lost \cup Unset
    /\ UNCHANGED <<status, history, failed, client, now, origin, reported, missed, asked>>

Worker ==
    \/ Record \/ SetSnatched
    \/ \E e \in Ep : MarkFailed(e)
    \/ FindRelease \/ Revert \/ Blame \/ EndRetry \/ Raises

Next ==
    \/ \E o \in Offer : Send(o)
    \/ \E seg \in retries : TakeRetry(seg)
    \/ Worker
    \/ \E d \in client : Fails(d) \/ Downloaded(d)
    \/ \E known \in BOOLEAN : Forget(known)
    \/ \E e \in Ep : AskRetry(e) \/ SetStatus(e, "wanted") \/ SetStatus(e, "ignored")
    \/ \E seg \in Chosen : SetFailed(seg)
    \/ \E a \in asking : QueueRetry(a)
    \/ \E segs \in SUBSET retries : RemoveRetries(segs)
    \/ ClearRetries
    \/ \E rel \in {Release[o] : o \in Offer} : Unblock(rel)
    \/ Crash

Spec == Init /\ [][Next]_vars

-----------------------------------------------------------------------------
(***************************************************************************)
(* Safety.                                                                 *)
(***************************************************************************)

\* A snatched episode has its way back: the newest row of it holds the status
\* it had before, but for the episodes in `lost': snatched on top of a snatch
\* or a failure, robbed of their row by the failure of a release they share,
\* downloaded or set by the user while rows of them are left.
SnatchCanBeUndone ==
    \A e \in Ep : status[e] = "snatched" /\ e \notin lost =>
        \E r \in Newest(e) : r.old = origin[e]

\* Once nothing is left to retry, an offer the client reported as failed is
\* blocked, so no later search picks it, until a user takes the block away; but
\* for the offers in `missed' (not recorded, or snatched anew or post-processed
\* before the retry came to them) and those of episodes in `abandoned'.
ReportedIsBlocked ==
    \A o \in reported :
        \/ o \in failed \cup missed
        \/ \E e \in EpsOf[o] : Pending(e) \/ e \in abandoned

\* An episode that is failed has a retry that will take it out, asked for,
\* waiting or running, whatever order requests, reports, searches and crashes
\* come in, but for those in `abandoned', whose retry went without being worked
\* off and did not begin again, and in `lost', which the revert itself may
\* have made failed again.
FailedIsRetried ==
    \A e \in Ep : status[e] = "failed" => Pending(e) \/ e \in lost \cup abandoned

\* When add_failed looks at the rows of the release that find_release chose,
\* they are of one snatch, whatever the table held and whatever happened in
\* between: its branches for several sizes or providers are dead.
BlamedIsOneSnatch ==
    job.pc \in {"revert", "blame"} =>
        \A rel \in job.found : \A r, s \in RowsNamed(rel) : r.offer = s.offer

\* A retry that finds the snatch of an episode gives the episode back the
\* status from before the snatch.
RevertRestores ==
    [][(Revert /\ RowsOf(job.ep) # {} /\ job.ep \notin lost)
         => status'[job.ep] = origin[job.ep]]_vars

\* webserve.py 3315 and 3323: "Refusing to change status ... to failed because
\* it's not snatched/downloaded".  What was refused is not marked failed.
IgnoredIsLeftAlone ==
    [][\A e \in Ep : status[e] = "ignored" => status'[e] # "failed"]_vars
=============================================================================
