---------------------------- MODULE SwitchSource ----------------------------
(***************************************************************************)
(* The switch of a show from one TV info source to another, with the crash *)
(* that may interrupt it anywhere and the resume at the next start:        *)
(*   sickgear/show_queue.py   switch_show, QueueItemSwitchSource.run       *)
(*   sickgear/tv.py           TVShow.switch_infosrc                        *)
(*   sickgear.py              SickGear.start, "auto resume"                *)
(* An id stands for a source and the show's number there.  The other items *)
(* of the show queue only make a switch wait and are left out.             *)
(***************************************************************************)
EXTENDS Naturals, FiniteSets

CONSTANTS Show, Id,
          Gone,      \* the id of a show that was deleted
          NoId,      \* no id was given, the switch has to find it
          NoItem,
          MaxUid     \* bound: uids one life of the process may give

VARIABLES
    main,        \* per show, the id its rows in sickbeard.db have
    failed,      \* per show, the id its rows in failed.db have
    episodes,    \* per show, the id its episodes were loaded for
    rows,        \* the table tv_src_switch
    showDict,    \* per show, the id under which find_show_by_id finds it
    waiting,     \* the switches in the queue
    current,     \* the switch that runs or waits to be reaped
    pc,          \* where its run() is
    todo,        \* rows the start of the program has read and not handled
    id_counter,
    up,          \* the process runs
    dropped,     \* history: shows of which a switch was lost, see below
    split        \* history: shows of which a crash came between two databases

dbVars   == <<main, failed, episodes, rows>>
procVars == <<showDict, waiting, current, pc, todo, id_counter, up>>
histVars == <<dropped, split>>
vars     == <<dbVars, procVars, histVars>>

\* The status codes of tv.py that something is done about, and one for the rest.
TVSWITCH_DUPLICATE_SHOW == 0
TVSWITCH_NORMAL         == 3
TVSWITCH_VERIFY_ERROR   == 7
Status == {TVSWITCH_DUPLICATE_SHOW, TVSWITCH_NORMAL, TVSWITCH_VERIFY_ERROR}

\* "show" is not a column: whose switch the row is
Row  == [uid : Nat, show : Show, old : Id, new : Id \cup {NoId}, force : BOOLEAN,
         status : Status]
Item == [uid : Nat, show : Show, old : Id, new : Id \cup {NoId}, force : BOOLEAN,
         resume : BOOLEAN]

ASSUME SwitchSourceAssumption ==
    /\ Gone \notin Id /\ NoId \notin Id \cup {Gone}
    /\ NoItem \notin Item
    /\ MaxUid \in Nat

TypeOK ==
    /\ main \in [Show -> Id \cup {Gone}]
    /\ failed \in [Show -> Id] /\ episodes \in [Show -> Id]
    /\ rows \subseteq Row
    /\ showDict \in [Show -> Id \cup {Gone}]
    /\ waiting \subseteq Item
    /\ current \in Item \cup {NoItem}
    /\ pc \in {"verify", "ids", "main", "update", "refresh", "ended"}
    /\ todo \subseteq Row
    /\ id_counter \in Nat
    /\ up \in BOOLEAN
    /\ dropped \subseteq Show /\ split \subseteq Show

(***************************************************************************)
(* The table may hold a switch an earlier release did not finish, before   *)
(* the show's ids changed or after: its status is the default of the       *)
(* column, 0, which is what the start looks for.                           *)
(***************************************************************************)
Inherited == [uid : {1}, show : Show, old : Id, new : Id \cup {NoId}, force : BOOLEAN,
              status : {0}]

Init ==
    /\ main \in {f \in [Show -> Id] : \A s, t \in Show : f[s] = f[t] => s = t}
    /\ \/ rows = {} /\ episodes = main /\ failed = main /\ split = {}
       \/ \E r \in Inherited :
             /\ rows = {r} /\ r.old # r.new
             /\ episodes = [main EXCEPT ![r.show] = r.old]
             /\ r.old \notin {main[s] : s \in Show \ {r.show}}
             /\ main[r.show] \in {r.old, r.new}
             /\ \/ failed = main /\ split = {}
                \/ failed = episodes /\ split = {r.show}
    /\ showDict = main
    /\ waiting = {} /\ current = NoItem /\ pc = "ended" /\ todo = {}
    /\ id_counter = 0 /\ up = FALSE /\ dropped = {}

Running == current # NoItem /\ pc # "ended"
SwitchPending(s) == \/ current # NoItem /\ current.show = s
                    \/ \E i \in waiting : i.show = s
RowsOf(u) == {r \in rows : r.uid = u}

\* DELETE, and UPDATE of the rows of a uid
Delete(u)    == rows \ RowsOf(u)
SetId(u, id) == {[r EXCEPT !.new = IF r.uid = u THEN id ELSE @] : r \in rows}

\* _set_switch_tbl_status, which "deletes the entry if status: TVSWITCH_NORMAL":
\* the code compares with 0, which is another status by now
SetSwitchTblStatus(u, status) ==
    IF status = 0 THEN Delete(u)
    ELSE {[r EXCEPT !.status = IF r.uid = u THEN status ELSE @] : r \in rows}

\* of the shows of a set of rows, those that have moved and not been updated
HalfWay(some) == {s \in {r.show : r \in some} : main[s] # episodes[s]}

(***************************************************************************)
(* switch_show and save_item.  REPLACE: the index of the table is on the   *)
(* old id.  The row says the id the show has now for the old one, also for *)
(* a switch that is resumed and carries another.                           *)
(***************************************************************************)
SaveItem(i) ==
    LET id == showDict[i.show]
    IN  rows' = {r \in rows : r.old # id} \cup
                   {[uid |-> i.uid, show |-> i.show, old |-> id, new |-> i.new,
                     force |-> i.force, status |-> TVSWITCH_NORMAL]}

\* shows of which the row is replaced: another show has the id they left
Replaced(i) == HalfWay({r \in rows : r.old = showDict[i.show] /\ r.show # i.show})

SwitchShow(i) ==
    /\ waiting' = waiting \cup {i}
    /\ SaveItem(i)
    /\ dropped' = dropped \cup Replaced(i)

\* switch_infosrc and switch_source of the web pages, served once the start is
\* over.  A number given without force is a hint and no more, so that is asked
\* for as none.
Request(s, new, force) ==
    /\ up /\ todo = {} /\ id_counter < MaxUid
    /\ showDict[s] # Gone
    /\ ~SwitchPending(s)
    /\ id_counter' = id_counter + 1
    /\ SwitchShow([uid |-> id_counter + 1, show |-> s, old |-> showDict[s], new |-> new,
                   force |-> force, resume |-> FALSE])
    /\ UNCHANGED <<main, failed, episodes, showDict, current, pc, todo, up, split>>

\* the queue pages: a waiting switch is taken out, or, with force, the row of
\* one that failed
RemoveFromQueue(u) ==
    /\ up /\ todo = {}
    /\ \/ \E i \in waiting : i.uid = u
       \/ \E r \in RowsOf(u) : r.status # TVSWITCH_NORMAL
    /\ waiting' = {i \in waiting : i.uid # u}
    /\ rows' = Delete(u)
    /\ dropped' = dropped \cup HalfWay(RowsOf(u))
                          \cup (IF Running /\ current.uid = u THEN {current.show} ELSE {})
    /\ UNCHANGED <<main, failed, episodes, showDict, current, pc, todo, id_counter, up, split>>

\* clear_show_queue: every row goes, that of the switch that runs too
Clear ==
    /\ up /\ todo = {}
    /\ waiting' = {} /\ rows' = {}
    /\ dropped' = dropped \cup HalfWay(rows)
                          \cup (IF Running THEN {current.show} ELSE {})
    /\ UNCHANGED <<main, failed, episodes, showDict, current, pc, todo, id_counter, up, split>>

\* delete_show goes by the id the object has, abort_show takes out what waits;
\* what a deleted show that is still updated writes back is not modelled
ObjectId(s) == IF Running /\ current.show = s /\ pc \in {"ids", "main"}
               THEN current.new ELSE showDict[s]
DeleteShow(s) ==
    /\ up /\ todo = {} /\ showDict[s] # Gone
    /\ LET id == ObjectId(s)
           out == {i \in waiting : i.show = s}
       IN  /\ main' = [main EXCEPT ![s] = IF @ = id THEN Gone ELSE @]
           /\ showDict' = [showDict EXCEPT ![s] = IF @ = id THEN Gone ELSE @]
           /\ waiting' = waiting \ out
           /\ rows' = {r \in rows : \A i \in out : r.uid # i.uid}
    /\ UNCHANGED <<failed, episodes, current, pc, todo, id_counter, up, histVars>>

(***************************************************************************)
(* job_run, for the switches: reap the one whose thread is dead (a row     *)
(* whose status is not normal stays), start one that waits.                *)
(***************************************************************************)
SchedRun ==
    /\ up /\ ~Running
    /\ current # NoItem \/ waiting # {}
    /\ rows' = IF current = NoItem THEN rows
               ELSE {r \in rows : r.uid # current.uid \/ r.status # TVSWITCH_NORMAL}
    /\ \/ waiting = {} /\ current' = NoItem /\ UNCHANGED <<waiting, pc>>
       \/ \E i \in waiting :
             /\ waiting' = waiting \ {i}
             /\ current' = i
             /\ pc' = IF i.resume THEN "update" ELSE "verify"
    /\ UNCHANGED <<main, failed, episodes, showDict, todo, id_counter, up, histVars>>

(***************************************************************************)
(* run of QueueItemSwitchSource.                                           *)
(***************************************************************************)
At(label) == up /\ current # NoItem /\ pc = label

\* the id to switch to: the one forced, or one that the mappings give
Candidates == IF current.force /\ current.new # NoId THEN {current.new} ELSE Id
InUse(id) == \E t \in Show : showDict[t] = id

\* any of the checks fails
VerifyFails ==
    /\ At("verify")
    /\ \E status \in Status \ {TVSWITCH_NORMAL} : rows' = SetSwitchTblStatus(current.uid, status)
    /\ pc' = "ended"
    /\ UNCHANGED <<main, failed, episodes, showDict, waiting, current, todo, id_counter, up, histVars>>

\* [mutant] the row does not get the id
TakeIdUnsaved ==
    /\ At("verify")
    /\ \E id \in Candidates \ {current.old} :
          ~InUse(id) /\ current' = [current EXCEPT !.new = id]
    /\ pc' = "ids"
    /\ UNCHANGED <<dbVars, showDict, waiting, todo, id_counter, up, histVars>>

\* [mutant] the check for a show that has the new id is not made
TakeIdUnchecked ==
    /\ At("verify")
    /\ \E id \in Candidates \ {current.old} :
          /\ rows' = SetId(current.uid, id)
          /\ current' = [current EXCEPT !.new = id]
    /\ pc' = "ids"
    /\ UNCHANGED <<main, failed, episodes, showDict, waiting, todo, id_counter, up, histVars>>

\* [mutant] the item's own number is used, which may be missing
TakeIdItemUnset ==
    /\ At("verify")
    /\ \E id \in Candidates \ {current.old} :
          /\ ~InUse(id)
          /\ rows' = SetId(current.uid, id)
    /\ pc' = "ids"
    /\ UNCHANGED <<main, failed, episodes, showDict, waiting, current, todo, id_counter, up, histVars>>

\* _set_switch_id, then the ids of the show object
TakeId ==
    /\ At("verify")
    /\ \E id \in Candidates \ {current.old} :
          /\ ~InUse(id)
          /\ rows' = SetId(current.uid, id)
          /\ current' = [current EXCEPT !.new = id]
    /\ pc' = "ids"
    /\ UNCHANGED <<main, failed, episodes, showDict, waiting, todo, id_counter, up, histVars>>

\* switch_infosrc: one transaction of sickbeard.db ...
MoveMain ==
    /\ At("ids")
    /\ main' = [main EXCEPT ![current.show] = IF @ = current.old THEN current.new ELSE @]
    /\ pc' = "main"
    /\ UNCHANGED <<failed, episodes, rows, showDict, waiting, current, todo, id_counter, up, histVars>>

\* [mutant] failed.db is asked for the rows the show has by now
MoveRestNewRows ==
    /\ At("main")
    /\ failed' = [failed EXCEPT ![current.show] = IF @ = main[current.show] THEN current.new ELSE @]
    /\ showDict' = [showDict EXCEPT ![current.show] = current.new]
    /\ pc' = "update"
    /\ UNCHANGED <<main, episodes, rows, waiting, current, todo, id_counter, up, histVars>>

\* ... then failed.db and the caches, of which the key in showDict matters
\* here; an exception in between is not modelled
MoveRest ==
    /\ At("main")
    /\ failed' = [failed EXCEPT ![current.show] = IF @ = current.old THEN current.new ELSE @]
    /\ showDict' = [showDict EXCEPT ![current.show] = current.new]
    /\ pc' = "update"
    /\ UNCHANGED <<main, episodes, rows, waiting, current, todo, id_counter, up, histVars>>

\* QueueItemUpdate.run, called directly
Update ==
    /\ At("update")
    /\ episodes' = [episodes EXCEPT ![current.show] = current.new]
    /\ dropped' = IF RowsOf(current.uid) = {} THEN dropped ELSE dropped \ {current.show}
    /\ pc' = "refresh"
    /\ UNCHANGED <<main, failed, rows, showDict, waiting, current, todo, id_counter, up, split>>

\* the update returns early when the source has no answer, and nobody looks
UpdateFails ==
    /\ At("update")
    /\ dropped' = dropped \cup {current.show}
    /\ pc' = "refresh"
    /\ UNCHANGED <<dbVars, showDict, waiting, current, todo, id_counter, up, split>>

\* QueueItemRefresh.run, then _set_switch_tbl_status(): "now remove from switch tbl"
Finish ==
    /\ At("refresh")
    /\ rows' = SetSwitchTblStatus(current.uid, TVSWITCH_NORMAL)
    /\ pc' = "ended"
    /\ UNCHANGED <<main, failed, episodes, showDict, waiting, current, todo, id_counter, up, histVars>>

\* an exception ends the thread; the row is as it was, and job_run deletes it
Raises ==
    /\ up /\ current # NoItem /\ pc \in {"verify", "update", "refresh"}
    /\ pc' = "ended"
    /\ dropped' = IF pc = "update" THEN dropped \cup {current.show} ELSE dropped
    /\ UNCHANGED <<dbVars, showDict, waiting, current, todo, id_counter, up, split>>

RunStep == VerifyFails \/ TakeId \/ MoveMain \/ MoveRest \/ Update \/ UpdateFails \/ Finish \/ Raises

(***************************************************************************)
(* The end of the process and the next start, which handles the rows whose *)
(* status is 0, in any order here.                                         *)
(***************************************************************************)
Crash ==
    /\ up
    /\ up' = FALSE
    /\ waiting' = {} /\ current' = NoItem /\ pc' = "ended" /\ todo' = {}
    /\ split' = split \cup (IF At("main") THEN {current.show} ELSE {})
    /\ UNCHANGED <<dbVars, showDict, id_counter, dropped>>

\* [mutant] the rows are taken out, what is resumed comes back with a new one
StartTakesRows ==
    /\ ~up
    /\ up' = TRUE
    /\ showDict' = main
    /\ id_counter' \in {n \in {0} \cup {r.uid : r \in rows} : \A r \in rows : r.uid <= n}
    /\ todo' = {r \in rows : r.status = 0}
    /\ rows' = {r \in rows : r.status # 0}
    /\ UNCHANGED <<main, failed, episodes, waiting, current, pc, histVars>>

Start ==
    /\ ~up
    /\ up' = TRUE
    /\ showDict' = main
    /\ id_counter' \in {n \in {0} \cup {r.uid : r \in rows} : \A r \in rows : r.uid <= n}
    /\ todo' = {r \in rows : r.status = 0}
    /\ UNCHANGED <<dbVars, waiting, current, pc, histVars>>

Found(id) == {s \in Show : showDict[s] = id}

\* not moved yet: the whole switch again; moved: the rest of it
Target(r) == IF Found(r.old) # {} THEN Found(r.old) ELSE Found(r.new)

Resume(r) ==
    /\ up /\ r \in todo
    /\ todo' = todo \ {r}
    /\ \/ \E s \in Target(r) :
             /\ ~SwitchPending(s)
             /\ SwitchShow([uid |-> r.uid, show |-> s, old |-> r.old, new |-> r.new,
                            force |-> r.force, resume |-> Found(r.old) = {}])
       \/ (\A s \in Target(r) : SwitchPending(s)) /\ UNCHANGED <<rows, waiting, dropped>>
    /\ UNCHANGED <<main, failed, episodes, showDict, current, pc, id_counter, up, split>>

Next ==
    \/ \E s \in Show : \/ \E id \in Id : Request(s, id, TRUE)
                       \/ Request(s, NoId, FALSE)
    \/ \E u \in 1..MaxUid : RemoveFromQueue(u)
    \/ Clear
    \/ \E s \in Show : DeleteShow(s)
    \/ SchedRun
    \/ RunStep
    \/ Crash \/ Start
    \/ \E r \in todo : Resume(r)

Spec == Init /\ [][Next]_vars

-----------------------------------------------------------------------------
OnRecord(s) == \E r \in rows : r.show = s /\ r.status \in {0, TVSWITCH_NORMAL}

\* Until a switch is over, its row names the id the show has, the old or the
\* new one, wherever a crash comes: the new id is written before the show
\* moves, and the row is kept while it has moved already.
RowNamesShow ==
    \A i \in waiting \cup (IF Running THEN {current} ELSE {}) :
        \/ main[i.show] = Gone
        \/ i.show \in dropped
        \/ \E r \in rows : r.uid = i.uid /\ main[i.show] \in {r.old, r.new}

\* A show has the episodes of its source, or a switch of it is on record; but
\* for shows of which a switch was dropped: its update had no answer or
\* raised, or its row was cleared while it ran.
EpisodesFollowSource ==
    \A s \in Show : main[s] \in {Gone, episodes[s]} \/ OnRecord(s) \/ s \in dropped

\* The switch keeps the promise of ShowSource: only a switch on record moves a
\* show, to an id nobody has, episodes are loaded for no id but the show's own,
\* and no order of requests, deletions, failures, crashes and resumes settles a
\* show that was moved and has the episodes of the old id; but for the shows of
\* which a switch was dropped (see EpisodesFollowSource).
Loaded    == [s \in Show |-> IF main[s] = Gone THEN Gone ELSE episodes[s]]
Unsettled == {s \in Show : OnRecord(s)} \cup dropped
Promise == INSTANCE ShowSource WITH id <- main, loaded <- Loaded, unsettled <- Unsettled
KeepsPromise == Promise!Spec

\* No two shows have one id, in the database or in showDict.
OneShowPerId ==
    \A s, t \in Show : s # t => /\ main[s] = main[t] => main[s] = Gone
                                /\ showDict[s] = showDict[t] => showDict[s] = Gone

\* The rows of a show in failed.db have its id too, unless a crash came after
\* sickbeard.db was committed and before failed.db was: nothing returns to them,
\* but a switch back.
FailedFollowsMain ==
    \A s \in Show : \/ main[s] \in {Gone, failed[s]}
                    \/ s \in split
                    \/ At("main") /\ current.show = s

\* CHANGES.md: "after a restart, auto resume switching shows that didn't finish
\* the switch TV info source process".
UnfinishedIsResumed ==
    [][~up /\ up' => \A s \in Show : main[s] # Gone /\ OnRecord(s)
                                  => \E r \in todo' : r.show = s]_vars
=============================================================================
