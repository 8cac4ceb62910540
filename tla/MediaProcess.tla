---------------------------- MODULE MediaProcess ----------------------------
(***************************************************************************)
(* Post-processing: a finished download becomes an episode's file.         *)
(*   sickgear/processTV.py       process_dir, folder by folder             *)
(*   sickgear/postProcessor.py   PostProcessor.process, file by file       *)
(*   sickgear/tv.py              TVShow.refresh_dir, get_all_episodes      *)
(*   sickgear/history.py         reset_status                              *)
(* Several processors may be at work: the scheduled one and those that     *)
(* download clients and users call through the web server's threads.       *)
(* The dict of a TVEpisode is set first and its row is written later, from *)
(* the values taken then.  Its related_ep_obj, the other episodes of a     *)
(* file, is one list for all threads: every processor that finds a video   *)
(* empties and fills the list of the video's first episode, and a refresh  *)
(* and whoever asks for all episodes change it too.  Methods move and copy *)
(* files; the folders of downloads are below TV_DOWNLOAD_DIR.              *)
(* A file that gets into another's place under the same name counts as the *)
(* same to a refresh. Archived counts as downloaded; proper releases and   *)
(* unknown qualities are left out, and so are the failures and subtitles   *)
(* that table history lists as well.                                       *)
(***************************************************************************)
EXTENDS Naturals, FiniteSets

CONSTANTS Episodes, Files, Folders, Places, Processors,
          Of,              \* Of[f]: the episodes a video holds
          First,           \* First[eps]: the one whose number is lowest
          Quality, Size,   \* of a video
          Snatched,        \* the videos that were snatched
          Folder,          \* the folder it was downloaded to
          Path,            \* Path[f][eps]: its proper path as a file of eps
          Named,           \* Named[place]: the episodes in a path's name
          NoPlace, NoFile, NoRow,
          Broken,          \* what is left of a file that was written in part
          Calls,           \* Calls[p]: how processor p is called
          Asked,           \* bound: whose lists get_all_episodes may change
          MaxTrouble,      \* bound: failures of the file system and crashes
          MaxRefresh       \* bound: refreshes

Record == [status   : {"wanted", "snatched", "downloaded", "ignored"},
           quality  : Nat,
           location : Places \cup {NoPlace},
           release  : Files \cup {NoFile}]

ASSUME ProcessAssumption ==
    /\ Of \in [Files -> (SUBSET Episodes) \ {{}}]
    /\ First \in [(SUBSET Episodes) \ {{}} -> Episodes]
    /\ \A eps \in (SUBSET Episodes) \ {{}} : First[eps] \in eps
    /\ Quality \in [Files -> Nat \ {0}] /\ Size \in [Files -> Nat \ {0}]
    /\ Folder \in [Files -> Folders] /\ Snatched \subseteq Files
    /\ Named \in [Places -> SUBSET Episodes]
    /\ Path \in [Files -> [(SUBSET Episodes) \ {{}} -> Places]]
    /\ \A f \in Files, eps \in (SUBSET Episodes) \ {{}} : Named[Path[f][eps]] = eps
    /\ NoPlace \notin Places \cup Folders /\ NoRow \notin Record
    /\ NoFile \notin Files /\ Broken \notin Files \cup {NoFile}
    /\ \A p \in Processors : Calls[p] # {} /\ Calls[p] \subseteq
          [method : {"move", "copy"}, tidy : BOOLEAN, force : BOOLEAN, replace : BOOLEAN,
           folders : (SUBSET Folders) \ {{}}]
    /\ Asked \subseteq Episodes /\ MaxTrouble \in Nat /\ MaxRefresh \in Nat

VARIABLES
    down,      \* videos in the download folders
    lib,       \* lib[p]: what is at a place of the show's folder
    related,   \* related[e]: the related_ep_obj of e
    ep, row,   \* TVEpisode and its row: status, quality, location, release_name
    snatches,  \* episodes that table history has a snatch of
    logged,    \* videos that table history has a download of
    proc,      \* the processors
    refresh,   \* the show's refresh_dir
    arrived,   \* videos that were downloaded so far
    trouble,   \* failures and crashes so far
    bare       \* history: episodes that may be without the file they name

vars == <<down, lib, related, ep, row, snatches, logged, proc, refresh, arrived, trouble, bare>>
library == <<down, lib>>
tables  == <<row, snatches, logged>>
objects == <<ep, related>>

\* the first episode of a video, which _safe_replace judges by
Root == [f \in Files |-> First[Of[f]]]

NoRows == [e \in Episodes |-> NoRow]
NoneRelated == [e \in Episodes |-> {}]
AnyCall(p) == CHOOSE c \in Calls[p] : TRUE
Idle(c) == [at |-> "idle", call |-> c, todo |-> {}, dir |-> NoPlace, batch |-> {},
            file |-> NoFile, dest |-> NoPlace, any |-> FALSE, rows |-> NoRows]
Resting(n) == [at |-> "idle", nth |-> n, places |-> {},
               seen |-> [e \in Episodes |-> NoPlace], rows |-> NoRows]

Rows   == [Episodes -> Record \cup {NoRow}]
Given(rows) == {e \in Episodes : rows[e] # NoRow}

Steps     == {"judge", "delete", "relist", "fill", "change", "save", "name",
              "move", "locate", "put"}
Processor == [at   : {"idle", "walk", "batch"} \cup Steps,
              call : UNION {Calls[p] : p \in Processors},
              todo : SUBSET Folders,  dir  : Folders \cup {NoPlace},
              batch : SUBSET Files,   file : Files \cup {NoFile},
              dest : Places \cup {NoPlace},
              any  : BOOLEAN,         rows : Rows]
Refresh   == [at     : {"idle", "find", "found", "check"},
              nth    : 0..MaxRefresh,
              places : SUBSET Places,
              seen   : [Episodes -> Places \cup {NoPlace}],
              rows   : Rows]

TypeOK ==
    /\ down \subseteq Files
    /\ lib \in [Places -> Files \cup {NoFile, Broken}]
    /\ related \in [Episodes -> SUBSET Episodes]
    /\ ep \in [Episodes -> Record] /\ row \in [Episodes -> Record]
    /\ snatches \subseteq Episodes
    /\ logged \subseteq Files
    /\ proc \in [Processors -> Processor]
    /\ \A p \in Processors :
          /\ proc[p].call \in Calls[p]
          /\ \A f \in proc[p].batch : Folder[f] = proc[p].dir
          /\ proc[p].file \in IF proc[p].at \in Steps THEN proc[p].batch ELSE {NoFile}
          /\ proc[p].dest \in IF proc[p].at \in {"move", "locate"} THEN Places ELSE {NoPlace}
          /\ proc[p].at \notin {"save", "put"} => Given(proc[p].rows) = {}
    /\ refresh \in Refresh
    /\ arrived \subseteq Files
    /\ trouble \in 0..MaxTrouble
    /\ bare \subseteq Episodes

Init ==
    /\ down = {} /\ arrived = {}
    /\ lib = [p \in Places |-> NoFile]
    /\ related = NoneRelated
    /\ ep = [e \in Episodes |-> [status |-> "wanted", quality |-> 0,
                                 location |-> NoPlace, release |-> NoFile]]
    /\ row = ep
    /\ snatches = {} /\ logged = {}
    /\ proc = [p \in Processors |-> Idle(AnyCall(p))]
    /\ refresh = Resting(0)
    /\ trouble = 0
    /\ bare = {}

At(place)    == IF place = NoPlace THEN NoFile ELSE lib[place]
SizeOf(what) == IF what \in Files THEN Size[what] ELSE 0
\* [ep_obj] + ep_obj.related_ep_obj, as long as the list is by now
Listed(f)    == {Root[f]} \cup related[Root[f]]

\* get_sql under the episode's lock: a row only for what has changed
Dirty(eps)     == [e \in Episodes |-> IF e \in eps /\ ep'[e] # ep[e] THEN ep'[e] ELSE NoRow]
\* mass_action with rows taken earlier
Written(rows)  == [e \in Episodes |-> IF rows[e] # NoRow THEN rows[e] ELSE row[e]]
\* rows that another thread has overtaken
Late(rows)     == {e \in Given(rows) : rows[e] # ep[e]}
Fault          == trouble < MaxTrouble /\ trouble' = trouble + 1

(***************************************************************************)
(* A download ends.  Its snatch has set the status of its episodes; videos *)
(* of other origin come as well.                                           *)
(***************************************************************************)
Arrive(f) ==
    /\ f \notin arrived
    /\ arrived' = arrived \cup {f}
    /\ down' = down \cup {f}
    /\ IF f \in Snatched
       THEN /\ ep' = [e \in Episodes |-> IF e \in Of[f] THEN [ep[e] EXCEPT !.status = "snatched"]
                                         ELSE ep[e]]
            /\ row' = Written(Dirty(Of[f]))
            /\ snatches' = snatches \cup Of[f]
       ELSE UNCHANGED <<ep, row, snatches>>
    /\ UNCHANGED <<lib, related, logged, proc, refresh, trouble, bare>>

(***************************************************************************)
(* process_dir: the folders of a call, each with the batch of its videos.  *)
(***************************************************************************)
Begin(p, c) ==
    /\ proc[p].at = "idle"
    /\ proc' = [proc EXCEPT ![p] = [Idle(c) EXCEPT !.at = "walk", !.todo = c.folders]]
    /\ UNCHANGED <<library, tables, objects, refresh, arrived, trouble, bare>>

\* [mutant] those of the folders below it as well
VideosBelow(d) == down

VideosIn(d) == {f \in down : Folder[f] = d}

Enter(p, d) ==
    /\ proc[p].at = "walk" /\ d \in proc[p].todo
    /\ proc' = [proc EXCEPT ![p].at = "batch", ![p].dir = d, ![p].todo = @ \ {d},
                            ![p].batch = VideosIn(d)]
    /\ UNCHANGED <<library, tables, objects, refresh, arrived, trouble, bare>>

\* the size of every video left is asked for; the largest is next
Picks(p, f) ==
    /\ proc[p].at = "batch"
    /\ proc[p].batch \subseteq down
    /\ f \in proc[p].batch
    /\ \A g \in proc[p].batch : Size[g] <= Size[f]

\* OSError: one is gone
BatchSkipped(p) ==
    /\ proc[p].at = "batch"
    /\ ~ proc[p].batch \subseteq down
    /\ proc' = [proc EXCEPT ![p].batch = {}]
    /\ UNCHANGED <<library, tables, objects, refresh, arrived, trouble, bare>>

Known(f) == \/ \E e \in Episodes : row[e].release = f
            \/ f \in logged /\ row[Root[f]].status = "downloaded"

\* [mutant] whether or not this run has processed a video
AlreadyKnown(p, f) == ~proc[p].call.force /\ Known(f)

\* _already_postprocessed looks only once this run has processed a video
AlreadyProcessed(p, f) == ~proc[p].call.force /\ proc[p].any /\ Known(f)

\* the statuses one of which reset_status takes from table history
LastActions(e) == (IF e \in snatches THEN {"snatched"} ELSE {}) \cup
                  (IF \E f \in logged : Root[f] = e THEN {"downloaded"} ELSE {})

Skips(p, f) ==
    /\ Picks(p, f)
    /\ AlreadyProcessed(p, f)
    /\ LET e == Root[f]
       IN  \/ LastActions(e) = {} /\ UNCHANGED <<row, bare>>
           \/ \E s \in LastActions(e) :
                 /\ row' = [row EXCEPT ![e].status = s]
                 /\ bare' = bare \cup (IF row[e].status = s THEN {} ELSE {e})
    /\ proc' = [proc EXCEPT ![p].batch = @ \ {f}]
    /\ UNCHANGED <<library, objects, snatches, logged, refresh, arrived, trouble>>

\* _safe_replace
Safe(f, replace) ==
    LET e    == ep[Root[f]]
        held == At(e.location)
    IN  \/ e.status # "downloaded"
        \/ replace
        \/ Quality[f] > e.quality
        \/ held = NoFile
        \/ Quality[f] = e.quality /\ SizeOf(held) < Size[f]

\* _get_ep_obj begins: the list of the first episode is emptied
Empties(f) == related' = [related EXCEPT ![Root[f]] = {}]

\* and ends: the others are on the list, that may be another thread's by now
Fills(f) == related' = [related EXCEPT ![Root[f]] = @ \cup (Of[f] \ {Root[f]})]

Takes(p, f) ==
    /\ Picks(p, f)
    /\ ~AlreadyProcessed(p, f)
    /\ Empties(f)
    /\ proc' = [proc EXCEPT ![p].at = "judge", ![p].file = f]
    /\ UNCHANGED <<library, tables, ep, refresh, arrived, trouble, bare>>

\* process() has ended; the batch goes on with the next video
Leaves(p) == proc' = [proc EXCEPT ![p].at = "batch", ![p].batch = @ \ {proc[p].file},
                                  ![p].file = NoFile, ![p].dest = NoPlace]

Refuses(p) ==
    /\ proc[p].at = "judge"
    /\ ~Safe(proc[p].file, proc[p].call.replace)
    /\ Fills(proc[p].file)
    /\ Leaves(p)
    /\ UNCHANGED <<library, tables, ep, refresh, arrived, trouble, bare>>

Accepts(p) ==
    /\ proc[p].at = "judge"
    /\ Safe(proc[p].file, proc[p].call.replace)
    /\ Fills(proc[p].file)
    /\ proc' = [proc EXCEPT ![p].at = "delete"]
    /\ UNCHANGED <<library, tables, ep, refresh, arrived, trouble, bare>>

(***************************************************************************)
(* PostProcessor.process, of a video that may replace what there is.       *)
(***************************************************************************)

\* inside PostProcessor.process, from the deletion on
Inside(p, e) == /\ proc[p].at \in Steps \ {"judge", "delete"}
                /\ e \in Of[proc[p].file]

Locations(eps) == {ep[e].location : e \in eps} \ {NoPlace}

\* the files at places go; left without: episodes these are of but not the new
\* video, and those whose file another processor has just put there
Removes(p, places) ==
    /\ lib' = [place \in Places |-> IF place \in places THEN NoFile ELSE lib[place]]
    /\ bare' = bare \cup {e \in Episodes : \/ /\ ep[e].location \in places
                                             /\ ~Inside(p, e)'
                                          \/ \E q \in Processors \ {p} :
                                               /\ Inside(q, e) /\ proc[q].at = "locate"
                                               /\ proc[q].dest \in places}

\* delete the existing files; remove_file logs an error and goes on
Delete(p) ==
    /\ proc[p].at = "delete"
    /\ proc' = [proc EXCEPT ![p].at = "relist"]
    /\ LET all == Locations(Listed(proc[p].file))
       IN  \E places \in SUBSET all :
              /\ Removes(p, places)
              /\ IF places = all THEN UNCHANGED trouble ELSE Fault
    /\ UNCHANGED <<down, tables, objects, refresh, arrived>>

\* PostProcessingFailed: a file that cannot be looked at, before or after others
\* were deleted, or no directory for the show
DeleteFails(p) ==
    /\ proc[p].at = "delete"
    /\ Leaves(p)
    /\ \E places \in SUBSET Locations(Listed(proc[p].file)) : Removes(p, places)
    /\ Fault
    /\ UNCHANGED <<down, tables, objects, refresh, arrived>>

\* _change_ep_objs: _get_ep_obj again, and the status of those on the list
Relist(p) ==
    /\ \/ /\ proc[p].at = "relist" /\ Empties(proc[p].file)
          /\ proc' = [proc EXCEPT ![p].at = "fill"]
       \/ /\ proc[p].at = "fill" /\ Fills(proc[p].file)
          /\ proc' = [proc EXCEPT ![p].at = "change"]
    /\ UNCHANGED <<library, tables, ep, refresh, arrived, trouble, bare>>

\* in bare: those on the list that are not of the video
Change(p) ==
    /\ proc[p].at = "change"
    /\ LET f   == proc[p].file
           eps == Listed(f)
       IN  /\ ep' = [e \in Episodes |->
                       IF e \in eps THEN [status |-> "downloaded", quality |-> Quality[f],
                                          location |-> ep[e].location, release |-> f]
                       ELSE ep[e]]
           /\ proc' = [proc EXCEPT ![p].at = "save", ![p].rows = Dirty(eps)]
           /\ bare' = bare \cup (eps \ Of[f])
    /\ UNCHANGED <<library, tables, related, refresh, arrived, trouble>>

Save(p) ==
    /\ row' = Written(proc[p].rows)
    /\ bare' = bare \cup Late(proc[p].rows)
    /\ UNCHANGED <<library, objects, snatches, refresh, arrived, trouble>>

SaveChange(p) ==
    /\ proc[p].at = "save"
    /\ Save(p)
    /\ proc' = [proc EXCEPT ![p].at = "name", ![p].rows = NoRows]
    /\ UNCHANGED logged

\* proper_path names the episodes on the list
Name(p) ==
    /\ proc[p].at = "name"
    /\ LET f == proc[p].file
       IN  proc' = [proc EXCEPT ![p].at = "move", ![p].dest = Path[f][Listed(f)]]
    /\ UNCHANGED <<library, tables, objects, refresh, arrived, trouble, bare>>

\* what is in the place of a video after it was copied or moved there
Puts(p, what) ==
    /\ lib' = [lib EXCEPT ![proc[p].dest] = what]
    /\ down' = IF proc[p].call.method = "move" THEN down \ {proc[p].file} ELSE down
    /\ proc' = [proc EXCEPT ![p].at = "locate"]
    /\ UNCHANGED <<tables, objects, refresh, arrived, bare>>

Move(p) ==
    /\ proc[p].at = "move" /\ proc[p].file \in down
    /\ Puts(p, proc[p].file)
    /\ UNCHANGED trouble

\* copy_file ignores what cp returns, and move_file removes its source if
\* anything is in the place: a part of the file, or what was there before
MoveBreaks(p) ==
    /\ proc[p].at = "move" /\ proc[p].file \in down
    /\ Fault
    /\ \E what \in {Broken} \cup ({lib[proc[p].dest]} \ {NoFile}) : Puts(p, what)

\* a copy of a video that is gone is a success if anything is in its place
CopiesNothing(p) ==
    /\ proc[p].at = "move" /\ proc[p].file \notin down
    /\ proc[p].call.method = "copy" /\ lib[proc[p].dest] # NoFile
    /\ Puts(p, lib[proc[p].dest])
    /\ UNCHANGED trouble

\* PostProcessingFailed: no folder to put it in, or the move fails
MoveFails(p) ==
    /\ \/ /\ proc[p].at = "move" /\ proc[p].file \notin down
          /\ proc[p].call.method = "copy" => lib[proc[p].dest] = NoFile
          /\ UNCHANGED trouble
       \/ proc[p].at \in {"name", "move"} /\ Fault
    /\ bare' = bare \cup Of[proc[p].file]
    /\ Leaves(p)
    /\ UNCHANGED <<library, tables, objects, refresh, arrived>>

\* [mutant] only the first episode of the video
LocatedRoot(f) == {Root[f]}

\* those whose location is set
Located(f) == Listed(f)

\* in bare: those on the list that are not of the video, and the reverse
Locate(p) ==
    /\ proc[p].at = "locate"
    /\ LET f == proc[p].file
       IN  /\ ep' = [e \in Episodes |->
                       IF e \in Located(f) THEN [ep[e] EXCEPT !.location = proc[p].dest] ELSE ep[e]]
           /\ proc' = [proc EXCEPT ![p].at = "put", ![p].dest = NoPlace,
                                   ![p].rows = Dirty(Located(f))]
           /\ bare' = bare \cup (Listed(f) \ Of[f]) \cup (Of[f] \ Listed(f))
    /\ UNCHANGED <<library, tables, related, refresh, arrived, trouble>>

\* the row, then log_download
SaveLocation(p) ==
    /\ proc[p].at = "put"
    /\ Save(p)
    /\ logged' = logged \cup {proc[p].file}
    /\ proc' = [proc EXCEPT ![p].at = "batch", ![p].any = TRUE, ![p].rows = NoRows,
                            ![p].batch = @ \ {proc[p].file}, ![p].file = NoFile]

\* [mutant] whether or not a video was processed
TidiesAlways(p) == proc[p].call.tidy

\* the folder goes if this run has processed a video, of this folder or not
Tidies(p) == proc[p].call.tidy /\ proc[p].any

LeaveFolder(p) ==
    /\ proc[p].at = "batch" /\ proc[p].batch = {}
    /\ down' = IF Tidies(p) THEN {f \in down : Folder[f] # proc[p].dir} ELSE down
    /\ proc' = [proc EXCEPT ![p].at = "walk", ![p].dir = NoPlace]
    /\ UNCHANGED <<lib, tables, objects, refresh, arrived, trouble, bare>>

End(p) ==
    /\ proc[p].at = "walk" /\ proc[p].todo = {}
    /\ proc' = [proc EXCEPT ![p] = Idle(AnyCall(p))]
    /\ UNCHANGED <<library, tables, objects, refresh, arrived, trouble, bare>>

(***************************************************************************)
(* refresh_dir: load_episodes_from_dir, then the locations of the rows.    *)
(***************************************************************************)
RefreshBegin ==
    /\ refresh.at = "idle"
    /\ refresh.nth < MaxRefresh
    /\ refresh' = [refresh EXCEPT !.at = "find", !.nth = @ + 1,
                                  !.places = {place \in Places : lib[place] # NoFile}]
    /\ UNCHANGED <<library, tables, objects, proc, arrived, trouble, bare>>

\* ep_obj_from_file; the quality of a broken file cannot be told
RefreshFinds(place) ==
    /\ refresh.at = "find" /\ place \in refresh.places
    /\ LET what == lib[place]
           eps  == IF what = NoFile THEN {}
                   ELSE {e \in Named[place] : ep[e].status # "ignored"}
       IN  /\ ep' = [e \in Episodes |->
                       IF e \notin eps \/ ep[e].location = place THEN ep[e]
                       ELSE [location |-> place, release |-> NoFile,
                             status  |-> IF what = Broken THEN ep[e].status ELSE "downloaded",
                             quality |-> IF what = Broken THEN ep[e].quality ELSE Quality[what]]]
           /\ related' = [e \in Episodes |->
                            IF eps # {} /\ e = First[eps] THEN related[e] \cup (eps \ {e})
                            ELSE related[e]]
    /\ refresh' = [refresh EXCEPT !.at = "found", !.places = @ \ {place}, !.rows = Dirty(Episodes)]
    /\ UNCHANGED <<library, tables, proc, arrived, trouble, bare>>

RefreshSaves ==
    /\ \/ refresh.at = "found" /\ refresh' = [refresh EXCEPT !.at = "find", !.rows = NoRows]
       \/ refresh.at = "check" /\ refresh.seen = Resting(0).seen /\ refresh' = Resting(refresh.nth)
    /\ row' = Written(refresh.rows)
    /\ bare' = bare \cup Late(refresh.rows)
    /\ UNCHANGED <<library, objects, snatches, logged, proc, arrived, trouble>>

\* the rows with a location
RefreshReads ==
    /\ refresh.at = "find" /\ refresh.places = {}
    /\ refresh' = [refresh EXCEPT !.at = "check",
                                  !.seen = [e \in Episodes |-> row[e].location]]
    /\ UNCHANGED <<library, tables, objects, proc, arrived, trouble, bare>>

\* the location that was read is looked for, the one the episode has by now cleared
RefreshChecks(e) ==
    /\ refresh.at = "check" /\ refresh.seen[e] # NoPlace
    /\ ep' = IF lib[refresh.seen[e]] # NoFile THEN ep
             ELSE [ep EXCEPT ![e].status = IF @ = "downloaded" /\ ep[e].location # NoPlace
                                           THEN "ignored" ELSE @,
                             ![e].location = NoPlace, ![e].release = NoFile]
    /\ LET new == Dirty({e})
       IN  refresh' = [refresh EXCEPT
             !.seen[e] = NoPlace,
             !.rows[e] = IF new[e] # NoRow THEN new[e] ELSE @]
    /\ UNCHANGED <<library, tables, related, proc, arrived, trouble, bare>>

\* get_all_episodes, of a page, a renaming or the show's metadata, empties a list
\* and, where these are asked for, appends the episodes at the same place to it,
\* what others have put there since included
Relates(e) ==
    /\ \/ related' = [related EXCEPT ![e] = {}]
       \/ /\ ep[e].location # NoPlace
          /\ related' = [related EXCEPT ![e] =
                           @ \cup {x \in Episodes \ {e} : row[x].location = ep[e].location}]
    /\ UNCHANGED <<library, tables, ep, proc, refresh, arrived, trouble, bare>>

\* the process dies and starts; a file that was being written is left as it is
Crash ==
    /\ Fault
    /\ \E torn \in SUBSET {p \in Processors : proc[p].at = "move" /\ proc[p].file \in down} :
          lib' = [place \in Places |->
                    IF \E p \in torn : proc[p].dest = place THEN Broken ELSE lib[place]]
    /\ proc' = [p \in Processors |-> Idle(AnyCall(p))]
    /\ refresh' = Resting(refresh.nth)
    /\ ep' = row /\ related' = NoneRelated
    /\ bare' = bare \cup Given(refresh.rows) \cup
                {e \in Episodes : \E p \in Processors : Inside(p, e) \/ e \in Given(proc[p].rows)}
    /\ UNCHANGED <<down, tables, arrived>>

Works(p) ==
    \/ \E d \in Folders : Enter(p, d)
    \/ \E f \in Files : Skips(p, f) \/ Takes(p, f)
    \/ BatchSkipped(p) \/ Refuses(p) \/ Accepts(p)
    \/ Delete(p) \/ DeleteFails(p) \/ Relist(p) \/ Change(p) \/ SaveChange(p) \/ Name(p)
    \/ Move(p) \/ MoveBreaks(p) \/ CopiesNothing(p) \/ MoveFails(p)
    \/ Locate(p) \/ SaveLocation(p)
    \/ LeaveFolder(p) \/ End(p)

Refreshes ==
    \/ RefreshBegin \/ RefreshSaves \/ RefreshReads
    \/ \E place \in Places : RefreshFinds(place)
    \/ \E e \in Episodes : RefreshChecks(e)

Next ==
    \/ \E f \in Files : Arrive(f)
    \/ \E p \in Processors : (\E c \in Calls[p] : Begin(p, c)) \/ Works(p)
    \/ Refreshes
    \/ \E e \in Asked : Relates(e)
    \/ Crash

Spec == Init /\ [][Next]_vars

\* the scheduled processor starts over and over, and what runs goes on
FairSpec ==
    /\ Spec
    /\ \A p \in Processors :
          WF_vars(Works(p)) /\ WF_vars(\E c \in Calls[p] : Begin(p, c))

-----------------------------------------------------------------------------
(***************************************************************************)
(* Safety.                                                                 *)
(***************************************************************************)

Held(e)      == \E place \in Places : lib[place] \in Files /\ e \in Of[lib[place]]
Waiting(e)   == \E f \in down : e \in Of[f]
HasMedia(e)  == Held(e) \/ Waiting(e)

\* p writes over a video of e, because its own place, or that of the video there,
\* was named for a list that was not of the video
Overwrites(p, e) ==
    /\ proc[p].at = "move"
    /\ LET there == lib[proc[p].dest]
       IN  /\ there \in Files /\ e \in Of[there]
           /\ \/ Named[proc[p].dest] # Of[proc[p].file]
              \/ Named[proc[p].dest] # Of[there]

\* The last whole file of an episode, in the library or still in a download
\* folder, is not lost by deleting before moving, by a crash, a refresh or
\* another processor, but in four ways: a write that broke and counts as done;
\* a file deleted for another of its episodes, or whose replacement somebody
\* has taken meanwhile; a file that was written over since a list that another
\* thread had changed named its place or the new one's; a folder removed once
\* a video was processed.
LastFileStays ==
    [][\A e \in Episodes : HasMedia(e) /\ ~HasMedia(e)' =>
         \E p \in Processors :
            \/ /\ proc[p].at = "move" /\ proc'[p].at = "locate"
               /\ trouble' > trouble
            \/ /\ proc[p].at = "delete" /\ proc'[p].at \in {"relist", "batch"}
               /\ e \notin Of[proc[p].file] \/ proc[p].file \notin down
            \/ Overwrites(p, e)
            \/ /\ proc[p].at = "batch" /\ proc'[p].at = "walk"
               /\ proc[p].any /\ proc[p].call.tidy]_vars

\* An episode that counts as downloaded has a file where it says, but while a
\* processor replaces it and for the episodes in `bare': a deletion or move that
\* failed, a crash on the way or before a refresh saved its row, a file deleted
\* for another of its episodes or by another processor, a row written late or
\* reset from the history, and a list that another thread had changed when
\* status or location were set.
DownloadedHasFile ==
    \A e \in Episodes :
        ep[e].status = "downloaded" /\ At(ep[e].location) = NoFile =>
            e \in bare \/ \E p \in Processors : Inside(p, e)

(***************************************************************************)
(* Liveness.                                                               *)
(***************************************************************************)

Stuck(f) == /\ f \in down
            /\ ep[Root[f]].status = "downloaded"
            /\ At(ep[Root[f]].location) = NoFile

\* A video whose processing failed after its episode was said to be downloaded
\* is not passed over for good: a later run brings it, or its folder goes.
FailedMoveRecovers == \A f \in Files : Stuck(f) ~> ~Stuck(f)

\* processTV.py 499: "Delete all file not needed".  A folder is not removed with
\* the only file of an episode that is not ignored.
TidyingKeepsNeeded ==
    [][\A p \in Processors : proc[p].at = "batch" /\ proc[p].batch = {} /\ proc'[p].at = "walk" =>
         \A f \in down \ down' : \A e \in Of[f] : HasMedia(e)']_vars
=============================================================================
