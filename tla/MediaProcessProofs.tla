------------------------- MODULE MediaProcessProofs -------------------------
(***************************************************************************)
(* Theorems about post-processing: the type invariant, and that no last    *)
(* file of an episode is lost and no episode counts as downloaded without  *)
(* its file but in the ways that MediaProcess names, for any number of     *)
(* processors, videos, failures and crashes.                               *)
(***************************************************************************)
EXTENDS MediaProcess, TLAPS

\* A processor always has a call that it may be resting with.
LEMMA SomeCall == \A p \in Processors : AnyCall(p) \in Calls[p]
  BY ProcessAssumption, SMT DEF AnyCall

\* Every video has a first episode, and a list names it a place.
LEMMA FirstOfVideo ==
    ASSUME NEW f \in Files
    PROVE  /\ Of[f] \in (SUBSET Episodes) \ {{}} /\ Root[f] \in Of[f] /\ Root[f] \in Episodes
           /\ Folder[f] \in Folders /\ Quality[f] \in Nat
<1>1. Of[f] \in (SUBSET Episodes) \ {{}}
  BY ProcessAssumption
<1> QED
  BY <1>1, ProcessAssumption DEF Root

LEMMA ListedPlace ==
    ASSUME NEW f \in Files, related \in [Episodes -> SUBSET Episodes]
    PROVE  /\ Listed(f) \subseteq Episodes /\ Root[f] \in Listed(f)
           /\ Path[f][Listed(f)] \in Places /\ Named[Path[f][Listed(f)]] = Listed(f)
<1>1. Listed(f) \in (SUBSET Episodes) \ {{}} /\ Root[f] \in Listed(f)
  BY FirstOfVideo DEF Listed
<1>2. /\ Path[f] \in [(SUBSET Episodes) \ {{}} -> Places]
      /\ \A eps \in (SUBSET Episodes) \ {{}} : Named[Path[f][eps]] = eps
  BY ProcessAssumption
<1> QED
  BY <1>1, <1>2

LEMMA ListsTyped ==
    ASSUME NEW f \in Files, related \in [Episodes -> SUBSET Episodes], Empties(f) \/ Fills(f)
    PROVE  related' \in [Episodes -> SUBSET Episodes]
  BY FirstOfVideo DEF Empties, Fills

\* Rows that get_sql gives are rows.
LEMMA DirtyRows ==
    ASSUME ep' \in [Episodes -> Record], NEW eps
    PROVE  Dirty(eps) \in Rows /\ Given(Dirty(eps)) \subseteq eps
  BY DEF Dirty, Rows, Given

LEMMA NoneGiven == NoRows \in Rows /\ Given(NoRows) = {}
  BY DEF NoRows, Rows, Given

LEMMA WrittenRows ==
    ASSUME row \in [Episodes -> Record], NEW rows \in Rows
    PROVE  Written(rows) \in [Episodes -> Record]
  BY DEF Written, Rows

LEMMA FaultTyped ==
    ASSUME trouble \in 0..MaxTrouble, Fault
    PROVE  trouble' \in 0..MaxTrouble
  BY ProcessAssumption DEF Fault

\* What TypeOK says of processor p when its record is r.
Fits(p, r) ==
    /\ r.call \in Calls[p]
    /\ \A f \in r.batch : Folder[f] = r.dir
    /\ r.file \in IF r.at \in Steps THEN r.batch ELSE {NoFile}
    /\ r.dest \in IF r.at \in {"move", "locate"} THEN Places ELSE {NoPlace}
    /\ r.at \notin {"save", "put"} => Given(r.rows) = {}

ProcTyped(p) == Fits(p, proc[p])

\* A step of one processor leaves the others as they are.
LEMMA ProcessorStep ==
    ASSUME TypeOK, NEW p \in Processors, NEW r \in Processor, Fits(p, r),
           proc' = [proc EXCEPT ![p] = r]
    PROVE  proc' \in [Processors -> Processor] /\ \A q \in Processors : ProcTyped(q)'
<1>1. proc \in [Processors -> Processor] /\ \A q \in Processors : ProcTyped(q)
  BY DEF TypeOK, ProcTyped, Fits
<1>2. proc' \in [Processors -> Processor]
  BY <1>1
<1>3. proc'[p] = r /\ \A q \in Processors \ {p} : proc'[q] = proc[q]
  BY <1>1
<1> QED
  BY <1>1, <1>2, <1>3 DEF ProcTyped

\* The other variables of TypeOK.
OthersTyped ==
    /\ down \subseteq Files
    /\ lib \in [Places -> Files \cup {NoFile, Broken}]
    /\ related \in [Episodes -> SUBSET Episodes]
    /\ ep \in [Episodes -> Record] /\ row \in [Episodes -> Record]
    /\ snatches \subseteq Episodes
    /\ logged \subseteq Files
    /\ refresh \in Refresh
    /\ arrived \subseteq Files
    /\ trouble \in 0..MaxTrouble
    /\ bare \subseteq Episodes

LEMMA TypeParts ==
    /\ TypeOK <=> /\ OthersTyped /\ proc \in [Processors -> Processor]
                  /\ \A p \in Processors : ProcTyped(p)
    /\ TypeOK' <=> /\ OthersTyped' /\ proc' \in [Processors -> Processor]
                   /\ \A p \in Processors : ProcTyped(p)'
  BY DEF TypeOK, OthersTyped, ProcTyped, Fits

LEMMA InitTyped == Init => TypeOK
<1> SUFFICES ASSUME Init PROVE TypeOK
  OBVIOUS
<1>1. OthersTyped
  <2>1. ep \in [Episodes -> Record]
    BY ProcessAssumption DEF Init, Record
  <2>2. refresh \in Refresh
    BY ProcessAssumption, NoneGiven DEF Init, Resting, Refresh
  <2> QED
    BY <2>1, <2>2, ProcessAssumption DEF Init, OthersTyped, NoneRelated
<1>2. \A p \in Processors : proc[p] \in Processor /\ ProcTyped(p)
  BY SomeCall, NoneGiven DEF Init, Idle, Processor, ProcTyped, Fits, Steps
<1> QED
  BY <1>1, <1>2, TypeParts DEF Init

\* Walking through the folders.
LEMMA WalkTyped ==
    ASSUME TypeOK, NEW p \in Processors,
           \/ \E c \in Calls[p] : Begin(p, c)
           \/ \E d \in Folders : Enter(p, d)
           \/ BatchSkipped(p) \/ LeaveFolder(p) \/ End(p)
    PROVE  TypeOK'
<1> USE DEF Processor, Steps
<1>0. /\ OthersTyped /\ proc \in [Processors -> Processor] /\ ProcTyped(p)
      /\ proc[p] \in Processor
  BY TypeParts
<1>1. ASSUME NEW c \in Calls[p], Begin(p, c) PROVE TypeOK'
  <2> DEFINE r == [Idle(c) EXCEPT !.at = "walk", !.todo = c.folders]
  <2>1. r \in Processor /\ r.call = c /\ r.batch = {} /\ r.file = NoFile /\ r.at = "walk" /\ r.rows = NoRows /\ r.dest = NoPlace
    <3>1. c.folders \in SUBSET Folders /\ c \in UNION {Calls[q] : q \in Processors}
      BY <1>1, ProcessAssumption
    <3>2. NoRows \in Rows
      BY NoneGiven
    <3> QED BY <1>1, <3>1, <3>2 DEF Idle
  <2>2. proc' = [proc EXCEPT ![p] = r]
    BY <1>1 DEF Begin
  <2>3. proc' \in [Processors -> Processor] /\ \A q \in Processors : ProcTyped(q)'
    <3> HIDE DEF r
    <3>1. Fits(p, r) BY <2>1, NoneGiven DEF Fits
    <3> QED BY <2>1, <2>2, <3>1, ProcessorStep
  <2>4. OthersTyped'
    BY <1>0, <1>1 DEF Begin, OthersTyped, library, tables, objects
  <2> QED BY <2>3, <2>4, TypeParts
<1>2. ASSUME NEW d \in Folders, Enter(p, d) PROVE TypeOK'
  <2> DEFINE r == [proc[p] EXCEPT !.at = "batch", !.dir = d, !.todo = @ \ {d}, !.batch = VideosIn(d)]
  <2>1. /\ r \in Processor /\ r.call = proc[p].call /\ r.batch = VideosIn(d) /\ r.dir = d
        /\ r.file = proc[p].file /\ r.at = "batch" /\ r.rows = proc[p].rows
        /\ r.dest = proc[p].dest
    BY <1>0, <1>2 DEF VideosIn, OthersTyped
  <2>2. proc' = [proc EXCEPT ![p] = r]
    BY <1>0, <1>2 DEF Enter
  <2>3. proc' \in [Processors -> Processor] /\ \A q \in Processors : ProcTyped(q)'
    <3>1. proc[p].at = "walk" /\ \A f \in VideosIn(d) : Folder[f] = d
      BY <1>2 DEF Enter, VideosIn
    <3> HIDE DEF r
    <3>2. Fits(p, r) BY <1>0, <2>1, <3>1 DEF Fits, ProcTyped
    <3> QED BY <2>1, <2>2, <3>2, ProcessorStep
  <2>4. OthersTyped'
    BY <1>0, <1>2 DEF Enter, OthersTyped, library, tables, objects
  <2> QED BY <2>3, <2>4, TypeParts
<1>3. ASSUME BatchSkipped(p) PROVE TypeOK'
  <2> DEFINE r == [proc[p] EXCEPT !.batch = {}]
  <2>1. /\ r \in Processor /\ r.call = proc[p].call /\ r.batch = {}
        /\ r.file = proc[p].file /\ r.at = "batch" /\ r.rows = proc[p].rows
        /\ r.dest = proc[p].dest
    BY <1>0, <1>3 DEF BatchSkipped
  <2>2. proc' = [proc EXCEPT ![p] = r]
    BY <1>0, <1>3 DEF BatchSkipped
  <2>3. proc' \in [Processors -> Processor] /\ \A q \in Processors : ProcTyped(q)'
    <3>1. proc[p].at = "batch"
      BY <1>3 DEF BatchSkipped
    <3> HIDE DEF r
    <3>2. Fits(p, r) BY <1>0, <2>1, <3>1 DEF Fits, ProcTyped
    <3> QED BY <2>1, <2>2, <3>2, ProcessorStep
  <2>4. OthersTyped'
    BY <1>0, <1>3 DEF BatchSkipped, OthersTyped, library, tables, objects
  <2> QED BY <2>3, <2>4, TypeParts
<1>4. ASSUME LeaveFolder(p) PROVE TypeOK'
  <2> DEFINE r == [proc[p] EXCEPT !.at = "walk", !.dir = NoPlace]
  <2>1. /\ r \in Processor /\ r.call = proc[p].call /\ r.batch = {}
        /\ r.file = proc[p].file /\ r.at = "walk" /\ r.rows = proc[p].rows
        /\ r.dest = proc[p].dest
    BY <1>0, <1>4 DEF LeaveFolder
  <2>2. proc' = [proc EXCEPT ![p] = r]
    BY <1>0, <1>4 DEF LeaveFolder
  <2>3. proc' \in [Processors -> Processor] /\ \A q \in Processors : ProcTyped(q)'
    <3>1. proc[p].at = "batch"
      BY <1>4 DEF LeaveFolder
    <3> HIDE DEF r
    <3>2. Fits(p, r) BY <1>0, <2>1, <3>1 DEF Fits, ProcTyped
    <3> QED BY <2>1, <2>2, <3>2, ProcessorStep
  <2>4. OthersTyped'
    BY <1>0, <1>4 DEF LeaveFolder, OthersTyped, tables, objects
  <2> QED BY <2>3, <2>4, TypeParts
<1>5. ASSUME End(p) PROVE TypeOK'
  <2> DEFINE r == Idle(AnyCall(p))
  <2>1. r \in Processor /\ r.call = AnyCall(p) /\ r.batch = {} /\ r.file = NoFile /\ r.at = "idle" /\ r.rows = NoRows /\ r.dest = NoPlace
    BY <1>5, SomeCall, NoneGiven DEF Idle
  <2>2. proc' = [proc EXCEPT ![p] = r]
    BY <1>5 DEF End
  <2>3. proc' \in [Processors -> Processor] /\ \A q \in Processors : ProcTyped(q)'
    <3> HIDE DEF r
    <3>1. Fits(p, r) BY <2>1, SomeCall, NoneGiven DEF Fits
    <3> QED BY <2>1, <2>2, <3>1, ProcessorStep
  <2>4. OthersTyped'
    BY <1>0, <1>5 DEF End, OthersTyped, library, tables, objects
  <2> QED BY <2>3, <2>4, TypeParts
<1> QED
  BY <1>1, <1>2, <1>3, <1>4, <1>5

\* Looking at a video.
LEMMA PickTyped ==
    ASSUME TypeOK, NEW p \in Processors, NEW f \in Files, Skips(p, f) \/ Takes(p, f)
    PROVE  TypeOK'
<1> USE DEF Processor, Steps
<1>0. /\ OthersTyped /\ proc \in [Processors -> Processor] /\ ProcTyped(p)
      /\ proc[p] \in Processor
  BY TypeParts
<1>1. proc[p].at = "batch" /\ f \in proc[p].batch
  BY DEF Skips, Takes, Picks
<1>3. ASSUME Skips(p, f) PROVE TypeOK'
  <2> DEFINE r == [proc[p] EXCEPT !.batch = @ \ {f}]
  <2>1. /\ r \in Processor /\ r.call = proc[p].call /\ r.batch = proc[p].batch \ {f}
        /\ r.dir = proc[p].dir /\ r.dest = proc[p].dest
        /\ r.file = proc[p].file /\ r.at = "batch" /\ r.rows = proc[p].rows
    BY <1>0, <1>1
  <2>2. proc' = [proc EXCEPT ![p] = r]
    BY <1>0, <1>3 DEF Skips
  <2>3. proc' \in [Processors -> Processor] /\ \A q \in Processors : ProcTyped(q)'
    <3> HIDE DEF r
    <3>1. Fits(p, r) BY <1>0, <1>1, <2>1 DEF Fits, ProcTyped
    <3> QED BY <2>1, <2>2, <3>1, ProcessorStep
  <2>4. row' \in [Episodes -> Record] /\ bare' \subseteq Episodes
    <3>1. CASE UNCHANGED <<row, bare>>
      BY <1>0, <3>1 DEF OthersTyped
    <3>2. ASSUME NEW x \in LastActions(Root[f]), row' = [row EXCEPT ![Root[f]].status = x],
                 bare' = bare \cup (IF row[Root[f]].status = x THEN {} ELSE {Root[f]})
          PROVE  row' \in [Episodes -> Record] /\ bare' \subseteq Episodes
      <4>1. Root[f] \in Episodes /\ x \in {"snatched", "downloaded"}
        BY <3>2, FirstOfVideo DEF LastActions
      <4>2. row[Root[f]] \in Record /\ row \in [Episodes -> Record] /\ bare \subseteq Episodes
        BY <1>0, <4>1 DEF OthersTyped
      <4>3. [row[Root[f]] EXCEPT !.status = x] \in Record
        BY <4>1, <4>2 DEF Record
      <4>4. row' \in [Episodes -> Record]
        BY <3>2, <4>1, <4>2, <4>3
      <4> QED BY <3>2, <4>1, <4>2, <4>4
    <3> QED BY <1>3, <3>1, <3>2 DEF Skips
  <2>5. OthersTyped'
    <3>1. UNCHANGED <<down, lib, related, ep, snatches, logged, refresh, arrived, trouble>>
      BY <1>3 DEF Skips, library, objects
    <3> QED BY <1>0, <2>4, <3>1 DEF OthersTyped
  <2> QED BY <2>3, <2>5, TypeParts
<1>4. ASSUME Takes(p, f) PROVE TypeOK'
  <2> DEFINE r == [proc[p] EXCEPT !.at = "judge", !.file = f]
  <2>1. /\ r \in Processor /\ r.call = proc[p].call /\ r.batch = proc[p].batch
        /\ r.dir = proc[p].dir /\ r.dest = proc[p].dest
        /\ r.file = f /\ r.at = "judge" /\ r.rows = proc[p].rows
    BY <1>0
  <2>2. proc' = [proc EXCEPT ![p] = r]
    BY <1>0, <1>4 DEF Takes
  <2>3. proc' \in [Processors -> Processor] /\ \A q \in Processors : ProcTyped(q)'
    <3> HIDE DEF r
    <3>1. Fits(p, r) BY <1>0, <1>1, <2>1 DEF Fits, ProcTyped
    <3> QED BY <2>1, <2>2, <3>1, ProcessorStep
  <2>4. related' \in [Episodes -> SUBSET Episodes]
    BY <1>0, <1>4, ListsTyped DEF Takes, OthersTyped
  <2>5. OthersTyped'
    BY <1>0, <1>4, <2>4 DEF Takes, OthersTyped, library, tables
  <2> QED BY <2>3, <2>5, TypeParts
<1> QED
  BY <1>3, <1>4

\* A processor that leaves process() is one that looks at its batch.
LEMMA LeavesTyped ==
    ASSUME TypeOK, NEW p \in Processors, proc[p].at \in Steps \ {"save", "put"}, Leaves(p)
    PROVE  proc' \in [Processors -> Processor] /\ \A q \in Processors : ProcTyped(q)'
<1> USE DEF Processor, Steps
<1>0. proc \in [Processors -> Processor] /\ ProcTyped(p) /\ proc[p] \in Processor
  BY TypeParts
<1> DEFINE r == [proc[p] EXCEPT !.at = "batch", !.batch = @ \ {proc[p].file},
                                !.file = NoFile, !.dest = NoPlace]
<1>1. /\ r \in Processor /\ r.call = proc[p].call /\ r.batch = proc[p].batch \ {proc[p].file}
      /\ r.dir = proc[p].dir /\ r.dest = NoPlace
      /\ r.file = NoFile /\ r.at = "batch" /\ r.rows = proc[p].rows
  BY <1>0
<1>2. proc' = [proc EXCEPT ![p] = r]
  BY <1>0 DEF Leaves
<1> HIDE DEF r
<1>3. Fits(p, r) BY <1>0, <1>1 DEF Fits, ProcTyped
<1> QED BY <1>1, <1>2, <1>3, ProcessorStep

\* A processor goes on to another step inside process(), with its video.
LEMMA GoesOnTyped ==
    ASSUME TypeOK, NEW p \in Processors, proc[p].at \in Steps,
           NEW at \in Steps, NEW dest \in IF at \in {"move", "locate"} THEN Places ELSE {NoPlace},
           NEW rows \in Rows, at \notin {"save", "put"} => Given(rows) = {},
           proc' = [proc EXCEPT ![p] = [proc[p] EXCEPT !.at = at, !.dest = dest, !.rows = rows]]
    PROVE  proc' \in [Processors -> Processor] /\ \A q \in Processors : ProcTyped(q)'
<1> USE DEF Processor
<1>0. proc \in [Processors -> Processor] /\ ProcTyped(p) /\ proc[p] \in Processor
  BY TypeParts
<1> DEFINE r == [proc[p] EXCEPT !.at = at, !.dest = dest, !.rows = rows]
<1>1. /\ r \in Processor /\ r.call = proc[p].call /\ r.batch = proc[p].batch
      /\ r.dir = proc[p].dir /\ r.dest = dest
      /\ r.file = proc[p].file /\ r.at = at /\ r.rows = rows
  BY <1>0 DEF Steps
<1>2. proc' = [proc EXCEPT ![p] = r]
  OBVIOUS
<1> HIDE DEF r
<1>3. Fits(p, r) BY <1>0, <1>1 DEF Fits, ProcTyped
<1> QED BY <1>1, <1>2, <1>3, ProcessorStep

\* What a processor inside process() holds.
LEMMA InsideTyped ==
    ASSUME TypeOK, NEW p \in Processors, proc[p].at \in Steps
    PROVE  /\ OthersTyped /\ proc \in [Processors -> Processor] /\ proc[p] \in Processor
           /\ proc[p].file \in Files /\ proc[p].file \in proc[p].batch /\ proc[p].rows \in Rows
           /\ proc[p].dest \in IF proc[p].at \in {"move", "locate"} THEN Places ELSE {NoPlace}
           /\ proc[p].at \notin {"save", "put"} => Given(proc[p].rows) = {}
<1>1. OthersTyped /\ proc \in [Processors -> Processor] /\ ProcTyped(p) /\ proc[p] \in Processor
  BY TypeParts
<1>2. proc[p].batch \subseteq Files /\ proc[p].rows \in Rows
  BY <1>1 DEF Processor
<1> QED
  BY <1>1, <1>2 DEF ProcTyped, Fits

\* Judging a video and the replacement of the files.
LEMMA JudgeTyped ==
    ASSUME TypeOK, NEW p \in Processors,
           Refuses(p) \/ Accepts(p) \/ Delete(p) \/ DeleteFails(p) \/ Relist(p)
    PROVE  TypeOK'
<1> DEFINE f == proc[p].file
<1>0. proc[p].at \in {"judge", "delete", "relist", "fill"}
  BY DEF Refuses, Accepts, Delete, DeleteFails, Relist
<1>1. /\ OthersTyped /\ proc \in [Processors -> Processor] /\ proc[p] \in Processor
      /\ f \in Files /\ proc[p].rows \in Rows /\ Given(proc[p].rows) = {} /\ proc[p].dest = NoPlace
  BY <1>0, InsideTyped DEF Steps
<1>2. ASSUME NEW at \in {"delete", "relist", "fill", "change"}, proc' = [proc EXCEPT ![p].at = at]
      PROVE  proc' \in [Processors -> Processor] /\ \A q \in Processors : ProcTyped(q)'
  <2>1. proc' = [proc EXCEPT ![p] = [proc[p] EXCEPT !.at = at, !.dest = NoPlace, !.rows = proc[p].rows]]
    BY <1>1, <1>2 DEF Processor
  <2> QED BY <1>0, <1>1, <2>1, GoesOnTyped DEF Steps
<1>3. CASE Refuses(p)
  <2>1. related' \in [Episodes -> SUBSET Episodes]
    BY <1>1, <1>3, ListsTyped DEF Refuses, OthersTyped
  <2>2. OthersTyped'
    BY <1>1, <1>3, <2>1 DEF Refuses, OthersTyped, library, tables
  <2> QED BY <1>0, <1>3, <2>2, LeavesTyped, TypeParts DEF Refuses, Steps
<1>4. CASE Accepts(p)
  <2>1. related' \in [Episodes -> SUBSET Episodes]
    BY <1>1, <1>4, ListsTyped DEF Accepts, OthersTyped
  <2>2. OthersTyped'
    BY <1>1, <1>4, <2>1 DEF Accepts, OthersTyped, library, tables
  <2> QED BY <1>2, <1>4, <2>2, TypeParts DEF Accepts
<1>5. CASE Relist(p)
  <2>1. related' \in [Episodes -> SUBSET Episodes]
    BY <1>1, <1>5, ListsTyped DEF Relist, OthersTyped
  <2>2. OthersTyped'
    BY <1>1, <1>5, <2>1 DEF Relist, OthersTyped, library, tables
  <2>3. proc' = [proc EXCEPT ![p].at = "fill"] \/ proc' = [proc EXCEPT ![p].at = "change"]
    BY <1>5 DEF Relist
  <2> QED BY <1>2, <2>2, <2>3, TypeParts
<1>6. ASSUME NEW places, Removes(p, places) PROVE lib' \in [Places -> Files \cup {NoFile, Broken}] /\ bare' \subseteq Episodes
  BY <1>1, <1>6 DEF Removes, OthersTyped
<1>7. ASSUME NEW places, Removes(p, places), trouble' = trouble \/ Fault,
             UNCHANGED <<down, tables, objects, refresh, arrived>>
      PROVE  OthersTyped'
  <2>1. trouble' \in 0..MaxTrouble
    BY <1>1, <1>7, FaultTyped DEF OthersTyped
  <2>2. UNCHANGED <<down, row, snatches, logged, ep, related, refresh, arrived>>
    BY <1>7 DEF tables, objects
  <2> QED BY <1>1, <1>6, <1>7, <2>1, <2>2 DEF OthersTyped
<1>8. CASE Delete(p)
  <2>1. OthersTyped'
    BY <1>7, <1>8 DEF Delete
  <2> QED BY <1>2, <1>8, <2>1, TypeParts DEF Delete
<1>9. CASE DeleteFails(p)
  <2>1. OthersTyped'
    BY <1>7, <1>9 DEF DeleteFails
  <2> QED BY <1>0, <1>9, <2>1, LeavesTyped, TypeParts DEF DeleteFails, Steps
<1> QED
  BY <1>3, <1>4, <1>5, <1>8, <1>9

\* Saying what is downloaded, and where the video goes.
LEMMA ChangeTyped ==
    ASSUME TypeOK, NEW p \in Processors, Change(p) \/ SaveChange(p) \/ Name(p)
    PROVE  TypeOK'
<1> DEFINE f == proc[p].file
<1>0. proc[p].at \in {"change", "save", "name"}
  BY DEF Change, SaveChange, Name
<1>1. /\ OthersTyped /\ proc \in [Processors -> Processor] /\ proc[p] \in Processor
      /\ f \in Files /\ proc[p].rows \in Rows /\ proc[p].dest = NoPlace
      /\ related \in [Episodes -> SUBSET Episodes]
      /\ proc[p].at # "save" => Given(proc[p].rows) = {}
  BY <1>0, InsideTyped DEF Steps, OthersTyped
<1>2. /\ Listed(f) \subseteq Episodes /\ Path[f][Listed(f)] \in Places /\ Quality[f] \in Nat
      /\ Of[f] \subseteq Episodes
  BY <1>1, ListedPlace, FirstOfVideo
<1>3. CASE Change(p)
  <2>1. ep' \in [Episodes -> Record]
    <3>1. \A e \in Episodes : ep[e] \in Record /\ ep[e].location \in Places \cup {NoPlace}
      BY <1>1 DEF OthersTyped, Record
    <3> HIDE DEF f
    <3>2. \A e \in Episodes : [status |-> "downloaded", quality |-> Quality[f],
                               location |-> ep[e].location, release |-> f] \in Record
      BY <1>1, <1>2, <3>1 DEF Record
    <3>3. ep' = [e \in Episodes |-> IF e \in Listed(f)
                    THEN [status |-> "downloaded", quality |-> Quality[f],
                          location |-> ep[e].location, release |-> f] ELSE ep[e]]
      BY <1>3 DEF Change, f
    <3> QED BY <3>1, <3>2, <3>3
  <2> DEFINE d == Dirty(Listed(f))
  <2>2. d \in Rows
    BY <2>1, DirtyRows
  <2>3. proc' = [proc EXCEPT ![p] = [proc[p] EXCEPT !.at = "save", !.dest = NoPlace, !.rows = d]]
    BY <1>1, <1>3 DEF Change, Processor
  <2>4. proc' \in [Processors -> Processor] /\ \A q \in Processors : ProcTyped(q)'
    <3> HIDE DEF d
    <3> QED BY <1>0, <2>2, <2>3, GoesOnTyped DEF Steps
  <2>5. bare' \subseteq Episodes
    BY <1>1, <1>2, <1>3 DEF Change, OthersTyped
  <2>6. OthersTyped'
    BY <1>1, <1>3, <2>1, <2>5 DEF Change, OthersTyped, library, tables
  <2> QED BY <2>4, <2>6, TypeParts
<1>4. CASE SaveChange(p)
  <2>1. row' \in [Episodes -> Record] /\ bare' \subseteq Episodes
    BY <1>1, <1>4, WrittenRows DEF SaveChange, Save, OthersTyped, Late, Given
  <2>2. proc' = [proc EXCEPT ![p] = [proc[p] EXCEPT !.at = "name", !.dest = NoPlace, !.rows = NoRows]]
    BY <1>1, <1>4 DEF SaveChange, Processor
  <2>3. proc' \in [Processors -> Processor] /\ \A q \in Processors : ProcTyped(q)'
    BY <1>0, <2>2, GoesOnTyped, NoneGiven DEF Steps
  <2>4. OthersTyped'
    BY <1>1, <1>4, <2>1 DEF SaveChange, Save, OthersTyped, library, objects
  <2> QED BY <2>3, <2>4, TypeParts
<1>5. CASE Name(p)
  <2> DEFINE d == Path[f][Listed(f)]
  <2>1. proc' = [proc EXCEPT ![p] = [proc[p] EXCEPT !.at = "move", !.dest = d, !.rows = proc[p].rows]]
    BY <1>1, <1>5 DEF Name, Processor
  <2>2. d \in Places /\ Given(proc[p].rows) = {}
    BY <1>1, <1>2, <1>5 DEF Name
  <2>3. proc' \in [Processors -> Processor] /\ \A q \in Processors : ProcTyped(q)'
    <3> HIDE DEF d
    <3> QED BY <1>0, <1>1, <2>1, <2>2, GoesOnTyped DEF Steps
  <2>4. OthersTyped'
    BY <1>1, <1>5 DEF Name, OthersTyped, library, tables, objects
  <2> QED BY <2>3, <2>4, TypeParts
<1> QED
  BY <1>3, <1>4, <1>5

\* Moving the video.
LEMMA MoveTyped ==
    ASSUME TypeOK, NEW p \in Processors,
           \/ Move(p) \/ MoveBreaks(p) \/ CopiesNothing(p) \/ MoveFails(p)
    PROVE  TypeOK'
<1>0. proc[p].at \in {"name", "move"}
  BY DEF Move, MoveBreaks, CopiesNothing, MoveFails
<1>1. /\ OthersTyped /\ proc \in [Processors -> Processor] /\ proc[p] \in Processor
      /\ proc[p].file \in Files /\ proc[p].rows \in Rows /\ Given(proc[p].rows) = {}
      /\ proc[p].at = "move" => proc[p].dest \in Places
  BY <1>0, InsideTyped DEF Steps
<1>2. trouble' \in 0..MaxTrouble
  <2>1. trouble' = trouble \/ Fault
    BY DEF Move, MoveBreaks, CopiesNothing, MoveFails
  <2> QED BY <1>1, <2>1, FaultTyped DEF OthersTyped
<1>3. ASSUME NEW what \in Files \cup {NoFile, Broken}, Puts(p, what), proc[p].at = "move" PROVE TypeOK'
  <2>1. proc' = [proc EXCEPT ![p] = [proc[p] EXCEPT !.at = "locate", !.dest = proc[p].dest,
                                                    !.rows = proc[p].rows]]
    BY <1>1, <1>3 DEF Puts, Processor
  <2>2. proc' \in [Processors -> Processor] /\ \A q \in Processors : ProcTyped(q)'
    BY <1>0, <1>1, <1>3, <2>1, GoesOnTyped DEF Steps
  <2>3. lib' \in [Places -> Files \cup {NoFile, Broken}] /\ down' \subseteq Files
    BY <1>1, <1>3 DEF Puts, OthersTyped
  <2>4. UNCHANGED <<ep, related, row, snatches, logged, refresh, arrived, bare>>
    BY <1>3 DEF Puts, tables, objects
  <2>5. OthersTyped'
    BY <1>1, <1>2, <2>3, <2>4 DEF OthersTyped
  <2> QED BY <2>2, <2>5, TypeParts
<1>4. ASSUME MoveFails(p) PROVE TypeOK'
  <2>3. bare' \subseteq Episodes
    BY <1>1, <1>4, FirstOfVideo DEF MoveFails, OthersTyped
  <2>4. UNCHANGED <<down, lib, ep, related, row, snatches, logged, refresh, arrived>>
    BY <1>4 DEF MoveFails, tables, library, objects
  <2>5. OthersTyped'
    BY <1>1, <1>2, <2>3, <2>4 DEF OthersTyped
  <2> QED BY <1>0, <1>4, <2>5, LeavesTyped, TypeParts DEF MoveFails, Steps
<1>5. proc[p].at = "move" => lib[proc[p].dest] \in Files \cup {NoFile, Broken}
  BY <1>1 DEF OthersTyped
<1>6. CASE Move(p)
  BY <1>1, <1>3, <1>6 DEF Move
<1>7. CASE MoveBreaks(p)
  BY <1>3, <1>5, <1>7 DEF MoveBreaks
<1>8. CASE CopiesNothing(p)
  BY <1>3, <1>5, <1>8 DEF CopiesNothing
<1> QED
  BY <1>4, <1>6, <1>7, <1>8

\* The new location.
LEMMA LocateTyped ==
    ASSUME TypeOK, NEW p \in Processors, Locate(p) \/ SaveLocation(p)
    PROVE  TypeOK'
<1> DEFINE f == proc[p].file
<1>0. proc[p].at \in {"locate", "put"}
  BY DEF Locate, SaveLocation
<1>1. /\ OthersTyped /\ proc \in [Processors -> Processor] /\ proc[p] \in Processor
      /\ f \in Files /\ f \in proc[p].batch /\ proc[p].rows \in Rows
      /\ related \in [Episodes -> SUBSET Episodes]
      /\ proc[p].at = "locate" => proc[p].dest \in Places
  BY <1>0, InsideTyped DEF Steps, OthersTyped
<1>2. ASSUME Locate(p) PROVE TypeOK'
  <2>1. ep' \in [Episodes -> Record]
    <3>1. proc[p].dest \in Places
      BY <1>1, <1>2 DEF Locate
    <3>2. \A e \in Episodes : ep[e] \in Record /\ [ep[e] EXCEPT !.location = proc[p].dest] \in Record
      BY <1>1, <3>1 DEF Record, OthersTyped
    <3> QED BY <1>2, <3>2 DEF Locate
  <2> DEFINE d == Dirty(Located(f))
  <2>2. d \in Rows
    BY <2>1, DirtyRows
  <2>3. proc' = [proc EXCEPT ![p] = [proc[p] EXCEPT !.at = "put", !.dest = NoPlace, !.rows = d]]
    BY <1>1, <1>2 DEF Locate, Processor
  <2>4. proc' \in [Processors -> Processor] /\ \A q \in Processors : ProcTyped(q)'
    <3> HIDE DEF d
    <3> QED BY <1>0, <2>2, <2>3, GoesOnTyped DEF Steps
  <2>5. bare' \subseteq Episodes
    BY <1>1, <1>2, ListedPlace, FirstOfVideo DEF Locate, OthersTyped
  <2>6. OthersTyped'
    BY <1>1, <1>2, <2>1, <2>5 DEF Locate, OthersTyped, tables, library
  <2> QED BY <2>4, <2>6, TypeParts
<1>3. ASSUME SaveLocation(p) PROVE TypeOK'
  <2>1. /\ row' \in [Episodes -> Record] /\ bare' \subseteq Episodes
        /\ logged' \subseteq Files
    BY <1>1, <1>3, WrittenRows DEF SaveLocation, Save, OthersTyped, Late, Given
  <2> DEFINE r == [proc[p] EXCEPT !.at = "batch", !.any = TRUE, !.rows = NoRows,
                                  !.batch = @ \ {proc[p].file}, !.file = NoFile]
  <2>2. proc' = [proc EXCEPT ![p] = r]
    BY <1>1, <1>3 DEF SaveLocation
  <2>3. proc' \in [Processors -> Processor] /\ \A q \in Processors : ProcTyped(q)'
    <3>1. /\ r \in Processor /\ r.call = proc[p].call /\ r.batch = proc[p].batch \ {proc[p].file}
          /\ r.dir = proc[p].dir /\ r.dest = proc[p].dest
          /\ r.file = NoFile /\ r.at = "batch" /\ r.rows = NoRows
      BY <1>1, NoneGiven DEF Processor
    <3>2. proc[p].dest = NoPlace /\ ProcTyped(p)
      BY <1>3, TypeParts, InsideTyped DEF SaveLocation, Steps
    <3> HIDE DEF r
    <3>3. Fits(p, r) BY <1>0, <3>1, <3>2, NoneGiven DEF Fits, ProcTyped, Steps
    <3> QED BY <2>2, <3>1, <3>3, ProcessorStep
  <2>4. UNCHANGED <<down, lib, related, ep, snatches, refresh, arrived, trouble>>
    BY <1>3 DEF SaveLocation, Save, library, objects
  <2>5. OthersTyped'
    BY <1>1, <2>1, <2>4 DEF OthersTyped
  <2> QED BY <2>3, <2>5, TypeParts
<1> QED
  BY <1>2, <1>3

\* Arrivals and crashes.
LEMMA OutsideTyped ==
    ASSUME TypeOK, Crash \/ (\E f \in Files : Arrive(f)) \/ \E e \in Asked : Relates(e)
    PROVE  TypeOK'
<1>0. /\ OthersTyped /\ proc \in [Processors -> Processor]
      /\ \A p \in Processors : ProcTyped(p)
  BY TypeParts
<1>1. ASSUME NEW f \in Files, Arrive(f) PROVE TypeOK'
  <2>1. ep' \in [Episodes -> Record]
    <3>1. \A e \in Episodes : ep[e] \in Record /\ [ep[e] EXCEPT !.status = "snatched"] \in Record
      <4>1. \A e \in Episodes : ep[e] \in Record
        BY <1>0 DEF OthersTyped
      <4> QED BY <4>1 DEF Record
    <3>2. CASE f \in Snatched
      BY <1>1, <3>1, <3>2 DEF Arrive
    <3>3. CASE f \notin Snatched
      BY <1>0, <1>1, <3>3 DEF Arrive, OthersTyped
    <3> QED BY <3>2, <3>3
  <2>2. row' \in [Episodes -> Record] /\ snatches' \subseteq Episodes
    <3>1. CASE f \in Snatched
      <4>1. row' = Written(Dirty(Of[f])) /\ snatches' = snatches \cup Of[f]
        BY <1>1, <3>1 DEF Arrive
      <4> QED BY <1>0, <2>1, <4>1, DirtyRows, WrittenRows, FirstOfVideo DEF OthersTyped
    <3>2. CASE f \notin Snatched
      BY <1>0, <1>1, <3>2 DEF Arrive, OthersTyped
    <3> QED BY <3>1, <3>2
  <2>3. /\ UNCHANGED <<lib, related, logged, proc, refresh, trouble, bare>>
        /\ down' \subseteq Files /\ arrived' \subseteq Files
    BY <1>0, <1>1 DEF Arrive, OthersTyped
  <2>4. OthersTyped' /\ \A p \in Processors : ProcTyped(p)'
    BY <1>0, <2>1, <2>2, <2>3 DEF OthersTyped, ProcTyped
  <2> QED BY <1>0, <2>3, <2>4, TypeParts
<1>2. ASSUME Crash PROVE TypeOK'
  <2>1. /\ proc' \in [Processors -> Processor] /\ \A p \in Processors : ProcTyped(p)'
    <3> DEFINE i(p) == Idle(AnyCall(p))
    <3>1. \A p \in Processors : i(p) \in Processor /\ Fits(p, i(p))
      BY SomeCall, NoneGiven DEF Idle, Processor, Steps, Fits
    <3>2. proc' = [p \in Processors |-> i(p)]
      BY <1>2 DEF Crash
    <3> HIDE DEF i
    <3> QED BY <3>1, <3>2 DEF ProcTyped
  <2>2. refresh' \in Refresh
    <3>1. refresh.nth \in 0..MaxRefresh
      BY <1>0 DEF OthersTyped, Refresh
    <3> QED BY <1>2, <3>1, NoneGiven DEF Crash, Resting, Refresh
  <2>3. lib' \in [Places -> Files \cup {NoFile, Broken}]
    BY <1>0, <1>2 DEF Crash, OthersTyped
  <2>4. trouble' \in 0..MaxTrouble
    BY <1>0, <1>2, FaultTyped DEF Crash, OthersTyped
  <2>5. bare' \subseteq Episodes
    BY <1>0, <1>2 DEF Crash, OthersTyped, Given
  <2>6. ep' = row /\ UNCHANGED <<down, row, snatches, logged, arrived>>
    BY <1>2 DEF Crash, tables
  <2>7. related' \in [Episodes -> SUBSET Episodes]
    BY <1>2 DEF Crash, NoneRelated
  <2>8. OthersTyped'
    BY <1>0, <2>2, <2>3, <2>4, <2>5, <2>6, <2>7 DEF OthersTyped
  <2> QED BY <2>1, <2>8, TypeParts
<1>3. ASSUME NEW e \in Asked, Relates(e) PROVE TypeOK'
  <2>1. related' \in [Episodes -> SUBSET Episodes]
    BY <1>0, <1>3 DEF Relates, OthersTyped
  <2>2. OthersTyped' /\ UNCHANGED proc
    BY <1>0, <1>3, <2>1 DEF Relates, OthersTyped, library, tables
  <2> QED BY <1>0, <2>2, TypeParts DEF ProcTyped
<1> QED
  BY <1>1, <1>2, <1>3

\* The refresh of the show.
LEMMA RefreshTyped ==
    ASSUME TypeOK, Refreshes PROVE TypeOK'
<1>0. /\ OthersTyped /\ proc \in [Processors -> Processor]
      /\ \A p \in Processors : ProcTyped(p)
      /\ refresh \in Refresh
  BY TypeParts DEF OthersTyped
<1>1. UNCHANGED <<down, lib, snatches, logged, proc, arrived, trouble>>
  BY DEF Refreshes, RefreshBegin, RefreshSaves, RefreshReads, RefreshFinds, RefreshChecks,
         library, tables
<1>2. ASSUME ep' \in [Episodes -> Record], row' \in [Episodes -> Record],
             related' \in [Episodes -> SUBSET Episodes], refresh' \in Refresh,
             bare' \subseteq Episodes
      PROVE  TypeOK'
  <2>1. OthersTyped' /\ \A p \in Processors : ProcTyped(p)'
    BY <1>0, <1>1, <1>2 DEF OthersTyped, ProcTyped
  <2> QED BY <1>0, <1>1, <2>1, TypeParts
<1>3. CASE RefreshBegin
  <2>1. refresh' \in Refresh
    <3>1. refresh.nth + 1 \in 0..MaxRefresh
      BY <1>0, <1>3, ProcessAssumption DEF RefreshBegin, Refresh
    <3> DEFINE there == {place \in Places : lib[place] # NoFile}
    <3>2. refresh' = [refresh EXCEPT !.at = "find", !.nth = @ + 1, !.places = there]
      BY <1>3 DEF RefreshBegin
    <3>3. there \subseteq Places
      OBVIOUS
    <3> HIDE DEF there
    <3> QED BY <1>0, <3>1, <3>2, <3>3 DEF Refresh
  <2>2. UNCHANGED <<ep, related, row, bare>>
    BY <1>3 DEF RefreshBegin, tables, objects
  <2> QED BY <1>0, <1>2, <2>1, <2>2 DEF OthersTyped
<1>4. CASE RefreshSaves
  <2>1. refresh' \in Refresh
    <3>1. CASE refresh.at = "found" /\ refresh' = [refresh EXCEPT !.at = "find", !.rows = NoRows]
      BY <1>0, <3>1, NoneGiven DEF Refresh
    <3>2. CASE refresh' = Resting(refresh.nth)
      BY <1>0, <3>2, NoneGiven DEF Refresh, Resting
    <3> QED BY <1>4, <3>1, <3>2 DEF RefreshSaves
  <2>2. refresh.rows \in Rows
    BY <1>0 DEF Refresh
  <2>3. /\ row' \in [Episodes -> Record] /\ bare' \subseteq Episodes
        /\ UNCHANGED <<ep, related>>
    BY <1>0, <1>4, <2>2, WrittenRows DEF RefreshSaves, OthersTyped, Late, Given, objects
  <2> QED BY <1>0, <1>2, <2>1, <2>3 DEF OthersTyped
<1>5. CASE RefreshReads
  <2>1. \A e \in Episodes : row[e].location \in Places \cup {NoPlace}
    BY <1>0 DEF OthersTyped, Record
  <2>2. refresh' \in Refresh
    BY <1>0, <1>5, <2>1 DEF RefreshReads, Refresh
  <2>3. UNCHANGED <<ep, related, row, bare>>
    BY <1>5 DEF RefreshReads, tables, objects
  <2> QED BY <1>0, <1>2, <2>2, <2>3 DEF OthersTyped
<1>6. ASSUME NEW place \in Places, RefreshFinds(place) PROVE TypeOK'
  <2>1. ep' \in [Episodes -> Record]
    <3> DEFINE what == lib[place]
               found(e) == [location |-> place, release |-> NoFile,
                   status  |-> IF what = Broken THEN ep[e].status ELSE "downloaded",
                   quality |-> IF what = Broken THEN ep[e].quality ELSE Quality[what]]
    <3>1. what \in Files \cup {NoFile, Broken} /\ \A e \in Episodes : ep[e] \in Record
      BY <1>0 DEF OthersTyped
    <3>2. what # NoFile => \A e \in Episodes : found(e) \in Record
      <4>1. what # NoFile /\ what # Broken => Quality[what] \in Nat
        BY <3>1, ProcessAssumption
      <4>2. \A e \in Episodes : /\ ep[e].quality \in Nat
                                /\ ep[e].status \in {"wanted", "snatched", "downloaded", "ignored"}
        BY <3>1 DEF Record
      <4> HIDE DEF what
      <4> QED BY <4>1, <4>2 DEF Record
    <3>3. /\ DOMAIN ep' = Episodes /\ ep' = [e \in Episodes |-> ep'[e]]
          /\ \A e \in Episodes : ep'[e] = ep[e] \/ (what # NoFile /\ ep'[e] = found(e))
      BY <1>6 DEF RefreshFinds
    <3> HIDE DEF found, what
    <3> QED BY <3>1, <3>2, <3>3
  <2> DEFINE d == Dirty(Episodes)
  <2>2. d \in Rows
    BY <2>1, DirtyRows
  <2>3. refresh' = [refresh EXCEPT !.at = "found", !.places = @ \ {place}, !.rows = d]
    BY <1>6 DEF RefreshFinds
  <2>4. refresh' \in Refresh
    <3> HIDE DEF d
    <3> QED BY <1>0, <2>2, <2>3 DEF Refresh
  <2>5. UNCHANGED <<row, bare>>
    BY <1>6 DEF RefreshFinds, tables
  <2>6. related' \in [Episodes -> SUBSET Episodes]
    <3> DEFINE eps == IF lib[place] = NoFile THEN {}
                      ELSE {e \in Named[place] : ep[e].status # "ignored"}
    <3>1. eps \subseteq Episodes /\ related \in [Episodes -> SUBSET Episodes]
      BY <1>0, ProcessAssumption DEF OthersTyped
    <3>2. related' = [e \in Episodes |-> IF eps # {} /\ e = First[eps] THEN related[e] \cup (eps \ {e})
                                         ELSE related[e]]
      BY <1>6 DEF RefreshFinds
    <3> HIDE DEF eps
    <3> QED BY <3>1, <3>2
  <2> QED BY <1>0, <1>2, <2>1, <2>4, <2>5, <2>6 DEF OthersTyped
<1>7. ASSUME NEW e \in Episodes, RefreshChecks(e) PROVE TypeOK'
  <2>1. ep' \in [Episodes -> Record]
    <3>1. ep[e] \in Record
      BY <1>0 DEF OthersTyped
    <3> DEFINE s == IF ep[e].status = "downloaded" /\ ep[e].location # NoPlace
                    THEN "ignored" ELSE ep[e].status
    <3>2. [ep[e] EXCEPT !.status = s, !.location = NoPlace, !.release = NoFile] \in Record
      BY <3>1 DEF Record
    <3>3. ep' = ep \/ ep' = [ep EXCEPT ![e] =
                     [ep[e] EXCEPT !.status = s, !.location = NoPlace, !.release = NoFile]]
      BY <1>0, <1>7 DEF RefreshChecks, OthersTyped
    <3> HIDE DEF s
    <3> QED BY <1>0, <3>2, <3>3 DEF OthersTyped
  <2> DEFINE n == Dirty({e})
  <2>2. n \in Rows
    BY <2>1, DirtyRows
  <2>3. refresh' = [refresh EXCEPT !.seen[e] = NoPlace,
                                   !.rows[e] = IF n[e] # NoRow THEN n[e] ELSE @]
    BY <1>7 DEF RefreshChecks
  <2>4. refresh' \in Refresh
    <3> HIDE DEF n
    <3>1. /\ refresh.rows \in Rows /\ n \in [Episodes -> Record \cup {NoRow}]
          /\ refresh.rows \in [Episodes -> Record \cup {NoRow}]
          /\ refresh.seen \in [Episodes -> Places \cup {NoPlace}]
      BY <1>0, <2>2 DEF Refresh, Rows
    <3>2. [refresh.rows EXCEPT ![e] = IF n[e] # NoRow THEN n[e] ELSE @] \in Rows
      BY <3>1 DEF Rows
    <3>3. [refresh.seen EXCEPT ![e] = NoPlace] \in [Episodes -> Places \cup {NoPlace}]
      BY <3>1
    <3> QED BY <1>0, <2>3, <3>2, <3>3 DEF Refresh
  <2>5. UNCHANGED <<related, row, bare>>
    BY <1>7 DEF RefreshChecks, tables
  <2> QED BY <1>0, <1>2, <2>1, <2>4, <2>5 DEF OthersTyped
<1> QED
  BY <1>3, <1>4, <1>5, <1>6, <1>7 DEF Refreshes

LEMMA NextTyped == ASSUME TypeOK, [Next]_vars PROVE TypeOK'
<1>1. ASSUME NEW p \in Processors, Works(p) \/ \E c \in Calls[p] : Begin(p, c) PROVE TypeOK'
  BY <1>1, WalkTyped, PickTyped, JudgeTyped, ChangeTyped, MoveTyped, LocateTyped DEF Works
<1>2. CASE UNCHANGED vars
  BY <1>2, TypeParts DEF vars, TypeOK
<1> QED
  BY <1>1, <1>2, OutsideTyped, RefreshTyped DEF Next

\* A processor in process() has a video of the batch it works on, rows are only
\* held until they are written, and every record is one of its kind.
THEOREM TypeCorrect == Spec => []TypeOK
<1> QED
  BY InitTyped, NextTyped, PTL DEF Spec

-----------------------------------------------------------------------------
(***************************************************************************)
(* No last file is lost.                                                   *)
(***************************************************************************)

\* Where a video is, or goes, its first episode is in the name of the place.
PlaceInv ==
    /\ \A place \in Places : lib[place] \in Files => Root[lib[place]] \in Named[place]
    /\ \A p \in Processors : proc[p].at \in {"move", "locate"} =>
          Root[proc[p].file] \in Named[proc[p].dest]

\* Of the steps of a processor, these leave the library as it is.
LEMMA NoFileMoves ==
    ASSUME NEW p \in Processors,
           \/ \E d \in Folders : Enter(p, d)
           \/ \E f \in Files : Skips(p, f) \/ Takes(p, f)
           \/ BatchSkipped(p) \/ Refuses(p) \/ Accepts(p) \/ LeaveFolder(p) \/ End(p)
           \/ Relist(p) \/ Change(p) \/ SaveChange(p) \/ Name(p) \/ MoveFails(p)
           \/ Locate(p) \/ SaveLocation(p)
           \/ \E c \in Calls[p] : Begin(p, c)
    PROVE  UNCHANGED lib /\ bare \subseteq bare'
  BY DEF Begin, Enter, Skips, Takes, Refuses, Accepts, BatchSkipped, Relist, Change, SaveChange,
     Save, Name, MoveFails, Locate, SaveLocation, LeaveFolder, End, library

\* The processors that a step of one leaves alone, and where it goes itself.
LEMMA OneProcessor ==
    ASSUME TypeOK, NEW p \in Processors, Works(p) \/ \E c \in Calls[p] : Begin(p, c)
    PROVE  \A q \in Processors \ {p} : proc'[q] = proc[q]
  BY DEF Works, Begin, Enter, Skips, Takes, Leaves, Refuses, Accepts, BatchSkipped, Delete,
     DeleteFails, Relist, Change, SaveChange, Name, Move, MoveBreaks, CopiesNothing, Puts,
     MoveFails, Locate, SaveLocation, LeaveFolder, End, TypeOK

\* Only naming and putting bring a processor to a move or to what follows it.
LEMMA ElsewhereBound ==
    ASSUME TypeOK, NEW p \in Processors, Works(p) \/ \E c \in Calls[p] : Begin(p, c),
           ~Name(p), ~(Move(p) \/ MoveBreaks(p) \/ CopiesNothing(p))
    PROVE  proc'[p].at \notin {"move", "locate"}
<1> DEFINE elsewhere == proc'[p].at \notin {"move", "locate"}
<1>0. proc \in [Processors -> Processor] /\ proc[p] \in Processor
  BY DEF TypeOK
<1>1. CASE \E c \in Calls[p] : Begin(p, c)
  BY <1>0, <1>1 DEF Begin, Idle
<1>2. ASSUME NEW d \in Folders, Enter(p, d) PROVE elsewhere
  BY <1>0, <1>2 DEF Enter, Processor
<1>3. CASE BatchSkipped(p)
  BY <1>0, <1>3 DEF BatchSkipped, Processor
<1>4. CASE LeaveFolder(p)
  BY <1>0, <1>4 DEF LeaveFolder, Processor
<1>5. CASE End(p)
  BY <1>0, <1>5 DEF End, Idle
<1>6. ASSUME NEW f \in Files, Skips(p, f) PROVE elsewhere
  BY <1>0, <1>6 DEF Skips, Picks, Processor
<1>7. ASSUME NEW f \in Files, Takes(p, f) PROVE elsewhere
  BY <1>0, <1>7 DEF Takes, Processor
<1>8. CASE Refuses(p) \/ DeleteFails(p) \/ MoveFails(p)
  <2>1. Leaves(p)
    BY <1>8 DEF Refuses, DeleteFails, MoveFails
  <2> QED BY <1>0, <2>1 DEF Leaves, Processor
<1>9. CASE Accepts(p) \/ Delete(p)
  BY <1>0, <1>9 DEF Accepts, Delete, Processor
<1>10. CASE Relist(p)
  BY <1>0, <1>10 DEF Relist, Processor
<1>11. CASE Change(p) \/ SaveChange(p)
  <2>1. CASE Change(p)
    BY <1>0, <2>1 DEF Change, Processor
  <2>2. CASE SaveChange(p)
    BY <1>0, <2>2 DEF SaveChange, Processor
  <2> QED BY <1>11, <2>1, <2>2
<1>12. CASE Locate(p) \/ SaveLocation(p)
  <2>1. CASE Locate(p)
    BY <1>0, <2>1 DEF Locate, Processor
  <2>2. CASE SaveLocation(p)
    BY <1>0, <2>2 DEF SaveLocation, Processor
  <2> QED BY <1>12, <2>1, <2>2
<1> QED
  BY <1>1, <1>2, <1>3, <1>4, <1>5, <1>6, <1>7, <1>8, <1>9, <1>10, <1>11, <1>12 DEF Works

LEMMA PlaceStep == ASSUME TypeOK, PlaceInv, [Next]_vars PROVE PlaceInv'
<1>0. /\ lib \in [Places -> Files \cup {NoFile, Broken}] /\ proc \in [Processors -> Processor]
      /\ related \in [Episodes -> SUBSET Episodes]
      /\ \A place \in Places : lib[place] \in Files => Root[lib[place]] \in Named[place]
      /\ \A q \in Processors : proc[q].at \in {"move", "locate"} =>
            Root[proc[q].file] \in Named[proc[q].dest]
  BY DEF TypeOK, PlaceInv
<1>1. ASSUME NEW p \in Processors, Works(p) \/ \E c \in Calls[p] : Begin(p, c) PROVE PlaceInv'
  <2>0. \A q \in Processors \ {p} : proc'[q] = proc[q]
    BY <1>1, OneProcessor
  <2>1. ASSUME NEW what, Puts(p, what), proc[p].at = "move",
               what \in {proc[p].file, Broken, lib[proc[p].dest]}
        PROVE  PlaceInv'
    <3>1. proc[p].file \in Files /\ proc[p].dest \in Places
      BY <2>1, InsideTyped DEF Steps
    <3>2. what \in Files => Root[what] \in Named[proc[p].dest]
      BY <1>0, <2>1, <3>1, ProcessAssumption
    <3>3. \A place \in Places : lib'[place] \in Files => Root[lib'[place]] \in Named[place]
      BY <1>0, <2>1, <3>1, <3>2 DEF Puts
    <3>4. proc'[p].file = proc[p].file /\ proc'[p].dest = proc[p].dest
      BY <1>0, <2>1 DEF Puts, Processor
    <3> QED BY <1>0, <2>0, <2>1, <3>3, <3>4 DEF PlaceInv
  <2>2. CASE Move(p) \/ MoveBreaks(p) \/ CopiesNothing(p)
    BY <2>1, <2>2 DEF Move, MoveBreaks, CopiesNothing
  <2>3. CASE Name(p)
    <3>1. /\ proc[p].file \in Files /\ proc'[p].file = proc[p].file
          /\ proc'[p].dest = Path[proc[p].file][Listed(proc[p].file)]
      BY <1>0, <2>3, InsideTyped DEF Name, Steps, Processor
    <3>2. Root[proc'[p].file] \in Named[proc'[p].dest]
      BY <1>0, <3>1, ListedPlace
    <3>3. lib' = lib
      BY <2>3, NoFileMoves
    <3> QED BY <1>0, <2>0, <3>2, <3>3 DEF PlaceInv
  <2>4. CASE ~(Move(p) \/ MoveBreaks(p) \/ CopiesNothing(p) \/ Name(p))
    <3>1. proc'[p].at \notin {"move", "locate"}
      BY <1>1, <2>4, ElsewhereBound
    <3>2. \A place \in Places : lib'[place] \in {lib[place], NoFile}
      <4>1. ASSUME NEW places, Removes(p, places) PROVE \A place \in Places : lib'[place] \in {lib[place], NoFile}
        BY <1>0, <4>1 DEF Removes
      <4>2. CASE Delete(p) \/ DeleteFails(p)
        BY <4>1, <4>2 DEF Delete, DeleteFails
      <4>3. CASE ~(Delete(p) \/ DeleteFails(p))
        BY <1>1, <2>4, <4>3, NoFileMoves DEF Works
      <4> QED BY <4>2, <4>3
    <3>3. \A place \in Places : lib'[place] \in Files => Root[lib'[place]] \in Named[place]
      BY <1>0, <3>2, ProcessAssumption
    <3> QED BY <1>0, <2>0, <3>1, <3>3 DEF PlaceInv
  <2> QED BY <2>2, <2>3, <2>4
<1>2. CASE Crash
  <2>1. \A place \in Places : lib'[place] \in {lib[place], Broken}
    BY <1>0, <1>2 DEF Crash
  <2>2. \A p \in Processors : proc'[p].at = "idle"
    BY <1>2 DEF Crash, Idle
  <2> QED BY <1>0, <2>1, <2>2, ProcessAssumption DEF PlaceInv
<1>3. ASSUME \/ Refreshes \/ UNCHANGED vars \/ \E f \in Files : Arrive(f)
             \/ \E e \in Asked : Relates(e)
      PROVE  UNCHANGED <<lib, proc>>
  BY <1>3 DEF Refreshes, RefreshBegin, RefreshSaves, RefreshReads, RefreshFinds, RefreshChecks,
     library, vars, Arrive, Relates
<1>4. CASE UNCHANGED <<lib, proc>>
  BY <1>4 DEF PlaceInv
<1> QED
  BY <1>1, <1>2, <1>3, <1>4 DEF Next

\* Whatever lists other threads have changed, a video in the library is at a place
\* whose name has the first episode of the video, where a refresh finds it.
THEOREM VideosUnderTheirNames == Spec => []PlaceInv
<1>1. Init => PlaceInv
  BY ProcessAssumption DEF Init, PlaceInv, Idle
<1> QED
  BY <1>1, TypeCorrect, PlaceStep, PTL DEF Spec

\* The four ways in which an episode may lose its last file.
LoseInNamedWay(e) ==
    \E p \in Processors :
       \/ /\ proc[p].at = "move" /\ proc'[p].at = "locate"
          /\ trouble' > trouble
       \/ /\ proc[p].at = "delete" /\ proc'[p].at \in {"relist", "batch"}
          /\ e \notin Of[proc[p].file] \/ proc[p].file \notin down
       \/ Overwrites(p, e)
       \/ /\ proc[p].at = "batch" /\ proc'[p].at = "walk"
          /\ proc[p].any /\ proc[p].call.tidy

LEMMA LastFileStep ==
    ASSUME TypeOK, [Next]_vars, NEW e \in Episodes, HasMedia(e), ~HasMedia(e)'
    PROVE  LoseInNamedWay(e)
<1>0. /\ lib \in [Places -> Files \cup {NoFile, Broken}]
      /\ down \subseteq Files /\ trouble \in Nat
      /\ proc \in [Processors -> Processor]
  BY ProcessAssumption DEF TypeOK
<1>1. ASSUME NEW p \in Processors, proc[p].at = "move"
      PROVE  proc[p].file \in Files /\ proc[p].dest \in Places
  BY <1>1, InsideTyped DEF Steps
<1>2. ~(UNCHANGED <<lib, down>>)
  BY DEF HasMedia, Held, Waiting
<1>3. ASSUME NEW p \in Processors, Delete(p) \/ DeleteFails(p) PROVE LoseInNamedWay(e)
  <2>1. proc[p].at = "delete" /\ proc'[p].at \in {"relist", "batch"} /\ down' = down
    BY <1>0, <1>3 DEF Delete, DeleteFails, Leaves, Processor
  <2>2. ~(e \in Of[proc[p].file] /\ proc[p].file \in down)
    BY <2>1 DEF HasMedia, Waiting
  <2> QED BY <2>1, <2>2 DEF LoseInNamedWay
<1>4. ASSUME NEW p \in Processors, LeaveFolder(p) PROVE LoseInNamedWay(e)
  <2>1. Tidies(p)
    BY <1>2, <1>4 DEF LeaveFolder
  <2>2. proc[p].at = "batch" /\ proc'[p].at = "walk"
    BY <1>0, <1>4 DEF LeaveFolder, Processor
  <2> QED BY <2>1, <2>2 DEF LoseInNamedWay, Tidies
<1>5. ASSUME NEW p \in Processors, MoveBreaks(p) PROVE LoseInNamedWay(e)
  <2>1. proc[p].at = "move" /\ proc'[p].at = "locate" /\ trouble' > trouble
    BY <1>0, <1>5 DEF MoveBreaks, Puts, Fault, Processor
  <2> QED BY <2>1 DEF LoseInNamedWay
\* a place that is written while the new video is there, or still in its folder
<1>6. ASSUME NEW p \in Processors, proc[p].at = "move", lib[proc[p].dest] \in Files,
             e \in Of[lib[proc[p].dest]], e \notin Of[proc[p].file]
      PROVE  LoseInNamedWay(e)
  <2>1. Overwrites(p, e)
    BY <1>6 DEF Overwrites
  <2> QED BY <2>1 DEF LoseInNamedWay
<1>7. ASSUME NEW p \in Processors, Move(p) PROVE LoseInNamedWay(e)
  <2>1. proc[p].at = "move" /\ proc[p].file \in down
    BY <1>7 DEF Move
  <2>2. lib' = [lib EXCEPT ![proc[p].dest] = proc[p].file] /\ down \ {proc[p].file} \subseteq down'
    BY <1>7 DEF Move, Puts
  <2>3. e \notin Of[proc[p].file]
    BY <1>0, <1>1, <2>1, <2>2 DEF HasMedia, Held
  <2>4. ~Waiting(e)
    BY <2>2, <2>3 DEF Waiting, HasMedia
  <2>5. PICK place \in Places : lib[place] \in Files /\ e \in Of[lib[place]]
    BY <2>4 DEF HasMedia, Held
  <2>6. place = proc[p].dest
    BY <1>0, <2>2, <2>5 DEF HasMedia, Held
  <2> QED BY <1>6, <2>1, <2>3, <2>5, <2>6
<1>8. ASSUME NEW p \in Processors, CopiesNothing(p) PROVE FALSE
  <2>1. lib' = lib /\ down' = down
    BY <1>0, <1>1, <1>8 DEF CopiesNothing, Puts
  <2> QED BY <1>2, <2>1
<1>9. ASSUME Crash PROVE LoseInNamedWay(e)
  <2>1. PICK torn \in SUBSET {p \in Processors : proc[p].at = "move" /\ proc[p].file \in down} :
          lib' = [place \in Places |->
                    IF \E p \in torn : proc[p].dest = place THEN Broken ELSE lib[place]]
    BY <1>9 DEF Crash
  <2>2. down' = down /\ ~Waiting(e)
    BY <1>9 DEF Crash, HasMedia, Waiting
  <2>3. PICK place \in Places : lib[place] \in Files /\ e \in Of[lib[place]]
    BY <2>2 DEF HasMedia, Held
  <2>4. PICK p \in torn : proc[p].dest = place
    BY <2>1, <2>3 DEF HasMedia, Held
  <2>5. e \notin Of[proc[p].file]
    BY <2>1, <2>2, <2>4 DEF Waiting
  <2> QED BY <1>6, <2>1, <2>3, <2>4, <2>5
<1>10. ASSUME NEW f \in Files, Arrive(f) PROVE FALSE
  BY <1>10 DEF Arrive, HasMedia, Held, Waiting
<1>11. ASSUME NEW p \in Processors, Works(p) PROVE LoseInNamedWay(e)
  <2>1. CASE ~(Move(p) \/ MoveBreaks(p) \/ CopiesNothing(p) \/ Delete(p) \/ DeleteFails(p) \/ LeaveFolder(p))
    <3>1. UNCHANGED <<lib, down>>
      BY <1>11, <2>1 DEF Works, Enter, Skips, Takes, Refuses, Accepts, BatchSkipped, Relist, Change,
         SaveChange, Save, Name, MoveFails, Locate, SaveLocation, End, library
    <3> QED BY <1>2, <3>1
  <2> QED BY <1>3, <1>4, <1>5, <1>7, <1>8, <2>1
<1>12. ASSUME NEW p \in Processors, NEW c \in Calls[p], Begin(p, c) PROVE FALSE
  BY <1>2, <1>12 DEF Begin, library
<1>13. ASSUME Refreshes \/ UNCHANGED vars \/ \E x \in Asked : Relates(x) PROVE FALSE
  BY <1>2, <1>13 DEF Refreshes, RefreshBegin, RefreshSaves, RefreshReads, RefreshFinds,
     RefreshChecks, Relates, library, vars
<1> QED
  BY <1>9, <1>10, <1>11, <1>12, <1>13 DEF Next

\* The last file of an episode is lost only by a write that broke and counts as
\* done, by a deletion for another of its episodes or for a video that is gone by
\* then, by a move to or over a place named for a list that was not the video's,
\* or with the folder it is in: not by a crash, a refresh or any other move.
THEOREM LastFilesStay == Spec => LastFileStays
<1>1. TypeOK /\ [Next]_vars =>
        [\A e \in Episodes : HasMedia(e) /\ ~HasMedia(e)' => LoseInNamedWay(e)]_vars
  BY LastFileStep
<1> QED
  BY <1>1, TypeCorrect, PTL DEF Spec, LastFileStays, LoseInNamedWay

-----------------------------------------------------------------------------
(***************************************************************************)
(* No episode counts as downloaded without its file.                       *)
(***************************************************************************)

\* A refresh holds rows only until it has written them.
HeldRows == refresh.at \in {"idle", "find"} => Given(refresh.rows) = {}

\* A row is its episode's record, or some thread is about to write it.
RowsFollow ==
    \A e \in Episodes \ bare :
       \/ row[e] = ep[e]
       \/ \E p \in Processors : e \in Given(proc[p].rows)
       \/ e \in Given(refresh.rows)

\* A video that was moved is still there when its location is set.
MovedIsThere ==
    \A p \in Processors : proc[p].at = "locate" =>
       \A e \in Of[proc[p].file] \ bare : lib[proc[p].dest] # NoFile

\* From the deletion to the new location.
Replacing == {"relist", "fill", "change", "save", "name", "move", "locate"}
Replaces(p, e) == proc[p].at \in Replacing /\ e \in Of[proc[p].file]

FileOrReplaced ==
    \A e \in Episodes \ bare :
       ep[e].status = "downloaded" /\ At(ep[e].location) = NoFile =>
          \E p \in Processors : Replaces(p, e)

FileInv == HeldRows /\ RowsFollow /\ MovedIsThere /\ FileOrReplaced

LEMMA InitFiles == Init => FileInv
<1> SUFFICES ASSUME Init PROVE FileInv
  OBVIOUS
<1>1. HeldRows
  BY NoneGiven DEF Init, HeldRows, Resting
<1>2. RowsFollow
  BY DEF Init, RowsFollow
<1>3. MovedIsThere
  BY DEF Init, MovedIsThere, Idle
<1>4. FileOrReplaced
  BY DEF Init, FileOrReplaced
<1> QED BY <1>1, <1>2, <1>3, <1>4 DEF FileInv

\* A processor and get_all_episodes leave the refresh as it is.
LEMMA RefreshStays ==
    ASSUME \/ \E p \in Processors : Works(p) \/ \E c \in Calls[p] : Begin(p, c)
           \/ \E e \in Asked : Relates(e)
           \/ \E f \in Files : Arrive(f)
    PROVE  UNCHANGED refresh
<1>1. ASSUME NEW p \in Processors, Works(p) PROVE UNCHANGED refresh
  BY <1>1 DEF Works, Enter, Skips, Takes, Refuses, Accepts, BatchSkipped, Delete, DeleteFails,
     Relist, Change, SaveChange, Save, Name, Move, MoveBreaks, CopiesNothing, Puts, MoveFails,
     Locate, SaveLocation, LeaveFolder, End
<1>2. ASSUME NEW p \in Processors, NEW c \in Calls[p], Begin(p, c) PROVE UNCHANGED refresh
  BY <1>2 DEF Begin
<1> QED
  BY <1>1, <1>2 DEF Relates, Arrive

LEMMA HeldStep == ASSUME TypeOK, HeldRows, [Next]_vars PROVE HeldRows'
<1>0. refresh \in Refresh /\ refresh.at \in {"idle", "find", "found", "check"}
  BY DEF TypeOK, Refresh
<1>1. CASE UNCHANGED refresh
  BY <1>1 DEF HeldRows
<1>2. CASE Crash
  BY <1>2, NoneGiven DEF Crash, Resting, HeldRows
<1>3. CASE RefreshBegin
  BY <1>0, <1>3 DEF RefreshBegin, HeldRows, Refresh
<1>4. CASE RefreshSaves
  <2>1. CASE refresh' = [refresh EXCEPT !.at = "find", !.rows = NoRows]
    BY <1>0, <2>1, NoneGiven DEF HeldRows, Refresh
  <2>2. CASE refresh' = Resting(refresh.nth)
    BY <2>2, NoneGiven DEF HeldRows, Resting
  <2> QED BY <1>4, <2>1, <2>2 DEF RefreshSaves
<1>5. CASE RefreshReads
  BY <1>0, <1>5 DEF RefreshReads, HeldRows, Refresh
<1>6. ASSUME NEW place \in Places, RefreshFinds(place) PROVE HeldRows'
  BY <1>0, <1>6 DEF RefreshFinds, HeldRows, Refresh
<1>7. ASSUME NEW e \in Episodes, RefreshChecks(e) PROVE HeldRows'
  BY <1>0, <1>7 DEF RefreshChecks, HeldRows, Refresh
<1> QED
  BY <1>1, <1>2, <1>3, <1>4, <1>5, <1>6, <1>7, RefreshStays DEF Next, Refreshes, vars

\* What get_sql gives covers every change of its episodes.
LEMMA DirtyCovers ==
    ASSUME ep' \in [Episodes -> Record], NEW eps, NEW e \in Episodes
    PROVE  /\ ep'[e] # ep[e] /\ e \in eps => e \in Given(Dirty(eps)) /\ Dirty(eps)[e] = ep'[e]
           /\ e \in Given(Dirty(eps)) => ep'[e] # ep[e] /\ e \in eps
  BY ProcessAssumption DEF Dirty, Given

\* Writing rows: those that are not late agree with their episodes.
LEMMA WritingFollows ==
    ASSUME NEW rows \in Rows, row' = Written(rows), NEW e \in Episodes, e \notin Late(rows)
    PROVE  row'[e] = IF e \in Given(rows) THEN ep[e] ELSE row[e]
  BY DEF Written, Late, Given

\* What TypeOK gives to the steps below.
LEMMA FileTypes ==
    ASSUME TypeOK
    PROVE  /\ proc \in [Processors -> Processor]
           /\ \A p \in Processors :
                 /\ proc[p].rows \in Rows
                 /\ proc[p].at \in Steps => proc[p].file \in Files
                 /\ proc[p].at \in {"move", "locate"} => proc[p].dest \in Places
                 /\ proc[p].at \notin {"save", "put"} => Given(proc[p].rows) = {}
           /\ refresh \in Refresh /\ refresh.rows \in Rows
           /\ ep \in [Episodes -> Record] /\ row \in [Episodes -> Record]
           /\ bare \subseteq Episodes
           /\ lib \in [Places -> Files \cup {NoFile, Broken}]
<1>1. \A p \in Processors : proc[p] \in Processor /\ ProcTyped(p)
  BY TypeParts
<1>2. \A p \in Processors : proc[p].rows \in Rows
  BY <1>1 DEF Processor
<1>3. \A p \in Processors : proc[p].at \in Steps => proc[p].file \in Files
  BY InsideTyped
<1>4. \A p \in Processors : /\ proc[p].at \in {"move", "locate"} => proc[p].dest \in Places
                            /\ proc[p].at \notin {"save", "put"} => Given(proc[p].rows) = {}
  BY <1>1 DEF ProcTyped, Fits
<1> QED
  BY <1>2, <1>3, <1>4 DEF TypeOK, Refresh

\* The steps that neither change nor write a record.
LEMMA QuietRows ==
    ASSUME TypeOK, RowsFollow, UNCHANGED <<ep, row>>, bare \subseteq bare',
           \A q \in Processors : Given(proc[q].rows) \subseteq Given(proc'[q].rows),
           refresh'.rows = refresh.rows
    PROVE  RowsFollow'
  BY DEF RowsFollow

LEMMA ProcessorRows ==
    ASSUME TypeOK, TypeOK', RowsFollow, NEW p \in Processors,
           Works(p) \/ \E c \in Calls[p] : Begin(p, c)
    PROVE  RowsFollow'
<1> USE FileTypes
<1>1. UNCHANGED refresh /\ \A q \in Processors \ {p} : proc'[q] = proc[q]
  BY RefreshStays, OneProcessor
<1>2. ASSUME UNCHANGED <<ep, row>>, bare \subseteq bare', proc[p].at \notin {"save", "put"}
      PROVE  RowsFollow'
  BY <1>1, <1>2, QuietRows
<1>3. ASSUME NEW c \in Calls[p], Begin(p, c) PROVE RowsFollow'
  BY <1>2, <1>3 DEF Begin, tables, objects
<1>4. ASSUME NEW d \in Folders, Enter(p, d) PROVE RowsFollow'
  BY <1>2, <1>4 DEF Enter, tables, objects
<1>5. ASSUME NEW f \in Files, Takes(p, f) PROVE RowsFollow'
  BY <1>2, <1>5 DEF Takes, Picks, tables
<1>6. CASE BatchSkipped(p) \/ LeaveFolder(p) \/ End(p)
  BY <1>2, <1>6 DEF BatchSkipped, LeaveFolder, End, tables, objects
<1>7. CASE Refuses(p) \/ Accepts(p) \/ Relist(p) \/ Name(p)
  BY <1>2, <1>7 DEF Refuses, Accepts, Relist, Name, tables, objects
<1>8. CASE Delete(p) \/ DeleteFails(p)
  BY <1>2, <1>8 DEF Delete, DeleteFails, Removes, tables, objects
<1>9. CASE Move(p) \/ MoveBreaks(p) \/ CopiesNothing(p) \/ MoveFails(p)
  BY <1>2, <1>9 DEF Move, MoveBreaks, CopiesNothing, Puts, MoveFails, tables, objects
<1>10. ASSUME NEW f \in Files, Skips(p, f) PROVE RowsFollow'
  <2>1. /\ UNCHANGED ep /\ bare \subseteq bare' /\ Given(proc[p].rows) = {}
    BY <1>10 DEF Skips, Picks, objects
  <2>2. ASSUME NEW e \in Episodes \ bare' PROVE row'[e] = row[e]
    <3>1. CASE UNCHANGED row
      BY <3>1
    <3>2. ASSUME NEW x, row' = [row EXCEPT ![Root[f]].status = x],
                 bare' = bare \cup (IF row[Root[f]].status = x THEN {} ELSE {Root[f]})
          PROVE  row'[e] = row[e]
      <4>1. CASE e # Root[f]
        BY <3>2, <4>1
      <4>2. CASE e = Root[f]
        <5>1. row[e].status = x /\ row[e] \in Record
          BY <2>2, <3>2, <4>2
        <5>2. [row[e] EXCEPT !.status = x] = row[e]
          BY <5>1 DEF Record
        <5> QED BY <3>2, <4>2, <5>2
      <4> QED BY <4>1, <4>2
    <3> QED BY <1>10, <3>1, <3>2 DEF Skips
  <2> QED BY <1>1, <2>1, <2>2 DEF RowsFollow
<1>11. ASSUME NEW eps, UNCHANGED row, bare \subseteq bare', Given(proc[p].rows) = {},
              proc'[p].rows = Dirty(eps), \A e \in Episodes \ eps : ep'[e] = ep[e]
       PROVE  RowsFollow'
  <2>1. ep' \in [Episodes -> Record]
    BY DEF TypeOK
  <2>2. ASSUME NEW e \in Episodes PROVE ep'[e] = ep[e] \/ e \in Given(proc'[p].rows)
    BY <1>11, <2>1, DirtyCovers
  <2> QED BY <1>1, <1>11, <2>2 DEF RowsFollow
<1>12. CASE Change(p)
  <2> DEFINE eps == Listed(proc[p].file)
  <2>1. /\ UNCHANGED row /\ bare \subseteq bare' /\ Given(proc[p].rows) = {}
        /\ proc'[p].rows = Dirty(eps)
    BY <1>12 DEF Change, tables, Processor
  <2>2. \A e \in Episodes \ eps : ep'[e] = ep[e]
    BY <1>12 DEF Change
  <2> HIDE DEF eps
  <2> QED BY <1>11, <2>1, <2>2
<1>13. CASE Locate(p)
  <2> DEFINE eps == Located(proc[p].file)
  <2>1. /\ UNCHANGED row /\ bare \subseteq bare' /\ Given(proc[p].rows) = {}
        /\ proc'[p].rows = Dirty(eps)
    BY <1>13 DEF Locate, tables, Processor
  <2>2. \A e \in Episodes \ eps : ep'[e] = ep[e]
    BY <1>13 DEF Locate
  <2> HIDE DEF eps
  <2> QED BY <1>11, <2>1, <2>2
<1>14. CASE SaveChange(p) \/ SaveLocation(p)
  <2>1. row' = Written(proc[p].rows) /\ bare' = bare \cup Late(proc[p].rows) /\ ep' = ep
    BY <1>14 DEF SaveChange, SaveLocation, Save, objects
  <2>2. ASSUME NEW e \in Episodes \ bare'
        PROVE  row'[e] = IF e \in Given(proc[p].rows) THEN ep[e] ELSE row[e]
    BY <2>1, <2>2, WritingFollows
  <2> QED BY <1>1, <2>1, <2>2 DEF RowsFollow
<1> QED
  BY <1>3, <1>4, <1>5, <1>6, <1>7, <1>8, <1>9, <1>10, <1>12, <1>13, <1>14 DEF Works

LEMMA RefreshRows ==
    ASSUME TypeOK, TypeOK', HeldRows, RowsFollow, Refreshes
    PROVE  RowsFollow'
<1> USE FileTypes
<1>0. ep' \in [Episodes -> Record]
  BY DEF TypeOK
<1>1. UNCHANGED proc
  BY DEF Refreshes, RefreshBegin, RefreshSaves, RefreshReads, RefreshFinds, RefreshChecks
<1>2. CASE RefreshBegin \/ RefreshReads
  <2>1. refresh'.rows = refresh.rows
    BY <1>2 DEF RefreshBegin, RefreshReads, Refresh
  <2> QED BY <1>1, <1>2, <2>1, QuietRows DEF RefreshBegin, RefreshReads, tables, objects
<1>3. CASE RefreshSaves
  <2>1. row' = Written(refresh.rows) /\ bare' = bare \cup Late(refresh.rows) /\ ep' = ep
    BY <1>3 DEF RefreshSaves, objects
  <2>2. ASSUME NEW e \in Episodes \ bare'
        PROVE  row'[e] = IF e \in Given(refresh.rows) THEN ep[e] ELSE row[e]
    BY <2>1, <2>2, WritingFollows
  <2> QED BY <1>1, <2>1, <2>2 DEF RowsFollow
<1>4. ASSUME NEW place \in Places, RefreshFinds(place) PROVE RowsFollow'
  <2>1. refresh'.rows = Dirty(Episodes) /\ Given(refresh.rows) = {}
    BY <1>4 DEF RefreshFinds, Refresh, HeldRows
  <2>2. UNCHANGED <<row, bare>>
    BY <1>4 DEF RefreshFinds, tables
  <2>3. ASSUME NEW e \in Episodes PROVE ep'[e] = ep[e] \/ e \in Given(refresh'.rows)
    BY <1>0, <2>1, DirtyCovers
  <2> QED BY <1>1, <2>1, <2>2, <2>3 DEF RowsFollow
<1>5. ASSUME NEW x \in Episodes, RefreshChecks(x) PROVE RowsFollow'
  <2>1. refresh'.rows = [refresh.rows EXCEPT ![x] = IF Dirty({x})[x] # NoRow THEN Dirty({x})[x] ELSE @]
    BY <1>5 DEF RefreshChecks, Refresh
  <2>2. UNCHANGED <<row, bare>> /\ \A e \in Episodes \ {x} : ep'[e] = ep[e]
    BY <1>5 DEF RefreshChecks, tables
  <2>3. ep'[x] # ep[x] => x \in Given(refresh'.rows)
    <3> DEFINE n == Dirty({x})
    <3>1. ep'[x] # ep[x] => n[x] # NoRow
      BY <1>0, DirtyCovers DEF Given
    <3>2. refresh'.rows = [refresh.rows EXCEPT ![x] = IF n[x] # NoRow THEN n[x] ELSE @]
      BY <2>1
    <3> HIDE DEF n
    <3> QED BY <3>1, <3>2 DEF Given, Rows
  <2>4. Given(refresh.rows) \subseteq Given(refresh'.rows)
    <3> DEFINE n == Dirty({x})
    <3>2. refresh'.rows = [refresh.rows EXCEPT ![x] = IF n[x] # NoRow THEN n[x] ELSE @]
      BY <2>1
    <3> HIDE DEF n
    <3> QED BY <3>2 DEF Given, Rows
  <2>5. ASSUME NEW e \in Episodes PROVE ep'[e] = ep[e] \/ e \in Given(refresh'.rows)
    BY <2>2, <2>3
  <2> QED BY <1>1, <2>2, <2>4, <2>5 DEF RowsFollow
<1> QED
  BY <1>2, <1>3, <1>4, <1>5 DEF Refreshes

LEMMA RowsStep == ASSUME TypeOK, TypeOK', HeldRows, RowsFollow, [Next]_vars PROVE RowsFollow'
<1>1. ASSUME NEW f \in Files, Arrive(f) PROVE RowsFollow'
  <2>1. UNCHANGED <<proc, refresh, bare>>
    BY <1>1 DEF Arrive
  <2>2. CASE f \notin Snatched
    BY <1>1, <2>1, <2>2, QuietRows DEF Arrive
  <2>3. CASE f \in Snatched
    <3>1. ep' \in [Episodes -> Record] /\ \A e \in Episodes \ Of[f] : ep'[e] = ep[e]
      BY <1>1, <2>3 DEF Arrive, TypeOK
    <3>2. row' = Written(Dirty(Of[f]))
      BY <1>1, <2>3 DEF Arrive
    <3>3. ASSUME NEW e \in Episodes
          PROVE  row'[e] = ep'[e] \/ (row'[e] = row[e] /\ ep'[e] = ep[e])
      BY <3>1, <3>2, DirtyCovers DEF Written, Given
    <3> QED BY <2>1, <3>3 DEF RowsFollow
  <2> QED BY <2>2, <2>3
<1>2. CASE Crash
  BY <1>2 DEF Crash, RowsFollow, tables
<1>3. ASSUME NEW e \in Asked, Relates(e) PROVE RowsFollow'
  BY <1>3, QuietRows DEF Relates, tables
<1>4. CASE UNCHANGED vars
  BY <1>4 DEF vars, RowsFollow
<1> QED
  BY <1>1, <1>2, <1>3, <1>4, ProcessorRows, RefreshRows DEF Next

\* Putting a file there takes none away.
LEMMA PuttingKeeps ==
    ASSUME TypeOK, NEW p \in Processors, Move(p) \/ MoveBreaks(p) \/ CopiesNothing(p)
    PROVE  /\ \A place \in Places : lib[place] # NoFile => lib'[place] # NoFile
           /\ lib'[proc[p].dest] # NoFile
           /\ proc' = [proc EXCEPT ![p].at = "locate"]
           /\ UNCHANGED <<row, ep, related, refresh, bare>>
           /\ proc[p].at = "move"
<1> USE FileTypes
<1>1. proc[p].at = "move" /\ proc[p].file \in Files /\ proc[p].dest \in Places
  BY DEF Move, MoveBreaks, CopiesNothing, Steps
<1>2. PICK what : Puts(p, what) /\ what # NoFile
  BY <1>1, ProcessAssumption DEF Move, MoveBreaks, CopiesNothing
<1> QED
  BY <1>1, <1>2 DEF Puts, tables, objects

LEMMA MovedStep == ASSUME TypeOK, MovedIsThere, [Next]_vars PROVE MovedIsThere'
<1> USE FileTypes
<1>1. ASSUME NEW p \in Processors, Works(p) \/ \E c \in Calls[p] : Begin(p, c)
      PROVE  MovedIsThere'
  <2>0. \A q \in Processors \ {p} : proc'[q] = proc[q]
    BY <1>1, OneProcessor
  <2>1. CASE Move(p) \/ MoveBreaks(p) \/ CopiesNothing(p)
    <3>1. proc'[p].file = proc[p].file /\ proc'[p].dest = proc[p].dest
      BY <2>1, PuttingKeeps DEF Processor
    <3> QED BY <2>0, <2>1, <3>1, PuttingKeeps DEF MovedIsThere
  <2>2. CASE Delete(p) \/ DeleteFails(p)
    <3>1. PICK places : Removes(p, places)
      BY <2>2 DEF Delete, DeleteFails
    <3>2. /\ \A place \in Places \ places : lib'[place] = lib[place]
          /\ bare \subseteq bare'
          /\ \A e \in Episodes : \A q \in Processors \ {p} :
                Inside(q, e) /\ proc[q].at = "locate" /\ proc[q].dest \in places => e \in bare'
      BY <3>1 DEF Removes
    <3>3. proc'[p].at # "locate"
      BY <2>2, ElsewhereBound DEF Delete, DeleteFails, Name, Move, MoveBreaks, CopiesNothing, Works
    <3>4. ASSUME NEW q \in Processors, proc'[q].at = "locate",
                 NEW e \in Of[proc'[q].file] \ bare'
          PROVE  lib'[proc'[q].dest] # NoFile
      <4>1. /\ q # p /\ proc'[q] = proc[q] /\ proc[q].dest \in Places /\ proc[q].file \in Files
        BY <2>0, <3>3, <3>4 DEF Steps
      <4>2. e \in Episodes /\ Inside(q, e)
        BY <3>4, <4>1, FirstOfVideo DEF Inside, Steps
      <4>3. proc[q].dest \notin places
        BY <3>2, <3>4, <4>1, <4>2
      <4> QED BY <3>2, <3>4, <4>1, <4>3 DEF MovedIsThere
    <3> QED BY <3>4 DEF MovedIsThere
  <2>3. CASE ~(Move(p) \/ MoveBreaks(p) \/ CopiesNothing(p) \/ Delete(p) \/ DeleteFails(p))
    <3>1. UNCHANGED lib /\ bare \subseteq bare'
      BY <1>1, <2>3, NoFileMoves DEF Works
    <3>2. proc'[p].at # "locate"
      <4>1. CASE Name(p)
        BY <4>1 DEF Name, Processor
      <4>2. CASE ~Name(p)
        BY <1>1, <2>3, <4>2, ElsewhereBound
      <4> QED BY <4>1, <4>2
    <3> QED BY <2>0, <3>1, <3>2 DEF MovedIsThere
  <2> QED BY <2>1, <2>2, <2>3
<1>2. CASE Crash
  BY <1>2 DEF Crash, MovedIsThere, Idle
<1>3. ASSUME \/ Refreshes \/ UNCHANGED vars \/ \E f \in Files : Arrive(f)
             \/ \E e \in Asked : Relates(e)
      PROVE  MovedIsThere'
  <2>1. UNCHANGED <<proc, lib>> /\ bare \subseteq bare'
    BY <1>3 DEF Refreshes, RefreshBegin, RefreshSaves, RefreshReads, RefreshFinds, RefreshChecks,
       library, vars, Arrive, Relates
  <2> QED BY <2>1 DEF MovedIsThere
<1> QED
  BY <1>1, <1>2, <1>3 DEF Next

\* An episode without its file stays one that is being replaced.
LEMMA FileStep ==
    ASSUME TypeOK, TypeOK', FileInv, [Next]_vars PROVE FileOrReplaced'
<1> USE FileTypes
<1> DEFINE Bad(e) == ep[e].status = "downloaded" /\ At(ep[e].location) = NoFile
<1>0. HeldRows /\ RowsFollow /\ MovedIsThere /\ FileOrReplaced
  BY DEF FileInv
\* no file is taken away, no processor leaves, records of x only get better
<1>1. ASSUME bare \subseteq bare',
             \A place \in Places : lib[place] # NoFile => lib'[place] # NoFile,
             \A e \in Episodes \ bare' :
                ep'[e] = ep[e] \/ ~Bad(e)' \/ \E p \in Processors : Replaces(p, e)',
             \A p \in Processors : \A e \in Episodes \ bare' :
                Replaces(p, e) => Replaces(p, e)' \/ ~Bad(e)'
      PROVE  FileOrReplaced'
  <2> SUFFICES ASSUME NEW e \in Episodes \ bare', Bad(e)' PROVE \E p \in Processors : Replaces(p, e)'
    BY DEF FileOrReplaced
  <2>1. CASE ep'[e] = ep[e]
    <3>1. At(ep[e].location) = NoFile
      BY <1>1, <2>1 DEF At, Record
    <3> QED BY <1>0, <1>1, <2>1, <3>1 DEF FileOrReplaced
  <2> QED BY <1>1, <2>1
<1>2. ASSUME NEW p \in Processors, Works(p) \/ \E c \in Calls[p] : Begin(p, c)
      PROVE  FileOrReplaced'
  <2>0. \A q \in Processors \ {p} : proc'[q] = proc[q]
    BY <1>2, OneProcessor
  \* a processor that goes on with its video
  <2>1. ASSUME UNCHANGED <<lib, ep>>, bare \subseteq bare',
               proc'[p].at \in Replacing, proc'[p].file = proc[p].file
        PROVE  FileOrReplaced'
    <3>1. \A q \in Processors : \A e \in Episodes : Replaces(q, e) => Replaces(q, e)'
      BY <2>0, <2>1 DEF Replaces
    <3> HIDE DEF Bad
    <3> QED BY <1>1, <2>1, <3>1
  \* one that has no video to replace with
  <2>2. ASSUME UNCHANGED <<lib, ep>>, bare \subseteq bare', proc[p].at \notin Replacing
        PROVE  FileOrReplaced'
    <3>1. \A q \in Processors : \A e \in Episodes : Replaces(q, e) => Replaces(q, e)'
      BY <2>0, <2>2 DEF Replaces
    <3> HIDE DEF Bad
    <3> QED BY <1>1, <2>2, <3>1
  <2>3. CASE Move(p) \/ MoveBreaks(p) \/ CopiesNothing(p)
    <3>1. \A q \in Processors : \A e \in Episodes : Replaces(q, e) => Replaces(q, e)'
      BY <2>3, PuttingKeeps DEF Replaces, Replacing, Processor
    <3> HIDE DEF Bad
    <3> QED BY <1>1, <2>3, <3>1, PuttingKeeps
  <2>4. CASE Delete(p) \/ DeleteFails(p)
    <3>1. PICK places : Removes(p, places)
      BY <2>4 DEF Delete, DeleteFails
    <3>2. /\ \A place \in Places \ places : lib'[place] = lib[place]
          /\ bare \subseteq bare'
          /\ \A e \in Episodes : ep[e].location \in places /\ ~Inside(p, e)' => e \in bare'
      BY <3>1 DEF Removes
    <3>3. ep' = ep /\ proc[p].at = "delete"
      BY <2>4 DEF Delete, DeleteFails, objects
    <3>4. \A e \in Episodes : Inside(p, e)' => Replaces(p, e)'
      <4>1. CASE Delete(p)
        BY <4>1 DEF Delete, Inside, Replaces, Replacing, Processor
      <4>2. CASE DeleteFails(p)
        BY <4>2 DEF DeleteFails, Leaves, Inside, Steps, Processor
      <4> QED BY <2>4, <4>1, <4>2
    <3>5. \A q \in Processors : \A e \in Episodes : Replaces(q, e) => Replaces(q, e)'
      BY <2>0, <3>3 DEF Replaces, Replacing
    <3>6. ASSUME NEW e \in Episodes \ bare', Bad(e)', ~Replaces(p, e)' PROVE Bad(e)
      <4>1. ep[e].location \notin places /\ ep[e].location \in Places \cup {NoPlace}
        BY <3>2, <3>4, <3>6 DEF Record
      <4> QED BY <3>2, <3>3, <3>6, <4>1 DEF At
    <3> QED BY <1>0, <3>2, <3>5, <3>6 DEF FileOrReplaced
  <2>5. CASE Locate(p)
    <3> DEFINE f == proc[p].file
    <3>1. /\ proc[p].at = "locate" /\ UNCHANGED lib /\ bare \subseteq bare'
          /\ (Listed(f) \ Of[f]) \cup (Of[f] \ Listed(f)) \subseteq bare'
          /\ ep' = [e \in Episodes |-> IF e \in Listed(f)
                                       THEN [ep[e] EXCEPT !.location = proc[p].dest] ELSE ep[e]]
      BY <2>5 DEF Locate, Located, library
    <3>2. proc[p].dest \in Places /\ proc[p].dest # NoPlace
      BY <3>1, ProcessAssumption
    <3>3. ASSUME NEW e \in Episodes \ bare', e \in Of[f] PROVE ~Bad(e)'
      <4>1. e \in Listed(f) /\ lib[proc[p].dest] # NoFile
        BY <1>0, <3>1, <3>3 DEF MovedIsThere
      <4>2. ep'[e].location = proc[p].dest /\ lib'[proc[p].dest] # NoFile
        BY <3>1, <4>1 DEF Record
      <4> QED BY <3>2, <4>2 DEF At
    <3>4. \A e \in Episodes \ bare' : ep'[e] = ep[e] \/ ~Bad(e)'
      BY <3>1, <3>3
    <3>5. ASSUME NEW q \in Processors, NEW e \in Episodes \ bare', Replaces(q, e)
          PROVE  Replaces(q, e)' \/ ~Bad(e)'
      BY <2>0, <3>3, <3>5 DEF Replaces
    <3> HIDE DEF Bad
    <3> QED BY <1>1, <3>1, <3>4, <3>5
  <2>6. CASE Change(p)
    <3>1. /\ UNCHANGED lib /\ bare \subseteq bare' /\ Listed(proc[p].file) \ Of[proc[p].file] \subseteq bare'
          /\ \A e \in Episodes \ Listed(proc[p].file) : ep'[e] = ep[e]
      BY <2>6 DEF Change, library
    <3>2. /\ \A e \in Of[proc[p].file] : Replaces(p, e)'
          /\ \A q \in Processors : \A e \in Episodes : Replaces(q, e) => Replaces(q, e)'
      BY <2>0, <2>6 DEF Change, Replaces, Replacing, Processor
    <3> HIDE DEF Bad
    <3> QED BY <1>1, <3>1, <3>2
  <2>7. CASE MoveFails(p)
    <3>1. UNCHANGED <<lib, ep>> /\ bare \subseteq bare' /\ Of[proc[p].file] \subseteq bare'
      BY <2>7 DEF MoveFails, library, objects
    <3>2. \A q \in Processors : \A e \in Episodes \ bare' : Replaces(q, e) => Replaces(q, e)'
      BY <2>0, <3>1 DEF Replaces
    <3> HIDE DEF Bad
    <3> QED BY <1>1, <3>1, <3>2
  <2>8. CASE SaveChange(p)
    BY <2>1, <2>8 DEF SaveChange, Save, library, objects, Replacing, Processor
  <2>9. CASE Name(p)
    BY <2>1, <2>9 DEF Name, library, objects, Replacing, Processor
  <2>10. CASE Relist(p)
    BY <2>1, <2>10 DEF Relist, library, Replacing, Processor
  <2>11. CASE SaveLocation(p)
    BY <2>2, <2>11 DEF SaveLocation, Save, library, objects, Replacing
  <2>12. CASE Refuses(p) \/ Accepts(p)
    BY <2>2, <2>12 DEF Refuses, Accepts, library, Replacing
  <2>13. CASE \/ \E d \in Folders : Enter(p, d)
              \/ BatchSkipped(p) \/ LeaveFolder(p) \/ End(p) \/ \E c \in Calls[p] : Begin(p, c)
    BY <2>2, <2>13 DEF Enter, BatchSkipped, LeaveFolder, End, Begin, library, objects, Replacing
  <2>14. ASSUME NEW f \in Files, Skips(p, f) \/ Takes(p, f) PROVE FileOrReplaced'
    BY <2>2, <2>14 DEF Skips, Takes, Picks, library, objects, Replacing
  <2> QED
    BY <1>2, <2>3, <2>4, <2>5, <2>6, <2>7, <2>8, <2>9, <2>10, <2>11, <2>12, <2>13, <2>14 DEF Works
<1>3. ASSUME UNCHANGED proc
      PROVE  \A p \in Processors : \A e \in Episodes : Replaces(p, e) => Replaces(p, e)'
  BY <1>3 DEF Replaces
<1>4. CASE Crash
  <2>1. ASSUME NEW e \in Episodes \ bare' PROVE row[e] = ep[e] /\ ~\E p \in Processors : Inside(p, e)
    <3>1. /\ e \notin bare /\ e \notin Given(refresh.rows)
          /\ \A p \in Processors : ~Inside(p, e) /\ e \notin Given(proc[p].rows)
      BY <1>4, <2>1 DEF Crash
    <3> QED BY <1>0, <3>1 DEF RowsFollow
  <2>2. /\ ep' = row /\ bare \subseteq bare'
        /\ \A place \in Places : lib[place] # NoFile => lib'[place] # NoFile
    BY <1>4, ProcessAssumption DEF Crash
  <2>3. ASSUME NEW p \in Processors, NEW e \in Episodes \ bare', Replaces(p, e) PROVE FALSE
    BY <2>1, <2>3 DEF Replaces, Replacing, Inside, Steps
  <2> HIDE DEF Bad
  <2> QED BY <1>1, <2>1, <2>2, <2>3
<1>5. ASSUME NEW f \in Files, Arrive(f) PROVE FileOrReplaced'
  <2>1. UNCHANGED <<lib, proc, bare>>
    BY <1>5 DEF Arrive
  <2>2. \A e \in Episodes : ep'[e] = ep[e] \/ ~Bad(e)'
    BY <1>5 DEF Arrive, Record
  <2> HIDE DEF Bad
  <2> QED BY <1>1, <1>3, <2>1, <2>2
<1>6. ASSUME UNCHANGED vars \/ \E e \in Asked : Relates(e) PROVE FileOrReplaced'
  <2>1. UNCHANGED <<lib, proc, bare, ep>>
    BY <1>6 DEF vars, Relates, library
  <2> HIDE DEF Bad
  <2> QED BY <1>1, <1>3, <2>1
<1>7. CASE Refreshes
  <2>1. UNCHANGED <<lib, proc>> /\ bare \subseteq bare'
    BY <1>7 DEF Refreshes, RefreshBegin, RefreshSaves, RefreshReads, RefreshFinds, RefreshChecks,
       library
  <2>3. CASE RefreshBegin \/ RefreshSaves \/ RefreshReads
    <3>1. ep' = ep
      BY <2>3 DEF RefreshBegin, RefreshSaves, RefreshReads, objects
    <3> HIDE DEF Bad
    <3> QED BY <1>1, <1>3, <2>1, <3>1
  <2>4. ASSUME NEW place \in Places, RefreshFinds(place) PROVE FileOrReplaced'
    <3>1. \A e \in Episodes : ep'[e] = ep[e] \/ (lib[place] # NoFile /\ ep'[e].location = place)
      BY <2>4 DEF RefreshFinds
    <3>2. place # NoPlace
      BY ProcessAssumption
    <3>3. \A e \in Episodes : ep'[e] = ep[e] \/ ~Bad(e)'
      BY <2>1, <3>1, <3>2 DEF At
    <3> HIDE DEF Bad
    <3> QED BY <1>1, <1>3, <2>1, <3>3
  <2>5. ASSUME NEW x \in Episodes, RefreshChecks(x) PROVE FileOrReplaced'
    <3>1. /\ bare' = bare
          /\ \A e \in Episodes \ {x} : ep'[e] = ep[e]
          /\ ep'[x] = ep[x] \/ ep'[x].status # "downloaded"
               \/ (ep[x].status = "downloaded" /\ ep[x].location = NoPlace)
      BY <2>5 DEF RefreshChecks, Record
    <3>2. \A e \in Episodes : Bad(e)' => Bad(e)
      BY <2>1, <3>1 DEF At
    <3> HIDE DEF Bad
    <3>3. FileOrReplaced = \A e \in Episodes \ bare : Bad(e) => \E p \in Processors : Replaces(p, e)
      BY DEF FileOrReplaced, Bad
    <3>4. FileOrReplaced' = \A e \in Episodes \ bare' : Bad(e)' => \E p \in Processors : Replaces(p, e)'
      BY DEF FileOrReplaced, Bad
    <3> QED BY <1>0, <1>3, <2>1, <3>1, <3>2, <3>3, <3>4
  <2> QED BY <1>7, <2>3, <2>4, <2>5 DEF Refreshes
<1> QED
  BY <1>2, <1>4, <1>5, <1>6, <1>7 DEF Next

\* Whatever fails and whoever is at work, an episode that counts as downloaded
\* has its file where it says, but while a processor replaces it and after what
\* is named by `bare': a failure, a crash, a row written late, or a shared list
\* that another thread had changed.
THEOREM DownloadedHaveFiles == Spec => []DownloadedHasFile
<1>1. TypeOK /\ TypeOK' /\ FileInv /\ [Next]_vars => FileInv'
  BY HeldStep, RowsStep, MovedStep, FileStep DEF FileInv
<1>2. FileInv => DownloadedHasFile
  BY ProcessAssumption DEF FileInv, FileOrReplaced, DownloadedHasFile, Replaces, Replacing, Inside, Steps
<1> QED
  BY <1>1, <1>2, InitFiles, TypeCorrect, PTL DEF Spec

-----------------------------------------------------------------------------
(***************************************************************************)
(* What no failure and no other processor may be blamed for.               *)
(***************************************************************************)

\* Every video is of one episode.
OneEach == \A f \in Files : \E e \in Episodes : Of[f] = {e}

\* A record locates an episode at a place that is named for it alone, or nowhere.
AtOwnPlace(e, r) == r.location # NoPlace => Named[r.location] = {e}

OwnPlaces(rows) == \A e \in Given(rows) : AtOwnPlace(e, rows[e])

LocationInv ==
    /\ \A e \in Episodes : AtOwnPlace(e, ep[e]) /\ AtOwnPlace(e, row[e])
    /\ \A p \in Processors : OwnPlaces(proc[p].rows)
    /\ OwnPlaces(refresh.rows)

\* The lists stay empty and what is put somewhere is where its name says.
NameInv ==
    /\ related = NoneRelated
    /\ \A place \in Places : lib[place] # NoFile => \E e \in Episodes : Named[place] = {e}
    /\ \A p \in Processors : proc[p].at \in {"move", "locate"} =>
          Named[proc[p].dest] = Of[proc[p].file]

LEMMA NoneElsewhere == OwnPlaces(NoRows)
  BY NoneGiven DEF OwnPlaces

LEMMA DirtyAtOwn ==
    ASSUME \A e \in Episodes : AtOwnPlace(e, ep'[e]), NEW eps
    PROVE  OwnPlaces(Dirty(eps))
  BY DEF OwnPlaces, Given, Dirty

LEMMA WrittenAtOwn ==
    ASSUME \A e \in Episodes : AtOwnPlace(e, row[e]), NEW rows, OwnPlaces(rows)
    PROVE  \A e \in Episodes : AtOwnPlace(e, Written(rows)[e])
  BY DEF OwnPlaces, Given, Written

\* With empty lists, a list has the episode of the video.
LEMMA ListIsOwn ==
    ASSUME OneEach, related = NoneRelated, NEW f \in Files
    PROVE  /\ Of[f] = {Root[f]} /\ Listed(f) = Of[f] /\ Root[f] \in Episodes
           /\ Empties(f) \/ Fills(f) => related' = NoneRelated
<1>1. Of[f] = {Root[f]} /\ Root[f] \in Episodes
  BY FirstOfVideo DEF OneEach
<1>2. Listed(f) = Of[f]
  BY <1>1 DEF Listed, NoneRelated
<1>3. ASSUME Empties(f) \/ Fills(f) PROVE related' = NoneRelated
  BY <1>1, <1>3 DEF Empties, Fills, NoneRelated
<1> QED BY <1>1, <1>2, <1>3

\* A video in the library is at a place that is named for its episode alone.
LEMMA OwnName ==
    ASSUME TypeOK, OneEach, PlaceInv, NameInv, NEW place \in Places, lib[place] \in Files
    PROVE  Named[place] = Of[lib[place]]
<1>1. PICK e \in Episodes : Named[place] = {e}
  BY ProcessAssumption DEF NameInv
<1>2. Root[lib[place]] \in Named[place]
  BY DEF PlaceInv
<1>3. Of[lib[place]] = {Root[lib[place]]}
  BY FirstOfVideo DEF OneEach
<1> QED BY <1>1, <1>2, <1>3

LEMMA ListsStayEmpty ==
    ASSUME TypeOK, OneEach, LocationInv, NameInv, [Next]_vars
    PROVE  related' = NoneRelated
<1> USE FileTypes
<1>0. related = NoneRelated
  BY DEF NameInv
<1>1. ASSUME NEW p \in Processors, Works(p) \/ \E c \in Calls[p] : Begin(p, c)
      PROVE  related' = NoneRelated
  <2>1. CASE \/ \E f \in Files : Takes(p, f)
             \/ Refuses(p) \/ Accepts(p) \/ Relist(p)
    <3>1. CASE \E f \in Files : Takes(p, f)
      BY <1>0, <3>1, ListIsOwn DEF Takes
    <3>2. CASE Refuses(p) \/ Accepts(p) \/ Relist(p)
      <4>1. proc[p].file \in Files
        BY <3>2 DEF Refuses, Accepts, Relist, Steps
      <4> QED BY <1>0, <3>2, <4>1, ListIsOwn DEF Refuses, Accepts, Relist
    <3> QED BY <2>1, <3>1, <3>2
  <2>2. CASE ~(\/ \E f \in Files : Takes(p, f)
               \/ Refuses(p) \/ Accepts(p) \/ Relist(p))
    <3>1. UNCHANGED related
      BY <1>1, <2>2 DEF Works, Begin, Enter, Skips, BatchSkipped, Delete, DeleteFails, Change,
         SaveChange, Save, Name, Move, MoveBreaks, CopiesNothing, Puts, MoveFails, Locate,
         SaveLocation, LeaveFolder, End, objects
    <3> QED BY <1>0, <3>1
  <2> QED BY <2>1, <2>2
<1>2. ASSUME NEW e \in Asked, Relates(e) PROVE related' = NoneRelated
  <2>0. e \in Episodes
    BY ProcessAssumption
  <2>1. CASE related' = [related EXCEPT ![e] = {}]
    BY <1>0, <2>0, <2>1 DEF NoneRelated
  <2>2. CASE /\ ep[e].location # NoPlace
             /\ related' = [related EXCEPT ![e] =
                              @ \cup {x \in Episodes \ {e} : row[x].location = ep[e].location}]
    <3>1. ASSUME NEW x \in Episodes \ {e}, row[x].location = ep[e].location PROVE FALSE
      <4>1. Named[ep[e].location] = {e} /\ Named[row[x].location] = {x}
        BY <2>0, <2>2, <3>1 DEF LocationInv, AtOwnPlace
      <4> QED BY <3>1, <4>1
    <3>2. {x \in Episodes \ {e} : row[x].location = ep[e].location} = {}
      BY <3>1
    <3> QED BY <1>0, <2>0, <2>2, <3>2 DEF NoneRelated
  <2> QED BY <1>2, <2>1, <2>2 DEF Relates
<1>3. ASSUME NEW place \in Places, RefreshFinds(place) PROVE related' = NoneRelated
  <2> DEFINE eps == IF lib[place] = NoFile THEN {}
                    ELSE {e \in Named[place] : ep[e].status # "ignored"}
  <2>1. related' = [e \in Episodes |-> IF eps # {} /\ e = First[eps] THEN related[e] \cup (eps \ {e})
                                       ELSE related[e]]
    BY <1>3 DEF RefreshFinds
  <2>2. eps # {} => eps = {First[eps]}
    <3>1. eps # {} => \E e \in Episodes : eps = {e}
      BY DEF NameInv
    <3> HIDE DEF eps
    <3>2. \A set \in (SUBSET Episodes) \ {{}} : First[set] \in set
      BY ProcessAssumption
    <3>3. eps # {} => eps \in (SUBSET Episodes) \ {{}}
      BY <3>1
    <3> QED BY <3>1, <3>2, <3>3
  <2> HIDE DEF eps
  <2>3. \A e \in Episodes : related[e] = {}
    BY <1>0 DEF NoneRelated
  <2> QED BY <2>1, <2>2, <2>3 DEF NoneRelated
<1>4. CASE Crash
  BY <1>4 DEF Crash
<1>5. ASSUME \/ RefreshBegin \/ RefreshSaves \/ RefreshReads \/ UNCHANGED vars
             \/ \E e \in Episodes : RefreshChecks(e)
             \/ \E f \in Files : Arrive(f)
      PROVE  UNCHANGED related
  BY <1>5 DEF RefreshBegin, RefreshSaves, RefreshReads, RefreshChecks, vars, Arrive, objects
<1> QED
  BY <1>0, <1>1, <1>2, <1>3, <1>4, <1>5 DEF Next, Refreshes

LEMMA NameStep ==
    ASSUME TypeOK, OneEach, LocationInv, NameInv, [Next]_vars
    PROVE  NameInv'
<1> USE FileTypes
<1>0. /\ related = NoneRelated /\ related' = NoneRelated
      /\ \A place \in Places : lib[place] # NoFile => \E e \in Episodes : Named[place] = {e}
      /\ \A p \in Processors : proc[p].at \in {"move", "locate"} =>
            Named[proc[p].dest] = Of[proc[p].file]
  BY ListsStayEmpty DEF NameInv
<1>1. ASSUME NEW p \in Processors, Works(p) \/ \E c \in Calls[p] : Begin(p, c) PROVE NameInv'
  <2>0. \A q \in Processors \ {p} : proc'[q] = proc[q]
    BY <1>1, OneProcessor
  <2>1. CASE Move(p) \/ MoveBreaks(p) \/ CopiesNothing(p)
    <3>1. proc[p].at = "move" /\ proc[p].file \in Files /\ proc[p].dest \in Places
      BY <2>1, PuttingKeeps DEF Steps
    <3>2. \E e \in Episodes : Named[proc[p].dest] = {e}
      BY <1>0, <3>1 DEF OneEach
    <3>3. \A place \in Places \ {proc[p].dest} : lib'[place] = lib[place]
      BY <2>1 DEF Move, MoveBreaks, CopiesNothing, Puts
    <3>4. proc'[p].file = proc[p].file /\ proc'[p].dest = proc[p].dest
      BY <2>1, PuttingKeeps DEF Processor
    <3> QED BY <1>0, <2>0, <3>1, <3>2, <3>3, <3>4 DEF NameInv
  <2>2. CASE Name(p)
    <3>1. /\ proc[p].file \in Files /\ proc'[p].file = proc[p].file /\ lib' = lib
          /\ proc'[p].dest = Path[proc[p].file][Listed(proc[p].file)]
      BY <2>2, InsideTyped DEF Name, Steps, Processor, library
    <3>2. Named[proc'[p].dest] = Listed(proc[p].file)
      BY <3>1, ListedPlace DEF TypeOK
    <3> QED BY <1>0, <2>0, <3>1, <3>2, ListIsOwn DEF NameInv
  <2>3. CASE ~(Move(p) \/ MoveBreaks(p) \/ CopiesNothing(p) \/ Name(p))
    <3>1. proc'[p].at \notin {"move", "locate"}
      BY <1>1, <2>3, ElsewhereBound
    <3>2. \A place \in Places : lib'[place] \in {lib[place], NoFile}
      <4>1. ASSUME NEW places, Removes(p, places)
            PROVE  \A place \in Places : lib'[place] \in {lib[place], NoFile}
        BY <4>1 DEF Removes
      <4>2. CASE Delete(p) \/ DeleteFails(p)
        BY <4>1, <4>2 DEF Delete, DeleteFails
      <4>3. CASE ~(Delete(p) \/ DeleteFails(p))
        BY <1>1, <2>3, <4>3, NoFileMoves DEF Works
      <4> QED BY <4>2, <4>3
    <3> QED BY <1>0, <2>0, <3>1, <3>2 DEF NameInv
  <2> QED BY <2>1, <2>2, <2>3
<1>2. CASE Crash
  <2>1. PICK torn \in SUBSET {p \in Processors : proc[p].at = "move" /\ proc[p].file \in down} :
          lib' = [place \in Places |->
                    IF \E p \in torn : proc[p].dest = place THEN Broken ELSE lib[place]]
    BY <1>2 DEF Crash
  <2>2. ASSUME NEW place \in Places, lib'[place] # NoFile
        PROVE  \E e \in Episodes : Named[place] = {e}
    <3>1. CASE \E p \in torn : proc[p].dest = place
      BY <1>0, <3>1 DEF OneEach, Steps
    <3>2. CASE ~\E p \in torn : proc[p].dest = place
      BY <1>0, <2>1, <2>2, <3>2
    <3> QED BY <3>1, <3>2
  <2>3. \A p \in Processors : proc'[p].at = "idle"
    BY <1>2 DEF Crash, Idle
  <2> QED BY <1>0, <2>2, <2>3 DEF NameInv
<1>3. ASSUME \/ Refreshes \/ UNCHANGED vars \/ \E f \in Files : Arrive(f)
             \/ \E e \in Asked : Relates(e)
      PROVE  NameInv'
  <2>1. UNCHANGED <<lib, proc>>
    BY <1>3 DEF Refreshes, RefreshBegin, RefreshSaves, RefreshReads, RefreshFinds, RefreshChecks,
       library, vars, Arrive, Relates
  <2> QED BY <1>0, <2>1 DEF NameInv
<1> QED
  BY <1>1, <1>2, <1>3 DEF Next

LEMMA LocationStep ==
    ASSUME TypeOK, TypeOK', OneEach, LocationInv, NameInv, [Next]_vars
    PROVE  LocationInv'
<1> USE FileTypes
<1>0. /\ \A e \in Episodes : AtOwnPlace(e, ep[e]) /\ AtOwnPlace(e, row[e])
      /\ \A p \in Processors : OwnPlaces(proc[p].rows)
      /\ OwnPlaces(refresh.rows)
      /\ related = NoneRelated
  BY DEF LocationInv, NameInv
<1>1. ASSUME \A e \in Episodes : AtOwnPlace(e, ep'[e]),
             \A e \in Episodes : AtOwnPlace(e, row'[e]),
             \A p \in Processors : OwnPlaces(proc'[p].rows),
             OwnPlaces(refresh'.rows)
      PROVE  LocationInv'
  BY <1>1 DEF LocationInv, OwnPlaces, AtOwnPlace, Given
<1>2. ASSUME NEW p \in Processors, Works(p) \/ \E c \in Calls[p] : Begin(p, c)
      PROVE  LocationInv'
  <2>0. UNCHANGED refresh /\ \A q \in Processors \ {p} : proc'[q] = proc[q]
    BY <1>2, RefreshStays, OneProcessor
  <2>1. ASSUME UNCHANGED <<ep, row>>, proc'[p].rows \in {proc[p].rows, NoRows}
        PROVE  LocationInv'
    BY <1>0, <1>1, <2>0, <2>1, NoneElsewhere
  <2>2. ASSUME NEW d \in Folders, Enter(p, d) PROVE LocationInv'
    BY <2>1, <2>2 DEF Enter, tables, objects, Processor
  <2>3. ASSUME NEW f \in Files, Takes(p, f) PROVE LocationInv'
    BY <2>1, <2>3 DEF Takes, tables, Processor
  <2>4. CASE BatchSkipped(p) \/ LeaveFolder(p)
    <3>1. UNCHANGED <<ep, row>>
      BY <2>4 DEF BatchSkipped, LeaveFolder, tables, objects
    <3>2. CASE BatchSkipped(p)
      BY <2>1, <3>1, <3>2 DEF BatchSkipped, Processor
    <3>3. CASE LeaveFolder(p)
      BY <2>1, <3>1, <3>3 DEF LeaveFolder, Processor
    <3> QED BY <2>4, <3>2, <3>3
  <2>5. CASE Refuses(p) \/ DeleteFails(p) \/ MoveFails(p)
    <3>1. UNCHANGED <<ep, row>> /\ Leaves(p)
      BY <2>5 DEF Refuses, DeleteFails, MoveFails, tables, objects
    <3>2. proc'[p].rows = proc[p].rows
      BY <3>1 DEF Leaves, Processor
    <3> QED BY <2>1, <3>1, <3>2
  <2>6. CASE Accepts(p) \/ Delete(p)
    <3>1. UNCHANGED <<ep, row>>
      BY <2>6 DEF Accepts, Delete, tables, objects
    <3>2. proc'[p].rows = proc[p].rows
      BY <2>6 DEF Accepts, Delete, Processor
    <3> QED BY <2>1, <3>1, <3>2
  <2>7. CASE Relist(p) \/ Name(p)
    <3>1. UNCHANGED <<ep, row>>
      BY <2>7 DEF Relist, Name, tables, objects
    <3>2. CASE Relist(p)
      BY <2>1, <3>1, <3>2 DEF Relist, Processor
    <3>3. CASE Name(p)
      BY <2>1, <3>1, <3>3 DEF Name, Processor
    <3> QED BY <2>7, <3>2, <3>3
  <2>8. CASE End(p) \/ \E c \in Calls[p] : Begin(p, c)
    <3>1. UNCHANGED <<ep, row>>
      BY <2>8 DEF End, Begin, tables, objects
    <3>2. ASSUME End(p) PROVE proc'[p].rows = NoRows
      BY <3>2 DEF End, Idle
    <3>3. ASSUME NEW c \in Calls[p], Begin(p, c) PROVE proc'[p].rows = NoRows
      BY <3>3 DEF Begin, Idle
    <3> QED BY <2>1, <2>8, <3>1, <3>2, <3>3
  <2>9. CASE Move(p) \/ MoveBreaks(p) \/ CopiesNothing(p)
    BY <2>1, <2>9, PuttingKeeps DEF Processor
  <2>10. ASSUME NEW f \in Files, Skips(p, f) PROVE LocationInv'
    <3>1. ep' = ep /\ \A q \in Processors : proc'[q].rows = proc[q].rows
      BY <2>10 DEF Skips, Processor, objects
    <3>2. ASSUME NEW e \in Episodes PROVE row'[e].location = row[e].location
      <4>1. CASE UNCHANGED row
        BY <4>1
      <4>2. ASSUME NEW x, row' = [row EXCEPT ![Root[f]].status = x]
            PROVE  row'[e].location = row[e].location
        BY <4>2 DEF Record
      <4> QED BY <2>10, <4>1, <4>2 DEF Skips
    <3>3. \A e \in Episodes : AtOwnPlace(e, row'[e])
      BY <1>0, <3>2 DEF AtOwnPlace
    <3> QED BY <1>0, <1>1, <2>0, <3>1, <3>3
  <2>11. CASE SaveChange(p) \/ SaveLocation(p)
    <3>1. ep' = ep /\ row' = Written(proc[p].rows) /\ proc'[p].rows = NoRows
      BY <2>11 DEF SaveChange, SaveLocation, Save, Processor, objects
    <3>2. \A e \in Episodes : AtOwnPlace(e, row'[e])
      BY <1>0, <3>1, WrittenAtOwn
    <3> QED BY <1>0, <1>1, <2>0, <3>1, <3>2, NoneElsewhere
  <2>12. ASSUME NEW eps, row' = row, proc'[p].rows = Dirty(eps),
                \A e \in Episodes : AtOwnPlace(e, ep'[e])
         PROVE  LocationInv'
    BY <1>0, <1>1, <2>0, <2>12, DirtyAtOwn
  <2>13. CASE Change(p)
    <3>1. row' = row /\ proc'[p].rows = Dirty(Listed(proc[p].file))
      BY <2>13 DEF Change, tables, Processor
    <3>2. \A e \in Episodes : ep'[e].location = ep[e].location
      BY <2>13 DEF Change
    <3>3. \A e \in Episodes : AtOwnPlace(e, ep'[e])
      BY <1>0, <3>2 DEF AtOwnPlace
    <3> QED BY <2>12, <3>1, <3>3
  <2>14. CASE Locate(p)
    <3> DEFINE f == proc[p].file
    <3>1. row' = row /\ proc'[p].rows = Dirty(Located(f)) /\ f \in Files
      BY <2>14 DEF Locate, tables, Processor, Steps
    <3>2. \A e \in Episodes : \/ ep'[e] = ep[e]
                              \/ e \in Listed(f) /\ ep'[e].location = proc[p].dest
      BY <2>14 DEF Locate, Located, Record
    <3>3. Named[proc[p].dest] = Of[f]
      BY <2>14 DEF Locate, NameInv
    <3>4. \A e \in Listed(f) : Of[f] = {e}
      BY <1>0, <3>1, ListIsOwn
    <3>5. \A e \in Episodes : AtOwnPlace(e, ep'[e])
      BY <1>0, <3>2, <3>3, <3>4 DEF AtOwnPlace
    <3> QED BY <2>12, <3>1, <3>5
  <2> QED
    BY <1>2, <2>2, <2>3, <2>4, <2>5, <2>6, <2>7, <2>8, <2>9, <2>10, <2>11, <2>13, <2>14 DEF Works
<1>3. ASSUME NEW f \in Files, Arrive(f) PROVE LocationInv'
  <2>1. UNCHANGED <<proc, refresh>> /\ \A e \in Episodes : ep'[e].location = ep[e].location
    BY <1>3 DEF Arrive, Record
  <2>2. \A e \in Episodes : AtOwnPlace(e, ep'[e])
    BY <1>0, <2>1 DEF AtOwnPlace
  <2>3. row' = row \/ row' = Written(Dirty(Of[f]))
    BY <1>3 DEF Arrive
  <2>4. \A e \in Episodes : AtOwnPlace(e, row'[e])
    BY <1>0, <2>2, <2>3, DirtyAtOwn, WrittenAtOwn
  <2> QED BY <1>0, <1>1, <2>1, <2>2, <2>4
<1>4. CASE Crash
  <2>1. /\ ep' = row /\ row' = row /\ refresh'.rows = NoRows
        /\ \A p \in Processors : proc'[p].rows = NoRows
    BY <1>4 DEF Crash, Idle, Resting, tables
  <2> QED BY <1>0, <1>1, <2>1, NoneElsewhere
<1>5. ASSUME UNCHANGED vars \/ \E e \in Asked : Relates(e) PROVE LocationInv'
  <2>1. UNCHANGED <<ep, row, proc, refresh>>
    BY <1>5 DEF vars, Relates, tables
  <2> QED BY <1>0, <1>1, <2>1
<1>6. CASE Refreshes
  <2>0. UNCHANGED proc
    BY <1>6 DEF Refreshes, RefreshBegin, RefreshSaves, RefreshReads, RefreshFinds, RefreshChecks
  <2>1. CASE RefreshBegin \/ RefreshReads
    <3>1. refresh'.rows = refresh.rows /\ UNCHANGED <<ep, row>>
      BY <2>1 DEF RefreshBegin, RefreshReads, Refresh, tables, objects
    <3> QED BY <1>0, <1>1, <2>0, <3>1
  <2>2. CASE RefreshSaves
    <3>1. refresh'.rows = NoRows /\ ep' = ep /\ row' = Written(refresh.rows)
      <4>1. CASE refresh' = [refresh EXCEPT !.at = "find", !.rows = NoRows]
        BY <2>2, <4>1 DEF RefreshSaves, Refresh, objects
      <4>2. CASE refresh' = Resting(refresh.nth)
        BY <2>2, <4>2 DEF RefreshSaves, Resting, objects
      <4> QED BY <2>2, <4>1, <4>2 DEF RefreshSaves
    <3> QED BY <1>0, <1>1, <2>0, <3>1, NoneElsewhere, WrittenAtOwn
  <2>3. ASSUME NEW place \in Places, RefreshFinds(place) PROVE LocationInv'
    <3>1. refresh'.rows = Dirty(Episodes) /\ row' = row
      BY <2>3 DEF RefreshFinds, Refresh, tables
    <3>2. \A e \in Episodes : \/ ep'[e] = ep[e]
                              \/ /\ lib[place] # NoFile /\ e \in Named[place]
                                 /\ ep'[e].location = place
      BY <2>3 DEF RefreshFinds
    <3>3. \A e \in Episodes : AtOwnPlace(e, ep'[e])
      BY <1>0, <3>2 DEF AtOwnPlace, NameInv
    <3> QED BY <1>0, <1>1, <2>0, <3>1, <3>3, DirtyAtOwn
  <2>4. ASSUME NEW x \in Episodes, RefreshChecks(x) PROVE LocationInv'
    <3>1. /\ row' = row
          /\ \A e \in Episodes : ep'[e] = ep[e] \/ ep'[e].location = NoPlace
      BY <2>4 DEF RefreshChecks, tables, Record
    <3>2. \A e \in Episodes : AtOwnPlace(e, ep'[e])
      BY <1>0, <3>1 DEF AtOwnPlace
    <3>3. \A e \in Episodes : refresh'.rows[e] \in {refresh.rows[e], Dirty({x})[e]}
      <4> DEFINE n == Dirty({x})
      <4>1. refresh'.rows = [refresh.rows EXCEPT ![x] = IF n[x] # NoRow THEN n[x] ELSE @]
        BY <2>4 DEF RefreshChecks, Refresh
      <4> HIDE DEF n
      <4>2. \A e \in Episodes : refresh'.rows[e] \in {refresh.rows[e], n[e]}
        BY <4>1 DEF Rows
      <4> QED BY <4>2 DEF n
    <3>4. OwnPlaces(Dirty({x}))
      BY <3>2, DirtyAtOwn
    <3>5. OwnPlaces(refresh'.rows)
      BY <1>0, <3>3, <3>4 DEF OwnPlaces, Given
    <3> QED BY <1>0, <1>1, <2>0, <3>1, <3>2, <3>5
  <2> QED BY <1>6, <2>1, <2>2, <2>3, <2>4 DEF Refreshes
<1> QED
  BY <1>2, <1>3, <1>4, <1>5, <1>6 DEF Next

\* With videos of one episode each the shared lists are never more than that
\* episode, whoever fills, resets or appends to them, and whatever is written
\* late, torn by a crash or found by a refresh, no record, in the dict or in the
\* table, locates an episode at a place that is named for another.
THEOREM EpisodesAtOwnPlaces ==
    ASSUME OneEach
    PROVE  Spec => [](NameInv /\ LocationInv)
<1>1. Init => NameInv /\ LocationInv
  BY NoneElsewhere DEF Init, NameInv, LocationInv, AtOwnPlace, Idle, Resting
<1>2. TypeOK /\ TypeOK' /\ NameInv /\ LocationInv /\ [Next]_vars => NameInv' /\ LocationInv'
  BY NameStep, LocationStep
<1> QED
  BY <1>1, <1>2, TypeCorrect, PTL DEF Spec

\* One processor, and videos of one episode each.
Alone(p) == Processors = {p} /\ OneEach

\* A step in which nothing fails and the process does not crash.
Calm == trouble' = trouble

\* What such a processor works on is there until it has moved it.
Before == {"judge", "delete", "relist", "fill", "change", "save", "name", "move"}
WorksOnWhatIs == \A p \in Processors : proc[p].at \in Before => proc[p].file \in down

LEMMA CalmMeansNoCrash == ASSUME TypeOK, Calm PROVE ~Fault
  BY ProcessAssumption DEF TypeOK, Calm, Fault

LEMMA WorksStep ==
    ASSUME TypeOK, WorksOnWhatIs, NEW p, Alone(p), Calm, [Next]_vars
    PROVE  WorksOnWhatIs'
<1> USE FileTypes
<1>0. Processors = {p} /\ p \in Processors /\ ~Fault
  BY CalmMeansNoCrash DEF Alone
<1>1. ASSUME proc'[p].at \notin Before PROVE WorksOnWhatIs'
  BY <1>0, <1>1 DEF WorksOnWhatIs
<1>2. ASSUME proc[p].at \in Before, proc'[p].file = proc[p].file, down \subseteq down'
      PROVE  WorksOnWhatIs'
  BY <1>0, <1>2 DEF WorksOnWhatIs
<1>3. ASSUME Works(p) \/ \E c \in Calls[p] : Begin(p, c) PROVE WorksOnWhatIs'
  <2>1. ASSUME NEW c \in Calls[p], Begin(p, c) PROVE WorksOnWhatIs'
    BY <1>0, <1>1, <2>1 DEF Begin, Idle, Before
  <2>2. ASSUME NEW d \in Folders, Enter(p, d) PROVE WorksOnWhatIs'
    BY <1>0, <1>1, <2>2 DEF Enter, Processor, Before
  <2>3. ASSUME NEW f \in Files, Skips(p, f) PROVE WorksOnWhatIs'
    BY <1>0, <1>1, <2>3 DEF Skips, Picks, Processor, Before
  <2>4. ASSUME NEW f \in Files, Takes(p, f) PROVE WorksOnWhatIs'
    <3>1. f \in down
      BY <2>4 DEF Takes, Picks
    <3>2. down' = down /\ proc'[p].file = f
      BY <1>0, <2>4 DEF Takes, Processor, library
    <3> QED BY <1>0, <3>1, <3>2 DEF WorksOnWhatIs
  <2>5. CASE BatchSkipped(p)
    BY <1>0, <1>1, <2>5 DEF BatchSkipped, Processor, Before
  <2>6. CASE LeaveFolder(p) \/ End(p)
    <3>1. CASE LeaveFolder(p)
      BY <1>0, <1>1, <3>1 DEF LeaveFolder, Processor, Before
    <3>2. CASE End(p)
      BY <1>0, <1>1, <3>2 DEF End, Idle, Before
    <3> QED BY <2>6, <3>1, <3>2
  <2>7. CASE Refuses(p) \/ DeleteFails(p) \/ MoveFails(p)
    <3>1. Leaves(p)
      BY <2>7 DEF Refuses, DeleteFails, MoveFails
    <3> QED BY <1>0, <1>1, <3>1 DEF Leaves, Processor, Before
  <2>8. CASE Accepts(p) \/ Delete(p)
    <3>1. down' = down /\ proc[p].at \in Before
      BY <2>8 DEF Accepts, Delete, library, Before
    <3>2. proc'[p].file = proc[p].file
      BY <1>0, <2>8 DEF Accepts, Delete, Processor
    <3> QED BY <1>2, <3>1, <3>2
  <2>9. CASE Relist(p) \/ Change(p) \/ SaveChange(p) \/ Name(p)
    <3>1. down' = down /\ proc[p].at \in Before
      BY <2>9 DEF Relist, Change, SaveChange, Save, Name, library, Before
    <3>2. CASE Relist(p)
      BY <1>0, <1>2, <3>1, <3>2 DEF Relist, Processor
    <3>3. CASE Change(p)
      BY <1>0, <1>2, <3>1, <3>3 DEF Change, Processor
    <3>4. CASE SaveChange(p)
      BY <1>0, <1>2, <3>1, <3>4 DEF SaveChange, Processor
    <3>5. CASE Name(p)
      BY <1>0, <1>2, <3>1, <3>5 DEF Name, Processor
    <3> QED BY <2>9, <3>2, <3>3, <3>4, <3>5
  <2>10. CASE Move(p) \/ MoveBreaks(p) \/ CopiesNothing(p)
    <3>1. proc' = [proc EXCEPT ![p].at = "locate"]
      BY <1>0, <2>10, PuttingKeeps
    <3> QED BY <1>0, <1>1, <3>1 DEF Processor, Before
  <2>11. CASE Locate(p)
    BY <1>0, <1>1, <2>11 DEF Locate, Processor, Before
  <2>12. CASE SaveLocation(p)
    BY <1>0, <1>1, <2>12 DEF SaveLocation, Processor, Before
  <2> QED
    BY <1>3, <2>1, <2>2, <2>3, <2>4, <2>5, <2>6, <2>7, <2>8, <2>9, <2>10, <2>11, <2>12 DEF Works
<1>4. ~Crash
  BY <1>0 DEF Crash
<1>5. ASSUME \/ Refreshes \/ UNCHANGED vars \/ \E f \in Files : Arrive(f)
             \/ \E e \in Asked : Relates(e)
      PROVE  WorksOnWhatIs'
  <2>1. UNCHANGED proc /\ down \subseteq down'
    BY <1>5 DEF Refreshes, RefreshBegin, RefreshSaves, RefreshReads, RefreshFinds, RefreshChecks,
       library, vars, Arrive, Relates
  <2> QED BY <2>1 DEF WorksOnWhatIs
<1> QED
  BY <1>0, <1>3, <1>4, <1>5 DEF Next

\* A processor that stops deleting has deleted.
LEMMA DeletesOnly ==
    ASSUME TypeOK, NEW p, Alone(p), Calm, [Next]_vars,
           proc[p].at = "delete", proc'[p].at # "delete"
    PROVE  Delete(p)
<1> USE FileTypes
<1>0. Processors = {p} /\ p \in Processors /\ ~Fault
  BY CalmMeansNoCrash DEF Alone
<1>1. ASSUME Works(p), ~Delete(p) PROVE FALSE
  BY <1>0, <1>1 DEF Works, Enter, Skips, Takes, Picks, Refuses, Accepts, BatchSkipped, LeaveFolder,
     End, DeleteFails, Relist, Change, SaveChange, Name, Move, MoveBreaks, CopiesNothing, MoveFails,
     Locate, SaveLocation
<1>2. ASSUME NEW c \in Calls[p], Begin(p, c) PROVE FALSE
  BY <1>2 DEF Begin
<1>3. ASSUME \/ Refreshes \/ UNCHANGED vars \/ \E f \in Files : Arrive(f)
             \/ \E e \in Asked : Relates(e)
      PROVE  UNCHANGED proc
  BY <1>3 DEF Refreshes, RefreshBegin, RefreshSaves, RefreshReads, RefreshFinds, RefreshChecks,
     vars, Arrive, Relates
<1>4. ~Crash
  BY <1>0 DEF Crash
<1> QED BY <1>0, <1>1, <1>2, <1>3, <1>4 DEF Next

\* What such a processor deletes is of its video's episode alone.
LEMMA DeletesOwn ==
    ASSUME TypeOK, LocationInv, NameInv, NEW p \in Processors, OneEach, Delete(p)
    PROVE  \E places : /\ Removes(p, places)
                       /\ \A place \in places : Named[place] = Of[proc[p].file]
<1>1. PICK places \in SUBSET Locations(Listed(proc[p].file)) : Removes(p, places)
  BY DEF Delete
<1>2. proc[p].file \in Files
  BY InsideTyped DEF Delete, Steps
<1>3. Listed(proc[p].file) = {Root[proc[p].file]} /\ Of[proc[p].file] = {Root[proc[p].file]}
      /\ Root[proc[p].file] \in Episodes
  BY <1>2, ListIsOwn DEF NameInv
<1>4. ASSUME NEW place \in places PROVE Named[place] = Of[proc[p].file]
  <2>1. place = ep[Root[proc[p].file]].location /\ place # NoPlace
    BY <1>1, <1>3 DEF Locations
  <2> QED BY <1>3, <2>1 DEF LocationInv, AtOwnPlace
<1> QED BY <1>1, <1>4

LEMMA AloneKeeps ==
    ASSUME TypeOK, PlaceInv, NameInv, LocationInv, WorksOnWhatIs, NEW p, Alone(p),
           \A c \in Calls[p] : ~c.tidy, Calm, [Next]_vars, NEW e \in Episodes, HasMedia(e)
    PROVE  HasMedia(e)'
<1> SUFFICES ASSUME ~HasMedia(e)' PROVE FALSE
  OBVIOUS
<1>0. Processors = {p} /\ p \in Processors /\ OneEach /\ trouble \in Nat /\ trouble' = trouble
  BY ProcessAssumption DEF Alone, Calm, TypeOK
<1>1. ~Overwrites(p, e)
  <2> SUFFICES ASSUME Overwrites(p, e) PROVE FALSE
    OBVIOUS
  <2>1. /\ proc[p].at = "move" /\ lib[proc[p].dest] \in Files
        /\ \/ Named[proc[p].dest] # Of[proc[p].file]
           \/ Named[proc[p].dest] # Of[lib[proc[p].dest]]
    BY DEF Overwrites
  <2>2. Named[proc[p].dest] = Of[proc[p].file] /\ proc[p].dest \in Places
    BY <1>0, <2>1, FileTypes DEF NameInv
  <2> QED BY <1>0, <2>1, <2>2, OwnName
<1>2. /\ proc[p].at = "delete" /\ proc'[p].at # "delete"
      /\ e \notin Of[proc[p].file] \/ proc[p].file \notin down
  <2>1. LoseInNamedWay(e)
    BY LastFileStep
  <2>2. ~(trouble' > trouble)
    BY <1>0
  <2>3. ~proc[p].call.tidy
    BY <1>0 DEF TypeOK
  <2> QED BY <1>0, <1>1, <2>1, <2>2, <2>3 DEF LoseInNamedWay
<1>3. Delete(p) /\ e \notin Of[proc[p].file]
  BY <1>0, <1>2, DeletesOnly DEF WorksOnWhatIs, Before
<1>4. PICK places : /\ Removes(p, places)
                    /\ \A place \in places : Named[place] = Of[proc[p].file]
  BY <1>0, <1>3, DeletesOwn
<1>5. down' = down /\ \A place \in Places \ places : lib'[place] = lib[place]
  BY <1>3, <1>4 DEF Delete, Removes
<1>6. PICK place \in Places : lib[place] \in Files /\ e \in Of[lib[place]]
  BY <1>5 DEF HasMedia, Held, Waiting
<1>7. place \in places
  BY <1>5, <1>6 DEF HasMedia, Held
<1>8. Named[place] = Of[lib[place]]
  BY <1>0, <1>6, OwnName
<1> QED BY <1>3, <1>4, <1>6, <1>7, <1>8

\* With one processor that removes no folders, videos of one episode each and
\* neither failures nor crashes, no episode loses its last file: not by the
\* deletion before the move, a refresh, a replacement, a wrong location or a list
\* that a page or a refresh has changed.
THEOREM AloneNoFileIsLost ==
    ASSUME NEW p, Alone(p), \A c \in Calls[p] : ~c.tidy
    PROVE  Spec /\ [][Calm]_vars => [][\A e \in Episodes : HasMedia(e) => HasMedia(e)']_vars
<1>0. OneEach
  BY DEF Alone
<1>1. Init => WorksOnWhatIs
  BY DEF Init, WorksOnWhatIs, Idle, Before
<1>2. TypeOK /\ WorksOnWhatIs /\ [Next]_vars /\ [Calm]_vars => WorksOnWhatIs'
  <2>1. ASSUME TypeOK, WorksOnWhatIs, UNCHANGED vars PROVE WorksOnWhatIs'
    BY <2>1 DEF vars, WorksOnWhatIs
  <2> QED BY <2>1, WorksStep
<1>3. TypeOK /\ PlaceInv /\ NameInv /\ LocationInv /\ WorksOnWhatIs /\ [Next]_vars /\ [Calm]_vars =>
        [\A e \in Episodes : HasMedia(e) => HasMedia(e)']_vars
  BY AloneKeeps
<1>4. Spec => [](NameInv /\ LocationInv)
  BY <1>0, EpisodesAtOwnPlaces
<1> QED
  BY <1>1, <1>2, <1>3, <1>4, TypeCorrect, VideosUnderTheirNames, PTL DEF Spec

Bare(e) == ep[e].status = "downloaded" /\ At(ep[e].location) = NoFile

\* What was moved is in its place, and no file is missing but the one replaced.
NothingMissing ==
    \A p \in Processors :
       /\ proc[p].at = "locate" => lib[proc[p].dest] # NoFile
       /\ \A e \in Episodes : Bare(e) => Replaces(p, e)

LEMMA MissingStep ==
    ASSUME TypeOK, NameInv, LocationInv, WorksOnWhatIs, NothingMissing, NEW p, Alone(p), Calm,
           [Next]_vars
    PROVE  NothingMissing'
<1> USE FileTypes
<1>0. /\ Processors = {p} /\ p \in Processors /\ OneEach /\ ~Fault
      /\ proc[p].at = "locate" => lib[proc[p].dest] # NoFile
      /\ \A e \in Episodes : Bare(e) => Replaces(p, e)
  BY CalmMeansNoCrash DEF Alone, NothingMissing
<1>1. ASSUME proc'[p].at = "locate" => lib'[proc'[p].dest] # NoFile,
             \A e \in Episodes : Bare(e)' => Replaces(p, e)'
      PROVE  NothingMissing'
  BY <1>0, <1>1 DEF NothingMissing
\* no file is taken away
<1>2. ASSUME \A place \in Places : lib[place] # NoFile => lib'[place] # NoFile, NEW e \in Episodes,
             ep'[e] = ep[e] \/ (ep'[e].status = ep[e].status /\ ep'[e].location = ep[e].location),
             Bare(e)'
      PROVE  Bare(e)
  BY <1>2 DEF Bare, At, Record
\* the video of a processor that puts or replaces is a file of one episode
<1>3. ASSUME proc[p].at \in Steps
      PROVE  Listed(proc[p].file) = Of[proc[p].file]
  BY <1>0, <1>3, ListIsOwn DEF NameInv
<1>4. ASSUME Works(p) \/ \E c \in Calls[p] : Begin(p, c) PROVE NothingMissing'
  <2>1. ASSUME UNCHANGED <<lib, ep>>, proc'[p].at # "locate",
               \A e \in Episodes : Replaces(p, e) => Replaces(p, e)'
        PROVE  NothingMissing'
    BY <1>0, <1>1, <1>2, <2>1
  <2>2. ASSUME UNCHANGED <<lib, ep>>, proc'[p].at # "locate", proc[p].at \notin Replacing
        PROVE  NothingMissing'
    BY <2>1, <2>2 DEF Replaces
  <2>3. ASSUME UNCHANGED <<lib, ep>>, proc'[p].at \in Replacing \ {"locate"},
               proc'[p].file = proc[p].file
        PROVE  NothingMissing'
    BY <2>1, <2>3 DEF Replaces
  <2>4. CASE Move(p) \/ MoveBreaks(p) \/ CopiesNothing(p)
    <3>1. /\ \A place \in Places : lib[place] # NoFile => lib'[place] # NoFile
          /\ lib'[proc[p].dest] # NoFile /\ ep' = ep /\ proc[p].at = "move"
      BY <1>0, <2>4, PuttingKeeps
    <3>2. proc'[p].at = "locate" /\ proc'[p].file = proc[p].file /\ proc'[p].dest = proc[p].dest
      BY <1>0, <2>4, PuttingKeeps DEF Processor
    <3> QED BY <1>0, <1>1, <1>2, <3>1, <3>2 DEF Replaces, Replacing
  <2>5. CASE Name(p)
    BY <1>0, <2>3, <2>5 DEF Name, library, objects, Replacing, Processor
  <2>6. CASE Delete(p)
    <3>1. PICK places : /\ Removes(p, places)
                        /\ \A place \in places : Named[place] = Of[proc[p].file]
      BY <1>0, <2>6, DeletesOwn
    <3>2. /\ \A place \in Places \ places : lib'[place] = lib[place]
          /\ ep' = ep /\ proc[p].at = "delete"
      BY <2>6, <3>1 DEF Delete, Removes, objects
    <3>3. proc'[p].at = "relist" /\ proc'[p].file = proc[p].file
      BY <1>0, <2>6 DEF Delete, Processor
    <3>4. ASSUME NEW e \in Episodes, Bare(e)' PROVE e \in Of[proc[p].file]
      <4>1. ~Bare(e)
        BY <1>0, <3>2 DEF Replaces, Replacing
      <4>2. ep[e].location \in places /\ ep[e].location \in Places
        BY <3>2, <3>4, <4>1 DEF Bare, At, Record
      <4>3. Named[ep[e].location] = {e}
        BY <4>2, ProcessAssumption DEF LocationInv, AtOwnPlace
      <4> QED BY <3>1, <4>2, <4>3
    <3> QED BY <1>1, <3>3, <3>4 DEF Replaces, Replacing
  <2>7. ~DeleteFails(p) /\ ~MoveFails(p)
    BY <1>0 DEF DeleteFails, MoveFails, WorksOnWhatIs, Before
  <2>8. CASE Relist(p)
    BY <1>0, <2>3, <2>8 DEF Relist, library, Replacing, Processor
  <2>9. CASE Change(p)
    <3>1. UNCHANGED lib /\ proc[p].at = "change" /\ \A e \in Episodes \ Of[proc[p].file] : ep'[e] = ep[e]
      BY <1>3, <2>9 DEF Change, library, Steps
    <3>2. proc'[p].at = "save" /\ proc'[p].file = proc[p].file
      BY <1>0, <2>9 DEF Change, Processor
    <3> QED BY <1>0, <1>1, <1>2, <3>1, <3>2 DEF Replaces, Replacing
  <2>10. CASE SaveChange(p)
    BY <1>0, <2>3, <2>10 DEF SaveChange, Save, library, objects, Replacing, Processor
  <2>11. CASE Locate(p)
    <3> DEFINE f == proc[p].file
    <3>1. /\ proc[p].at = "locate" /\ UNCHANGED lib
          /\ \A e \in Episodes \ Of[f] : ep'[e] = ep[e]
          /\ \A e \in Episodes \cap Of[f] : ep'[e].location = proc[p].dest
      BY <1>3, <2>11 DEF Locate, Located, library, Record, Steps
    <3>2. proc'[p].at = "put"
      BY <1>0, <2>11 DEF Locate, Processor
    <3>3. proc[p].dest \in Places /\ proc[p].dest # NoPlace
      BY <1>0, <3>1, ProcessAssumption
    <3>4. ASSUME NEW e \in Episodes PROVE ~Bare(e)'
      <4>1. CASE e \in Of[f]
        BY <1>0, <3>1, <3>3, <4>1 DEF Bare, At
      <4>2. CASE e \notin Of[f]
        BY <1>0, <1>2, <3>1, <4>2 DEF Replaces
      <4> QED BY <4>1, <4>2
    <3> QED BY <1>1, <3>2, <3>4
  \* the other steps are taken by one that replaces nothing
  <2>12. CASE ~(\/ Move(p) \/ MoveBreaks(p) \/ CopiesNothing(p) \/ Name(p) \/ Delete(p)
                \/ Relist(p) \/ Change(p) \/ SaveChange(p) \/ Locate(p))
    <3>1. proc'[p].at # "locate"
      BY <1>0, <1>4, <2>12, ElsewhereBound
    <3>2. UNCHANGED <<lib, ep>> /\ proc[p].at \notin Replacing
      BY <1>4, <2>7, <2>12 DEF Works, Begin, Enter, Skips, Takes, Picks, BatchSkipped, Refuses,
         Accepts, SaveLocation, Save, LeaveFolder, End, library, objects, Replacing
    <3> QED BY <2>2, <3>1, <3>2
  <2> QED
    BY <2>4, <2>5, <2>6, <2>8, <2>9, <2>10, <2>11, <2>12
<1>5. ~Crash
  BY <1>0 DEF Crash
<1>6. ASSUME UNCHANGED <<proc, lib>>, \A e \in Episodes : Bare(e)' => Bare(e) PROVE NothingMissing'
  BY <1>0, <1>1, <1>6 DEF Replaces
<1>7. ASSUME NEW f \in Files, Arrive(f) PROVE NothingMissing'
  <2>1. UNCHANGED <<proc, lib>>
    BY <1>7 DEF Arrive
  <2>2. \A e \in Episodes : ep'[e] = ep[e] \/ ep'[e].status = "snatched"
    BY <1>7 DEF Arrive, Record
  <2>3. \A e \in Episodes : Bare(e)' => Bare(e)
    BY <2>1, <2>2 DEF Bare, At
  <2> QED BY <1>6, <2>1, <2>3
<1>8. ASSUME UNCHANGED vars \/ \E e \in Asked : Relates(e) PROVE NothingMissing'
  <2>1. UNCHANGED <<proc, lib, ep>>
    BY <1>8 DEF vars, Relates, library
  <2> QED BY <1>2, <1>6, <2>1
<1>9. CASE Refreshes
  <2>1. UNCHANGED <<proc, lib>>
    BY <1>9 DEF Refreshes, RefreshBegin, RefreshSaves, RefreshReads, RefreshFinds, RefreshChecks,
       library
  <2>2. CASE RefreshBegin \/ RefreshSaves \/ RefreshReads
    <3>1. ep' = ep
      BY <2>2 DEF RefreshBegin, RefreshSaves, RefreshReads, objects
    <3> QED BY <1>2, <1>6, <2>1, <3>1
  <2>3. ASSUME NEW place \in Places, RefreshFinds(place) PROVE NothingMissing'
    <3>1. \A e \in Episodes : ep'[e] = ep[e] \/ (lib[place] # NoFile /\ ep'[e].location = place)
      BY <2>3 DEF RefreshFinds
    <3>2. \A e \in Episodes : Bare(e)' => Bare(e)
      BY <2>1, <3>1, ProcessAssumption DEF Bare, At
    <3> QED BY <1>6, <2>1, <3>2
  <2>4. ASSUME NEW x \in Episodes, RefreshChecks(x) PROVE NothingMissing'
    <3>1. /\ \A e \in Episodes \ {x} : ep'[e] = ep[e]
          /\ ep'[x] = ep[x] \/ ep'[x].status # "downloaded"
               \/ (ep[x].status = "downloaded" /\ ep[x].location = NoPlace)
      BY <2>4 DEF RefreshChecks, Record
    <3>2. \A e \in Episodes : Bare(e)' => Bare(e)
      BY <2>1, <3>1 DEF Bare, At
    <3> QED BY <1>6, <2>1, <3>2
  <2> QED BY <1>9, <2>2, <2>3, <2>4 DEF Refreshes
<1> QED
  BY <1>0, <1>4, <1>5, <1>7, <1>8, <1>9 DEF Next

\* With one processor, videos of one episode each and neither failures nor
\* crashes, `bare' excuses nothing: an episode that counts as downloaded has its
\* file where it says, but between its deletion and the new location, although
\* refreshes set and clear locations and pages ask for the lists at any time,
\* and folders are tidied.
THEOREM AloneDownloadedHaveFiles ==
    ASSUME NEW p, Alone(p)
    PROVE  Spec /\ [][Calm]_vars =>
             [](\A e \in Episodes :
                   ep[e].status = "downloaded" /\ At(ep[e].location) = NoFile => Inside(p, e))
<1>0. OneEach
  BY DEF Alone
<1>1. Init => WorksOnWhatIs /\ NothingMissing
  BY DEF Init, WorksOnWhatIs, NothingMissing, Idle, Bare, Before
<1>2. TypeOK /\ NameInv /\ LocationInv /\ WorksOnWhatIs /\ NothingMissing
        /\ [Next]_vars /\ [Calm]_vars => WorksOnWhatIs' /\ NothingMissing'
  <2>1. ASSUME WorksOnWhatIs, NothingMissing, UNCHANGED vars PROVE WorksOnWhatIs' /\ NothingMissing'
    BY <2>1 DEF vars, WorksOnWhatIs, NothingMissing, Bare, At, Replaces
  <2> QED BY <2>1, WorksStep, MissingStep
<1>3. NothingMissing =>
        \A e \in Episodes : ep[e].status = "downloaded" /\ At(ep[e].location) = NoFile => Inside(p, e)
  BY DEF NothingMissing, Bare, Replaces, Replacing, Inside, Steps, Alone
<1>4. Spec => [](NameInv /\ LocationInv)
  BY <1>0, EpisodesAtOwnPlaces
<1> QED
  BY <1>1, <1>2, <1>3, <1>4, TypeCorrect, PTL DEF Spec
=============================================================================
