--------------------------- MODULE ShowQueueProofs ---------------------------
(***************************************************************************)
(* Proofs about ShowQueue for every set of shows, requests and updater     *)
(* threads and every bound.                                                *)
(***************************************************************************)
EXTENDS ShowQueue, TLAPS

\* Items, saved rows and rows being loaded with one uid are of one show (an
\* update may give its uid to its refresh), and no uid is ahead of the counter.
UidsNameOneShow ==
    \A x, y \in Live \cup loading : x.uid = y.uid => x.work.show = y.work.show
UidsInv ==
    /\ UidsNameOneShow
    /\ \A r, s \in table : r.uid = s.uid => r = s
    /\ \A x \in Live \cup loading \cup table : x.uid <= id_counter

\* The current item left the queue; none is taken while the queue is loaded,
\* and a process that ended holds nothing.
CurrentInv ==
    /\ currentItem \notin queue
    /\ sched = "loading" => Current = {}
    /\ sched = "dead" => Live = {} /\ loading = {}

\* While a scheduled update runs, no refresh of its show waits that is not
\* scheduled: one that was there would have been taken before it.
WaitingInv ==
    \A c \in Current, i \in queue :
        /\ c.work.action \in Updates /\ c.work.scheduled
        /\ i.work.action = "refresh" /\ i.work.show = c.work.show
        => i.work.scheduled

\* What an update left owed is a refresh that waits, scheduled if it was.
OwedInv ==
    \A w \in owed : \E i \in queue :
        /\ i.work.action = "refresh" /\ i.work.show = w.show
        /\ w.scheduled => i.work.scheduled

IInv == TypeOK /\ OneUpdatePerShow /\ UidsInv /\ CurrentInv /\ WaitingInv /\ OwedInv
-----------------------------------------------------------------------------
(***************************************************************************)
(* The type invariant.                                                     *)
(***************************************************************************)
\* The updates' refreshes are works, and their action is what it says.
LEMMA WorkFacts ==
    /\ \A w \in Work : w.action \in ActionTypes /\ w.show \in Show
                       /\ w.scheduled \in BOOLEAN /\ w.force \in BOOLEAN
    /\ \A w \in Work : Action[w] = w.action
    /\ \A w \in Work : w.action \in Updates => RefreshAfter(w) \in Work
BY ShowQueueAssumption DEF WorkType

LEMMA LiveType == ASSUME TypeOK PROVE Live \subseteq Item /\ Current \subseteq Item
BY DEF TypeOK, Live, Current

LEMMA NextAddedType == ASSUME TypeOK PROVE NextAdded \subseteq Nat
BY LiveType DEF NextAdded, Item

LEMMA InitTypeOK == Init => TypeOK
<1> SUFFICES ASSUME Init PROVE TypeOK
    OBVIOUS
<1>1. runs \in [Updaters -> Run \cup {NoRun}]
    BY DEF Init
<1>2. /\ currentItem \in Item \cup {NoItem} /\ threads \subseteq Uids(Current)
      /\ queue \subseteq Item /\ table \subseteq Row /\ loading \subseteq Row
    BY DEF Init, Empty
<1> QED
    BY <1>1, <1>2 DEF Init, TypeOK, Empty

LEMMA NextTypeOK == TypeOK /\ [Next]_vars => TypeOK'
<1> SUFFICES ASSUME TypeOK, [Next]_vars PROVE TypeOK'
    OBVIOUS
<1> USE DEF TypeOK, Item, Row, Run, queueVars, procVars, dailyVars
<1>0. NoItem \notin Item /\ NextAdded \subseteq Nat
    BY ShowQueueAssumption, NextAddedType
<1>a. ASSUME NEW w \in Work, AddNew(w)
      PROVE  /\ queue' \subseteq Item /\ table' \subseteq Row /\ id_counter' \in Nat
             /\ currentItem' = currentItem /\ threads' = threads
             /\ min_priority' = min_priority
    BY <1>a, <1>0 DEF AddNew, AddItem, Insert, RowOf
<1>1. ASSUME NEW w \in Work, Request(w) PROVE TypeOK'
    BY <1>1, <1>a DEF Request, Current
<1>3. ASSUME NEW uids, Remove(uids) PROVE TypeOK'
    BY <1>3 DEF Remove, RemoveFromQueue, Removable, Forgive, Current
<1>4. ASSUME NEW types, Clear(types) PROVE TypeOK'
    BY <1>4 DEF Clear, ClearQueue, Forgive, Current
<1>5. ASSUME NEW s \in Show, DeleteBegins(s) PROVE TypeOK'
    BY <1>5 DEF DeleteBegins, RemoveFromQueue, Removable, Forgive, Current
<1>6. ASSUME NEW s \in Show, DeleteEnds(s) PROVE TypeOK'
    BY <1>6 DEF DeleteEnds, Current
<1>7. CASE ItemStep
    <2>1. ASSUME NEW i \in Working({"add"}), AddFinds(i) PROVE TypeOK'
        <3>1. i \in Item
            BY LiveType DEF Working
        <3> QED
            BY <2>1, <3>1, WorkFacts DEF AddFinds, Current
    <2>2. ASSUME NEW i \in Working({"add"}), AddFails(i) PROVE TypeOK'
        BY <2>2, <1>5, LiveType, WorkFacts DEF AddFails, Working
    <2>3. ASSUME NEW i \in Working(Updates), UpdateWorks(i) PROVE TypeOK'
        <3>1. i \in Item /\ i.work.action \in Updates
            BY LiveType, WorkFacts DEF Working
        <3>2. RefreshAfter(i.work) \in Work
            BY <3>1, WorkFacts
        <3>3. PICK result \in {"updated", "inactive"} : UpdateChains(i, result)
            BY <2>3 DEF UpdateWorks
        <3>4. /\ queue' \subseteq Item /\ table' \subseteq Row /\ id_counter' \in Nat
              /\ currentItem' = currentItem /\ threads' = threads
              /\ min_priority' = min_priority
            <4>1. CASE UNCHANGED queueVars
                BY <4>1
            <4>2. CASE AddNew(RefreshAfter(i.work))
                BY <4>2, <3>2, <1>a
            <4>3. CASE AddItem(i.uid, RefreshAfter(i.work)) /\ UNCHANGED id_counter
                BY <4>3, <3>1, <3>2, <1>0 DEF AddItem, Insert, RowOf
            <4> QED
                BY <3>3, <4>1, <4>2, <4>3 DEF UpdateChains
        <3>5. owed' \subseteq Work
            BY <3>1, <3>3 DEF UpdateChains
        <3> QED
            BY <2>3, <3>1, <3>4, <3>5 DEF UpdateWorks, Current
    <2> QED
        BY <1>7, <2>1, <2>2, <2>3 DEF ItemStep
<1>8. ASSUME NEW u \in threads, ThreadEnds(u) PROVE TypeOK'
    BY <1>8 DEF ThreadEnds, ItemEnds, Current
<1>9. ASSUME NEW d \in Updaters, DailyStart(d) \/ DailyRaises(d) PROVE TypeOK'
    <2>1. CASE DailyStart(d)
        BY <2>1 DEF DailyStart, Current
    <2>2. CASE DailyRaises(d)
        BY <2>2 DEF DailyRaises, Current
    <2> QED
        BY <1>9, <2>1, <2>2
<1>10. ASSUME NEW d \in Updaters, NEW s \in Show, DailyAsks(d, s) PROVE TypeOK'
    <2>1. PICK w \in {DailyUpdate(s), DailyRefresh(s)} :
              /\ IF Accepts(w) THEN AddNew(w) ELSE UNCHANGED queueVars
              /\ runs' = [runs EXCEPT ![d].left = @ \ {s}, ![d].got = @ \/ Accepts(w)]
        BY <1>10 DEF DailyAsks
    <2>2. w \in Work
        BY ShowQueueAssumption
    <2>3. runs' \in [Updaters -> Run \cup {NoRun}]
        <3> DEFINE ok == Accepts(w)
        <3>1. runs[d] \in Run
            BY <1>10 DEF DailyAsks
        <3>2. runs' = [runs EXCEPT ![d].left = @ \ {s}, ![d].got = @ \/ ok]
            BY <2>1
        <3> HIDE DEF ok
        <3>3. ASSUME NEW got \in BOOLEAN
              PROVE  [runs EXCEPT ![d].left = @ \ {s}, ![d].got = got]
                         \in [Updaters -> Run \cup {NoRun}]
            BY <3>1
        <3>4. (runs[d].got \/ ok) \in BOOLEAN
            BY Zenon
        <3>5. runs' = [runs EXCEPT ![d].left = @ \ {s}, ![d].got = (runs[d].got \/ ok)]
            BY <3>1, <3>2
        <3> QED
            BY <3>3, <3>4, <3>5
    <2> QED
        BY <1>10, <1>a, <2>1, <2>2, <2>3 DEF DailyAsks, Current
<1>11. ASSUME NEW d \in Updaters, DailyEnd(d) PROVE TypeOK'
    <2>1. due' \in BOOLEAN /\ daily_update_running' \in BOOLEAN
        BY <1>11, Zenon DEF DailyEnd
    <2> QED
        BY <1>11, <2>1 DEF DailyEnd, Current
<1>12. ASSUME NEW row \in loading, LoadRow(row) \/ LoadAborts(row) PROVE TypeOK'
    <2>1. row.uid \in Nat /\ row.work \in Work
        BY <1>12
    <2>2. CASE LoadAborts(row)
        BY <2>2 DEF LoadAborts, Current
    <2>3. CASE LoadRow(row) /\ UNCHANGED <<queueVars, kept>>
        BY <2>3 DEF LoadRow, Current
    <2>4. CASE LoadRow(row) /\ AddLoaded(row) /\ kept' = kept \cup {row.uid}
        <3>1. queue' \subseteq Item
            BY <1>0, <2>1, <2>4 DEF AddLoaded
        <3> QED
            BY <2>1, <2>4, <3>1 DEF LoadRow, AddLoaded, Current
    <2> QED
        BY <1>12, <2>2, <2>3, <2>4 DEF LoadRow
<1>13. CASE LoadDone
    BY <1>13 DEF LoadDone, Current
<1>14. CASE SchedRun
    <2>1. JobRun
        BY <1>14 DEF SchedRun
    <2>2. threads' \subseteq Uids(Current') /\ currentItem' \in Item \cup {NoItem}
        <3>1. CASE CurrentAlive
            BY <2>1, <3>1 DEF JobRun, Current, Uids
        <3>2. CASE ~CurrentAlive
            <4>1. threads = {}
                BY <3>2 DEF CurrentAlive, Current, Uids
            <4> QED
                BY <2>1, <3>2, <4>1, <1>0 DEF JobRun, StartHead, StartNone, Heads, Current, Uids
        <3> QED
            BY <3>1, <3>2
    <2>3. /\ queue' \subseteq Item /\ table' \subseteq Row
          /\ min_priority' = 0 /\ id_counter' \in Nat
        BY <2>1 DEF JobRun, StartHead, StartNone, Reaped
    <2>4. due' \in BOOLEAN /\ owed' \subseteq Work /\ sched' \in {"loop", "events"}
        <3>1. due' \in BOOLEAN
            BY <1>14, Zenon DEF SchedRun, CheckEvents
        <3> QED
            BY <1>14, <3>1 DEF SchedRun, CheckEvents, Forgive
    <2> QED
        BY <1>14, <2>2, <2>3, <2>4 DEF SchedRun, Uids, Current
<1>15. CASE Crash
    BY <1>15 DEF Crash, Vanish, Current
<1>16. CASE Start
    BY <1>16 DEF Start, InitId, Uids, Current
<1>17. CASE UNCHANGED vars
    BY <1>17 DEF vars, Current
<1>18. CASE FlagCleared
    BY <1>18 DEF FlagCleared, Current
<1> QED
    BY <1>1, <1>3, <1>4, <1>5, <1>6, <1>7, <1>8, <1>9, <1>10, <1>11, <1>12,
       <1>13, <1>14, <1>15, <1>16, <1>17, <1>18 DEF Next, DeleteShow, DailyStep, SchedulerStep

\* Type correctness of the show queue, in every interleaving.
THEOREM TypeCorrect == Spec => []TypeOK
<1>1. Init => TypeOK
    BY InitTypeOK
<1>2. TypeOK /\ [Next]_vars => TypeOK'
    BY NextTypeOK
<1> QED
    BY <1>1, <1>2, PTL DEF Spec
-----------------------------------------------------------------------------
(***************************************************************************)
(* What steps do to the items, the rows and what is owed.                  *)
(***************************************************************************)
Quiet ==
    /\ UNCHANGED <<queue, currentItem, id_counter, table, owed>>
    /\ loading' \subseteq loading
    /\ sched' = sched \/ (sched \in {"loading", "events"} /\ sched' = "loop")

Taken(w) ==
    /\ Unlocked /\ Accepts(w) /\ AddNew(w)
    /\ w.action = "refresh" => w.scheduled \/ ~w.force
    /\ UNCHANGED <<loading, sched, owed>>

Dropped ==
    /\ UNCHANGED <<currentItem, id_counter, loading, sched>>
    /\ queue' \subseteq queue /\ table' \subseteq table /\ owed' \subseteq owed
    /\ \A w \in owed', i \in queue :
          i.work.action = "refresh" /\ i.work.show = w.show => i \in queue'

Loaded(row) ==
    /\ sched = "loading"
    /\ Accepts(row.work) /\ AddLoaded(row)
    /\ loading' = loading \ {row}
    /\ UNCHANGED <<sched, owed>>

\* A removal takes the refreshes that are owed to shows it forgives only.
LEMMA Removals ==
    ASSUME TypeOK, NEW uids, NEW shows, RemoveFromQueue(uids, {}), Forgive(shows),
           \A i \in Removable(uids, {}) : i.work.show \in shows,
           UNCHANGED <<loading, sched>>
    PROVE  Dropped
BY DEF RemoveFromQueue, Forgive, Dropped

LEMMA Effects ==
    ASSUME TypeOK, UidsNameOneShow, [Next]_vars
    PROVE  \/ Quiet \/ Dropped \/ SchedRun \/ Crash \/ Start
           \/ \E w \in Work : Taken(w)
           \/ \E i \in Working(Updates) : UpdateWorks(i)
           \/ \E row \in loading : Loaded(row)
<1> USE DEF queueVars, procVars, dailyVars
<1>1. ASSUME NEW w \in Work, Request(w) PROVE Taken(w)
    BY <1>1 DEF Request, Taken
<1>3. ASSUME NEW uids, Remove(uids) PROVE Dropped
    BY <1>3, Removals DEF Remove
<1>4. ASSUME NEW types, Clear(types) PROVE Dropped
    BY <1>4 DEF Clear, ClearQueue, Forgive, Dropped
<1>5. ASSUME NEW s \in Show, DeleteBegins(s) PROVE Dropped
    <2> DEFINE uids == {i.uid : i \in {j \in queue : j.work.show = s /\ Action[j.work] # "add"}}
    <2>1. \A i \in Removable(uids, {}) : i.work.show \in {s}
        BY DEF Removable, UidsNameOneShow, Live
    <2> QED
        BY <1>5, <2>1, Removals DEF DeleteBegins
<1>6. ASSUME NEW s \in Show, DeleteEnds(s) PROVE Quiet
    BY <1>6 DEF DeleteEnds, Quiet
<1>7. ASSUME ItemStep
      PROVE  Quiet \/ Dropped \/ \E i \in Working(Updates) : UpdateWorks(i)
    <2>1. ASSUME NEW i \in Working({"add"}), AddFinds(i) PROVE Quiet
        BY <2>1 DEF AddFinds, Quiet
    <2>2. ASSUME NEW i \in Working({"add"}), AddFails(i) PROVE Dropped
        BY <2>2, <1>5, LiveType, WorkFacts DEF AddFails, Working, Item
    <2> QED
        BY <1>7, <2>1, <2>2 DEF ItemStep
<1>8. ASSUME NEW u \in threads, ThreadEnds(u) PROVE Quiet
    BY <1>8 DEF ThreadEnds, ItemEnds, Quiet
<1>9. ASSUME NEW d \in Updaters, DailyStart(d) \/ DailyEnd(d) \/ DailyRaises(d) PROVE Quiet
    BY <1>9 DEF DailyStart, DailyEnd, DailyRaises, Quiet
<1>10. ASSUME NEW d \in Updaters, NEW s \in Show, DailyAsks(d, s)
       PROVE  Quiet \/ \E w \in Work : Taken(w)
    <2>1. PICK w \in {DailyUpdate(s), DailyRefresh(s)} :
              IF Accepts(w) THEN AddNew(w) ELSE UNCHANGED queueVars
        BY <1>10 DEF DailyAsks
    <2>2. w \in Work /\ w.scheduled
        <3>1. w \in Work
            BY <2>1, ShowQueueAssumption
        <3>2. w.scheduled
            BY <2>1 DEF DailyUpdate, DailyRefresh, Refresh
        <3> QED
            BY <3>1, <3>2
    <2> QED
        BY <1>10, <2>1, <2>2 DEF DailyAsks, Taken, Quiet
<1>11. ASSUME NEW row \in loading, LoadRow(row) PROVE Quiet \/ Loaded(row)
    BY <1>11 DEF LoadRow, Quiet, Loaded
<1>12. ASSUME (\E row \in loading : LoadAborts(row)) \/ LoadDone \/ FlagCleared PROVE Quiet
    BY <1>12 DEF LoadAborts, LoadDone, FlagCleared, Quiet
<1>13. CASE UNCHANGED vars
    BY <1>13 DEF vars, Quiet
<1> QED
    BY <1>1, <1>3, <1>4, <1>5, <1>6, <1>7, <1>8, <1>9, <1>10, <1>11, <1>12, <1>13
    DEF Next, DeleteShow, DailyStep, SchedulerStep, ItemStep

\* An item that is added is a new one.
LEMMA Adding ==
    ASSUME TypeOK, NEW u \in Nat, NEW w \in Work, AddItem(u, w)
    PROVE  \E n \in Item :
              /\ n.uid = u /\ n.work = w /\ n \notin Live
              /\ queue' = queue \cup {n} /\ currentItem' = currentItem
              /\ table' = Insert(table, n)
<1>1. PICK a \in NextAdded :
          /\ queue' = queue \cup {[uid |-> u, work |-> w, added |-> a]}
          /\ table' = Insert(table, [uid |-> u, work |-> w, added |-> a])
          /\ currentItem' = currentItem
    BY DEF AddItem
<1>2. a \in Nat /\ \A i \in Live : i.added < a
    BY NextAddedType DEF NextAdded
<1>3. [uid |-> u, work |-> w, added |-> a] \notin Live
    BY <1>2, LiveType DEF Item
<1> QED
    BY <1>1, <1>2, <1>3 DEF Item

LEMMA AddingLoaded ==
    ASSUME TypeOK, NEW row \in loading, AddLoaded(row)
    PROVE  \E n \in Item :
              /\ n.uid = row.uid /\ n.work = row.work /\ n \notin Live
              /\ queue' = queue \cup {n} /\ currentItem' = currentItem
              /\ UNCHANGED <<table, id_counter>>
<1>1. PICK a \in NextAdded :
          /\ queue' = queue \cup {[uid |-> row.uid, work |-> row.work, added |-> a]}
          /\ UNCHANGED <<currentItem, table, id_counter>>
    BY DEF AddLoaded
<1>2. a \in Nat /\ \A i \in Live : i.added < a
    BY NextAddedType DEF NextAdded
<1>3. row.uid \in Nat /\ row.work \in Work
    BY DEF TypeOK, Row
<1>4. [uid |-> row.uid, work |-> row.work, added |-> a] \notin Live
    BY <1>2, LiveType DEF Item
<1> QED
    BY <1>1, <1>2, <1>3, <1>4 DEF Item

\* job_run leaves the items as they are, reaps the current one, or takes an
\* item out of the queue that precedes all others.
LEMMA RunsAlone ==
    ASSUME TypeOK, JobRun
    PROVE  /\ id_counter' = id_counter /\ table' \subseteq table
           /\ \/ UNCHANGED <<queue, currentItem>>
              \/ queue' = queue /\ Current' = {}
              \/ \E i \in Heads : queue' = queue \ {i} /\ currentItem' = i /\ Current' = {i}
<1>1. \A i \in queue : i # NoItem
    BY ShowQueueAssumption DEF TypeOK
<1> QED
    BY <1>1 DEF JobRun, StartHead, StartNone, Heads, Reaped, Current, queueVars

\* What an update that works asks for.
LEMMA RefreshFacts ==
    ASSUME TypeOK, NEW i \in Working(Updates)
    PROVE  /\ i \in Current /\ i.work.action \in Updates
           /\ i.uid \in Nat /\ id_counter + 1 \in Nat
           /\ RefreshAfter(i.work) \in Work
           /\ RefreshAfter(i.work).action = "refresh"
           /\ RefreshAfter(i.work).show = i.work.show
           /\ RefreshAfter(i.work).scheduled = i.work.scheduled
           /\ RefreshAfter(i.work).force = i.work.force
<1>1. i \in Current /\ i.uid \in Nat /\ i.work \in Work
    BY LiveType DEF Working, Item
<1>2. i.work.action \in Updates
    BY <1>1, WorkFacts DEF Working
<1>3. id_counter + 1 \in Nat
    BY DEF TypeOK
<1>4. RefreshAfter(i.work) \in Work
    BY <1>1, <1>2, WorkFacts
<1> QED
    BY <1>1, <1>2, <1>3, <1>4 DEF RefreshAfter, Refresh

\* An update chains its refresh, with a new uid or its own.
LEMMA Chaining ==
    ASSUME TypeOK, NEW i \in Working(Updates), UpdateWorks(i)
    PROVE  /\ i \in Current /\ i.work.action \in Updates
           /\ UNCHANGED <<loading, sched>>
           /\ \/ /\ RefreshTaken(RefreshAfter(i.work), TRUE)
                 /\ \/ AddNew(RefreshAfter(i.work))
                    \/ AddItem(i.uid, RefreshAfter(i.work)) /\ UNCHANGED id_counter
              \/ /\ ~RefreshTaken(RefreshAfter(i.work), TRUE)
                 /\ UNCHANGED queueVars
           /\ \/ owed' = owed
              \/ ~SwitchPending(i.work.show) /\ owed' = owed \cup {i.work}
<1>1. i \in Current /\ i.work.action \in Updates
    BY RefreshFacts
<1>2. PICK result \in {"updated", "inactive"} : UpdateChains(i, result)
    BY DEF UpdateWorks
<1> QED
    BY <1>1, <1>2 DEF UpdateWorks, UpdateChains, RefreshAfter, Refresh
-----------------------------------------------------------------------------
(***************************************************************************)
(* The parts of the inductive invariant.                                   *)
(***************************************************************************)
LEMMA InitIInv == Init => IInv
BY InitTypeOK
   DEF Init, IInv, Empty, OneUpdatePerShow, UidsInv, UidsNameOneShow, CurrentInv,
       WaitingInv, OwedInv, Live, Current

LEMMA CurrentStep == ASSUME IInv, [Next]_vars PROVE CurrentInv'
<1> USE DEF IInv, CurrentInv, queueVars
<1>0. \A i \in queue : i # NoItem
    BY ShowQueueAssumption DEF TypeOK
<1>1. CASE Quiet
    BY <1>1 DEF Quiet, Live, Current
<1>2. CASE Dropped
    BY <1>2 DEF Dropped, Live, Current
<1>3. CASE SchedRun
    <2>1. sched' \in {"loop", "events"} /\ JobRun
        BY <1>3 DEF SchedRun, CheckEvents
    <2>2. currentItem' \notin queue'
        <3>1. CASE queue' = queue /\ Current' = {}
            BY <3>1, <1>0 DEF Current
        <3> QED
            BY <2>1, <3>1, RunsAlone
    <2> QED
        BY <2>1, <2>2
<1>4. CASE Crash
    BY <1>4, ShowQueueAssumption DEF Crash, Vanish, Live, Current
<1>5. CASE Start
    BY <1>5 DEF Start, Live, Current
<1>6. ASSUME NEW w \in Work, Taken(w) PROVE CurrentInv'
    <2>1. AddItem(id_counter + 1, w) /\ id_counter + 1 \in Nat
        BY <1>6 DEF Taken, AddNew, TypeOK
    <2>2. PICK n \in Item : n \notin Live /\ queue' = queue \cup {n} /\ currentItem' = currentItem
        BY <2>1, Adding
    <2> QED
        BY <1>6, <2>2, ShowQueueAssumption DEF Taken, Unlocked, Live, Current
<1>7. ASSUME NEW i \in Working(Updates), UpdateWorks(i) PROVE CurrentInv'
    <2>1. i \in Current /\ UNCHANGED <<loading, sched>>
        BY <1>7, Chaining
    <2>2. CASE UNCHANGED queueVars
        BY <1>7, <2>1, <2>2 DEF Live, Current
    <2>3. ASSUME NEW u \in Nat, AddItem(u, RefreshAfter(i.work)) PROVE CurrentInv'
        <3>1. RefreshAfter(i.work) \in Work
            BY <1>7, Chaining, WorkFacts, LiveType DEF Item
        <3>2. PICK n \in Item : n \notin Live /\ queue' = queue \cup {n} /\ currentItem' = currentItem
            BY <2>3, <3>1, Adding
        <3> QED
            BY <1>7, <2>1, <3>2, ShowQueueAssumption DEF Live, Current
    <2>4. id_counter + 1 \in Nat /\ i.uid \in Nat
        BY <2>1, LiveType DEF TypeOK, Item
    <2> QED
        BY <1>7, <2>2, <2>3, <2>4, Chaining DEF AddNew
<1>8. ASSUME NEW row \in loading, Loaded(row) PROVE CurrentInv'
    <2>1. PICK n \in Item : n \notin Live /\ queue' = queue \cup {n} /\ currentItem' = currentItem
        BY <1>8, AddingLoaded DEF Loaded
    <2> QED
        BY <1>8, <2>1, ShowQueueAssumption DEF Loaded, Live, Current
<1> QED
    BY <1>1, <1>2, <1>3, <1>4, <1>5, <1>6, <1>7, <1>8, Effects DEF UidsInv

LEMMA UidsStep == ASSUME IInv, [Next]_vars PROVE UidsInv'
<1> USE DEF IInv, UidsInv, UidsNameOneShow, queueVars
<1>0. /\ \A x \in Live \cup loading \cup table : x.uid \in Nat
      /\ id_counter \in Nat
    BY LiveType DEF TypeOK, Item, Row
<1>1. CASE Quiet
    BY <1>1 DEF Quiet, Live, Current
<1>2. CASE Dropped
    BY <1>2 DEF Dropped, Live, Current
<1>3. CASE SchedRun
    BY <1>3, RunsAlone DEF SchedRun, Live, Current, Heads
<1>4. CASE Crash
    BY <1>4 DEF Crash, Vanish, Live, Current
<1>5. CASE Start
    <2>1. Live' = {} /\ loading' = table /\ table' = table
        BY <1>5 DEF Start, CurrentInv, Live, Current
    <2>2. \A r \in table : r.uid <= id_counter'
        BY <1>5 DEF Start, InitId
    <2> QED
        BY <2>1, <2>2
<1>a. ASSUME NEW n \in Item, queue' = queue \cup {n}, currentItem' = currentItem,
             table' = Insert(table, n), loading' = loading,
             \/ n.uid = id_counter + 1 /\ id_counter' = id_counter + 1
             \/ /\ id_counter' = id_counter
                /\ \E i \in Live : i.uid = n.uid /\ i.work.show = n.work.show
      PROVE  UidsInv'
    <2>1. Live' = Live \cup {n}
        BY <1>a DEF Live, Current
    <2>2. table' = table \/ (table' = table \cup {RowOf(n)} /\ \A r \in table : r.uid # n.uid)
        BY <1>a DEF Insert
    <2>3. RowOf(n).uid = n.uid /\ n.uid \in Nat
        BY DEF RowOf, Item
    <2>4. \A x \in Live \cup loading : x.uid = n.uid => x.work.show = n.work.show
        BY <1>0, <1>a
    <2>5. n.uid <= id_counter' /\ id_counter <= id_counter'
        BY <1>0, <1>a
    <2>6. \A x \in Live' \cup loading' \cup table' : x.uid <= id_counter'
        BY <1>0, <1>a, <2>1, <2>2, <2>3, <2>5
    <2>7. \A r, s \in table' : r.uid = s.uid => r = s
        BY <2>2, <2>3
    <2> QED
        BY <1>a, <2>1, <2>4, <2>6, <2>7
<1>6. ASSUME NEW w \in Work, Taken(w) PROVE UidsInv'
    BY <1>0, <1>6, <1>a, Adding DEF Taken, AddNew
<1>7. ASSUME NEW i \in Working(Updates), UpdateWorks(i) PROVE UidsInv'
    <2>1. /\ i \in Live /\ RefreshAfter(i.work) \in Work /\ i.uid \in Nat
          /\ RefreshAfter(i.work).show = i.work.show
        BY RefreshFacts DEF Live
    <2>2. CASE AddNew(RefreshAfter(i.work))
        <3>1. PICK n \in Item : /\ n.uid = id_counter + 1
                                /\ queue' = queue \cup {n} /\ currentItem' = currentItem
                                /\ table' = Insert(table, n)
            BY <1>0, <2>1, <2>2, Adding DEF AddNew
        <3>2. loading' = loading /\ id_counter' = id_counter + 1
            BY <1>7, <2>2, Chaining DEF AddNew
        <3> QED
            BY <1>a, <3>1, <3>2
    <2>3. CASE AddItem(i.uid, RefreshAfter(i.work)) /\ UNCHANGED id_counter
        <3>1. PICK n \in Item : /\ n.uid = i.uid /\ n.work = RefreshAfter(i.work)
                                /\ queue' = queue \cup {n} /\ currentItem' = currentItem
                                /\ table' = Insert(table, n)
            BY <2>1, <2>3, Adding
        <3> QED
            BY <1>7, <1>a, <2>1, <2>3, <3>1, Chaining
    <2>4. CASE UNCHANGED queueVars
        <3>1. loading' = loading
            BY <1>7, Chaining
        <3> QED
            BY <2>4, <3>1 DEF Live, Current
    <2> QED
        BY <1>7, <2>2, <2>3, <2>4, Chaining
<1>8. ASSUME NEW row \in loading, Loaded(row) PROVE UidsInv'
    <2>1. PICK n \in Item : /\ n.uid = row.uid /\ n.work = row.work
                            /\ queue' = queue \cup {n} /\ currentItem' = currentItem
                            /\ UNCHANGED <<table, id_counter>>
        BY <1>8, AddingLoaded DEF Loaded
    <2>2. Live' = Live \cup {n} /\ loading' \subseteq loading
        BY <1>8, <2>1 DEF Loaded, Live, Current
    <2> QED
        BY <2>1, <2>2
<1> QED
    BY <1>1, <1>2, <1>3, <1>4, <1>5, <1>6, <1>7, <1>8, Effects

\* Updates are NORMAL, refreshes HIGH, and neither is the other or an add.
LEMMA ActionFacts ==
    /\ "add" \notin Updates /\ "refresh" \notin Updates /\ "switch" \notin Updates
    /\ \A w \in Work : w.action \in Updates => Priority[w] = NORMAL
    /\ \A w \in Work : w.action = "refresh" => Priority[w] = HIGH
<1>1. Priority = [w \in Work |-> ShowPriority(w.action)]
    BY ShowQueueAssumption
<1> QED
    BY <1>1 DEF Updates, ShowPriority

\* An item that runs for the show is seen by the tests of the requests.
LEMMA Seen ==
    ASSUME TypeOK, NEW c \in Current, c.work.action \in Updates
    PROVE  IsBeing(c.work.show, Updates) /\ IsBeing(c.work.show, {"add"} \cup Updates)
<1>1. Action[c.work] = c.work.action
    BY WorkFacts, LiveType DEF Item
<1> QED
    BY <1>1, ActionFacts DEF IsBeing

LEMMA Waits ==
    ASSUME TypeOK, NEW s, NEW actions
    PROVE  IsInQueue(s, actions) <=> \E i \in queue : i.work.action \in actions /\ i.work.show = s
BY WorkFacts DEF IsInQueue, TypeOK, Item

LEMMA OneUpdateStep == ASSUME IInv, [Next]_vars PROVE OneUpdatePerShow'
<1> USE DEF IInv
<1>1. ASSUME Live' \subseteq Live PROVE OneUpdatePerShow'
    BY <1>1 DEF OneUpdatePerShow
<1>2. ASSUME NEW n \in Item, queue' = queue \cup {n}, currentItem' = currentItem,
             n.work.action \in Updates => ~UpdateRefused(n.work.show)
      PROVE  OneUpdatePerShow'
    <2>1. Live' = Live \cup {n}
        BY <1>2 DEF Live, Current
    <2>2. \A j \in Live : Action[j.work] = j.work.action
        BY WorkFacts, LiveType DEF Item
    <2>3. Action[n.work] = n.work.action
        BY WorkFacts DEF Item
    <2>4. ASSUME NEW j \in Live, {n.work.action, j.work.action} \subseteq Updates,
                 n.work.show = j.work.show
          PROVE  FALSE
        <3>1. CASE j \in queue
            BY <1>2, <2>4, <3>1, Waits DEF UpdateRefused
        <3>2. CASE j \in Current
            BY <1>2, <2>4, <3>2, Seen DEF UpdateRefused
        <3> QED
            BY <3>1, <3>2 DEF Live
    <2>5. \A i, j \in Live : {i.work.action, j.work.action} \subseteq Updates
                             /\ i.work.show = j.work.show => i = j
        BY <2>2 DEF OneUpdatePerShow
    <2>6. \A i, j \in Live' : {i.work.action, j.work.action} \subseteq Updates
                              /\ i.work.show = j.work.show => i = j
        BY <2>1, <2>4, <2>5
    <2>7. \A j \in Live' : Action[j.work] = j.work.action
        BY <2>1, <2>2, <2>3
    <2> QED
        BY <2>6, <2>7 DEF OneUpdatePerShow
<1>3. CASE Quiet \/ Dropped \/ Start
    BY <1>1, <1>3 DEF Quiet, Dropped, Start, Live, Current
<1>4. CASE SchedRun
    BY <1>1, <1>4, RunsAlone DEF SchedRun, Live, Current, Heads
<1>5. CASE Crash
    BY <1>1, <1>5 DEF Crash, Vanish, Live, Current
<1>6. ASSUME NEW w \in Work, Taken(w) PROVE OneUpdatePerShow'
    <2>1. w.action \in Updates => ~UpdateRefused(w.show)
        BY <1>6, ActionFacts DEF Taken, Accepts
    <2>2. AddItem(id_counter + 1, w) /\ id_counter + 1 \in Nat
        BY <1>6 DEF Taken, AddNew, TypeOK
    <2> QED
        BY <1>2, <2>1, <2>2, Adding
<1>7. ASSUME NEW i \in Working(Updates), UpdateWorks(i) PROVE OneUpdatePerShow'
    <2>1. /\ i.uid \in Nat /\ id_counter + 1 \in Nat
          /\ RefreshAfter(i.work) \in Work /\ RefreshAfter(i.work).action \notin Updates
        BY RefreshFacts, ActionFacts
    <2>2. CASE UNCHANGED queueVars
        BY <1>1, <2>2 DEF queueVars, Live, Current
    <2>3. ASSUME NEW u \in Nat, AddItem(u, RefreshAfter(i.work)) PROVE OneUpdatePerShow'
        BY <1>2, <2>1, <2>3, Adding
    <2> QED
        BY <1>7, <2>1, <2>2, <2>3, Chaining DEF AddNew
<1>8. ASSUME NEW row \in loading, Loaded(row) PROVE OneUpdatePerShow'
    <2>1. row.work \in Work
        BY DEF TypeOK, Row
    <2>2. row.work.action \in Updates => ~UpdateRefused(row.work.show)
        BY <1>8, ActionFacts DEF Loaded, Accepts
    <2> QED
        BY <1>2, <1>8, <2>2, AddingLoaded DEF Loaded
<1> QED
    BY <1>3, <1>4, <1>5, <1>6, <1>7, <1>8, Effects DEF UidsInv

LEMMA WaitingStep == ASSUME IInv, [Next]_vars PROVE WaitingInv'
<1> USE DEF IInv
<1>1. ASSUME queue' \subseteq queue, Current' \subseteq Current PROVE WaitingInv'
    BY <1>1 DEF WaitingInv
<1>2. ASSUME NEW n, queue' = queue \cup {n}, Current' = Current,
             \A c \in Current : /\ c.work.action \in Updates /\ c.work.scheduled
                                /\ n.work.action = "refresh" /\ n.work.show = c.work.show
                                => n.work.scheduled
      PROVE  WaitingInv'
    BY <1>2 DEF WaitingInv
<1>3. CASE Quiet \/ Dropped \/ Start
    BY <1>1, <1>3 DEF Quiet, Dropped, Start, Current
<1>4. CASE SchedRun
    <2>1. ASSUME NEW i \in Heads, queue' = queue \ {i}, Current' = {i} PROVE WaitingInv'
        <3>1. ASSUME NEW j \in queue', i.work.action \in Updates, j.work.action = "refresh"
              PROVE  FALSE
            <4>1. Precedes(i, j)
                BY <2>1, <3>1 DEF Heads
            <4>2. i.work \in Work /\ j.work \in Work
                BY <2>1, <3>1 DEF TypeOK, Heads, Item
            <4> QED
                BY <3>1, <4>1, <4>2, ActionFacts DEF Precedes, NORMAL, HIGH
        <3> QED
            BY <2>1, <3>1 DEF WaitingInv
    <2> QED
        BY <1>1, <1>4, <2>1, RunsAlone DEF SchedRun, Current
<1>5. CASE Crash
    BY <1>1, <1>5 DEF Crash, Vanish, Current
<1>6. ASSUME NEW w \in Work, Taken(w) PROVE WaitingInv'
    <2>1. PICK n \in Item : /\ n.work = w
                            /\ queue' = queue \cup {n} /\ currentItem' = currentItem
        BY <1>6, Adding DEF Taken, AddNew, TypeOK
    <2>2. ASSUME NEW c \in Current, c.work.action \in Updates,
                 w.action = "refresh", w.show = c.work.show, ~w.scheduled
          PROVE  FALSE
        <3>1. RefreshTaken(w, FALSE) /\ ~w.force
            BY <1>6, <2>2, ActionFacts DEF Taken, Accepts
        <3> QED
            BY <2>2, <3>1, Seen DEF RefreshTaken, RefreshSkipped, RefreshRaises
    <2> QED
        BY <1>2, <2>1, <2>2 DEF Current
<1>7. ASSUME NEW i \in Working(Updates), UpdateWorks(i) PROVE WaitingInv'
    <2>1. /\ i \in Current /\ i.uid \in Nat /\ id_counter + 1 \in Nat
          /\ RefreshAfter(i.work) \in Work
          /\ RefreshAfter(i.work).scheduled = i.work.scheduled
        BY RefreshFacts
    <2>2. CASE UNCHANGED queueVars
        BY <1>1, <2>2 DEF queueVars, Current
    <2>3. ASSUME NEW u \in Nat, AddItem(u, RefreshAfter(i.work)) PROVE WaitingInv'
        <3>1. PICK n \in Item : /\ n.work = RefreshAfter(i.work)
                                /\ queue' = queue \cup {n} /\ currentItem' = currentItem
            BY <2>1, <2>3, Adding
        <3>2. \A c \in Current : c = i
            BY <2>1 DEF Current
        <3> QED
            BY <1>2, <2>1, <3>1, <3>2 DEF Current
    <2> QED
        BY <1>7, <2>1, <2>2, <2>3, Chaining DEF AddNew
<1>8. ASSUME NEW row \in loading, Loaded(row) PROVE WaitingInv'
    <2>1. Current = {} /\ Current' = Current
        BY <1>8, AddingLoaded DEF Loaded, CurrentInv, Current
    <2> QED
        BY <2>1 DEF WaitingInv
<1> QED
    BY <1>3, <1>4, <1>5, <1>6, <1>7, <1>8, Effects DEF UidsInv

LEMMA OwedStep == ASSUME IInv, [Next]_vars PROVE OwedInv'
<1> USE DEF IInv
<1>1. ASSUME queue \subseteq queue', owed' \subseteq owed PROVE OwedInv'
    BY <1>1 DEF OwedInv
<1>2. CASE Quiet \/ Start
    BY <1>1, <1>2 DEF Quiet, Start
<1>3. CASE Dropped
    BY <1>3 DEF Dropped, OwedInv
<1>4. CASE SchedRun
    <2>1. ASSUME NEW w \in owed', NEW i \in queue,
                 i.work.action = "refresh", i.work.show = w.show
          PROVE  i \in queue'
        <3>1. Action[i.work] = "refresh"
            BY <2>1, WorkFacts DEF TypeOK, Item
        <3>2. w.show \notin {j.work.show : j \in {k \in queue : k \notin queue' /\ Action[k.work] = "refresh"}}
            BY <1>4 DEF SchedRun, Forgive
        <3> QED
            BY <2>1, <3>1, <3>2
    <2>2. owed' \subseteq owed
        BY <1>4 DEF SchedRun, Forgive
    <2> QED
        BY <2>1, <2>2 DEF OwedInv
<1>5. CASE Crash
    BY <1>1, <1>5 DEF Crash, OwedInv
<1>6. ASSUME NEW w \in Work, Taken(w) PROVE OwedInv'
    BY <1>1, <1>6, Adding DEF Taken, AddNew, TypeOK
<1>7. ASSUME NEW i \in Working(Updates), UpdateWorks(i) PROVE OwedInv'
    <2> DEFINE w == RefreshAfter(i.work)
    <2>1. /\ i \in Current /\ i.work.action \in Updates
          /\ i.uid \in Nat /\ id_counter + 1 \in Nat /\ w \in Work
          /\ w.action = "refresh" /\ w.show = i.work.show
          /\ w.scheduled = i.work.scheduled /\ w.force = i.work.force
        BY RefreshFacts
    <2>2. \/ \E u \in Nat : AddItem(u, w)
          \/ ~RefreshTaken(w, TRUE) /\ queue' = queue
        BY <1>7, <2>1, Chaining DEF AddNew, queueVars
    <2>3. queue \subseteq queue'
        BY <2>1, <2>2, Adding
    <2>4. ASSUME ~SwitchPending(i.work.show)
          PROVE  \E j \in queue' : /\ j.work.action = "refresh" /\ j.work.show = i.work.show
                                   /\ i.work.scheduled => j.work.scheduled
        <3>1. CASE \E u \in Nat : AddItem(u, w)
            BY <2>1, <3>1, Adding
        <3>2. CASE ~RefreshTaken(w, TRUE) /\ queue' = queue
            <4>1. ~IsInQueue(w.show, Updates)
                <5>1. SUFFICES ASSUME NEW j \in queue, j.work.action \in Updates,
                                      j.work.show = w.show
                               PROVE  FALSE
                    BY Waits
                <5>2. Action[i.work] \in Updates /\ Action[j.work] \in Updates
                    BY <2>1, <5>1, WorkFacts, LiveType DEF Item, TypeOK
                <5>3. i = j
                    BY <2>1, <5>1, <5>2 DEF OneUpdatePerShow, Live
                <5> QED
                    BY <2>1, <5>1, <5>3 DEF CurrentInv, Current
            <4>2. RefreshQueued(w)
                BY <2>1, <2>4, <3>2, <4>1 DEF RefreshTaken, RefreshSkipped, RefreshRaises
            <4>3. ~IsBeing(w.show, {"refresh"})
                <5>1. \A c \in Current : Action[c.work] \in Updates
                    BY <2>1, WorkFacts, LiveType DEF Current, Item
                <5> QED
                    BY <5>1, ActionFacts DEF IsBeing
            <4>4. PICK j \in queue : j.work.action = "refresh" /\ j.work.show = w.show
                BY <4>2, <4>3, Waits DEF RefreshQueued
            <4> QED
                BY <2>1, <3>2, <4>4 DEF WaitingInv
        <3> QED
            BY <2>2, <3>1, <3>2
    <2>5. \A x \in owed : \E j \in queue' :
              /\ j.work.action = "refresh" /\ j.work.show = x.show
              /\ x.scheduled => j.work.scheduled
        BY <2>3 DEF OwedInv
    <2>6. owed' = owed \/ (~SwitchPending(i.work.show) /\ owed' = owed \cup {i.work})
        BY <1>7, Chaining
    <2> HIDE DEF w
    <2>7. \A x \in owed' : \E j \in queue' :
              /\ j.work.action = "refresh" /\ j.work.show = x.show
              /\ x.scheduled => j.work.scheduled
        <3>1. CASE owed' = owed
            BY <2>5, <3>1
        <3>2. CASE ~SwitchPending(i.work.show) /\ owed' = owed \cup {i.work}
            BY <2>4, <2>5, <3>2
        <3> QED
            BY <2>6, <3>1, <3>2
    <2> QED
        BY <2>7 DEF OwedInv
<1>8. ASSUME NEW row \in loading, Loaded(row) PROVE OwedInv'
    BY <1>1, <1>8, AddingLoaded DEF Loaded
<1> QED
    BY <1>2, <1>3, <1>4, <1>5, <1>6, <1>7, <1>8, Effects DEF UidsInv

-----------------------------------------------------------------------------
\* The inductive invariant: one update per show, uids, the current item, the
\* refreshes that wait while an update runs, and those that are owed.
THEOREM Invariant == Spec => []IInv
<1>1. Init => IInv
    BY InitIInv
<1>2. IInv /\ [Next]_vars => IInv'
    BY NextTypeOK, OneUpdateStep, UidsStep, CurrentStep, WaitingStep, OwedStep DEF IInv
<1> QED
    BY <1>1, <1>2, PTL DEF Spec

\* Whoever asks, no two updates of a show wait or run at once.
THEOREM UpdatesAreSingle == Spec => []OneUpdatePerShow
BY Invariant, PTL DEF IInv

\* Removing by uid never reaches another show, although an update may share
\* its uid with its refresh.
THEOREM UidsStayWithAShow == Spec => []UidsNameOneShow
<1>1. IInv => UidsNameOneShow
    BY DEF IInv, UidsInv
<1> QED
    BY <1>1, Invariant, PTL

\* An update that succeeded is followed by a refresh, or one waits for it.
THEOREM UpdatesAreRefreshed == Spec => []UpdateIsRefreshed
<1>1. IInv => UpdateIsRefreshed
    BY Waits DEF IInv, OwedInv, UpdateIsRefreshed
<1> QED
    BY <1>1, Invariant, PTL

\* Only job_run begins the events.
LEMMA EventsBeginInSchedRun ==
    ASSUME [Next]_vars, sched = "loop", sched' = "events"
    PROVE  SchedRun
<1> USE DEF queueVars, procVars, dailyVars
<1>2. CASE \E w \in Work : Request(w)
    BY <1>2 DEF Request
<1>3. CASE (\E uids \in SUBSET Uids(queue) : Remove(uids)) \/ (\E t \in ClearTypes : Clear(t))
    BY <1>3 DEF Remove, Clear
<1>4. CASE \E s \in Show : DeleteShow(s) \/ DeleteEnds(s)
    BY <1>4 DEF DeleteShow, DeleteBegins, DeleteEnds
<1>5. CASE ItemStep
    BY <1>5 DEF ItemStep, AddFinds, AddFails, DeleteBegins, UpdateWorks
<1>6. CASE \E u \in threads : ThreadEnds(u)
    BY <1>6 DEF ThreadEnds
<1>7. CASE \E d \in Updaters : DailyStart(d) \/ DailyRaises(d)
    BY <1>7 DEF DailyStart, DailyRaises
<1>8. CASE DailyStep
    BY <1>8 DEF DailyStep, DailyAsks, DailyEnd
<1>9. CASE SchedulerStep
    BY <1>9 DEF SchedulerStep, LoadRow, LoadAborts, LoadDone, FlagCleared
<1>10. CASE Crash \/ Start
    BY <1>10 DEF Crash, Start
<1>11. CASE UNCHANGED vars
    BY <1>11 DEF vars
<1> QED
    BY <1>2, <1>3, <1>4, <1>5, <1>6, <1>7, <1>8, <1>9, <1>10, <1>11 DEF Next

\* The event of the daily update comes after the refreshes of its shows.
THEOREM EventComesLast == Spec => DailyFinishedMeansRefreshed
<1>1. ASSUME IInv, IInv', [Next]_vars, sched = "loop", sched' = "events"
      PROVE  \A w \in owed' : ~w.scheduled
    <2>1. SchedRun
        BY <1>1, EventsBeginInSchedRun
    <2>2. ~ShowUpdateRunning'
        BY <1>1, <2>1 DEF SchedRun, CheckEvents, DailyFinished
    <2>3. OwedInv'
        BY <1>1 DEF IInv
    <2> QED
        BY <2>2, <2>3 DEF ShowUpdateRunning, OwedInv, Live
<1>2. IInv /\ IInv' /\ [Next]_vars =>
          [sched = "loop" /\ sched' = "events" => \A w \in owed' : ~w.scheduled]_vars
    BY <1>1
<1> QED
    BY <1>2, Invariant, PTL DEF Spec, DailyFinishedMeansRefreshed

-----------------------------------------------------------------------------
(***************************************************************************)
(* The refinement: like the search queue, the show queue keeps the promise *)
(* of PriorityQueue.                                                       *)
(***************************************************************************)
\* An item gets a time later than any that waits.
LEMMA AppendPuts ==
    ASSUME NEW u, NEW w \in Work, NEW a \in NextAdded,
           queue' = queue \cup {[uid |-> u, work |-> w, added |-> a]},
           UNCHANGED <<currentItem, threads>>
    PROVE  Promise!Next
<1> DEFINE i == [uid |-> u, work |-> w, added |-> a]
<1>1. i \in queue' /\ i.work \in Work /\ \A j \in queue : j.added < i.added
    BY DEF NextAdded, Live
<1>2. Running' = Running
    BY DEF Running, Current
<1> QED
    BY <1>1, <1>2 DEF Promise!Next, Promise!Put

\* job_run takes the head of the sorted queue when nothing runs.
LEMMA JobRunTakes ==
    ASSUME TypeOK, JobRun
    PROVE  Promise!Next \/ UNCHANGED <<queue, Running>>
<1>1. CASE CurrentAlive /\ UNCHANGED queueVars
    BY <1>1 DEF queueVars, Running, Current
<1>2. CASE ~CurrentAlive /\ StartHead
    <2>1. Running = {}
        BY <1>2 DEF Running, Current, CurrentAlive
    <2>2. PICK i \in Heads : /\ queue' = queue \ {i} /\ currentItem' = i
                             /\ threads' = threads \cup {i.uid}
        BY <1>2 DEF StartHead
    <2>3. i \in queue /\ i # NoItem
        BY <2>2, ShowQueueAssumption DEF Heads, TypeOK
    <2>4. Running' = {i}
        BY <2>2, <2>3 DEF Running, Current
    <2>5. \A j \in queue \ {i} : Promise!Before(i, j)
        BY <2>2 DEF Heads, Precedes, Promise!Before
    <2> QED
        BY <2>1, <2>2, <2>3, <2>4, <2>5 DEF Promise!Take, Promise!Next
<1>3. CASE ~CurrentAlive /\ StartNone
    BY <1>3 DEF StartNone, Running, Current, CurrentAlive
<1> QED
    BY <1>1, <1>2, <1>3 DEF JobRun

LEMMA StepKeepsPromise == TypeOK /\ [Next]_vars => [Promise!Next]_(Promise!vars)
<1> SUFFICES ASSUME TypeOK, [Next]_vars
             PROVE  Promise!Next \/ UNCHANGED <<queue, Running>>
    BY DEF Promise!vars
<1>1. ASSUME NEW u, NEW w \in Work, AddItem(u, w) PROVE Promise!Next
    BY <1>1, AppendPuts DEF AddItem
<1>2. ASSUME queue' \subseteq queue, UNCHANGED <<currentItem, threads>> PROVE Promise!Next
    BY <1>2 DEF Promise!Next, Promise!Withdraw, Running, Current
<1>3. ASSUME NEW w \in Work, Request(w) PROVE Promise!Next
    BY <1>1, <1>3 DEF Request, AddNew
<1>4. ASSUME NEW row \in loading, LoadRow(row)
      PROVE  Promise!Next
    <2>1. row.work \in Work
        BY <1>4 DEF TypeOK, Row
    <2> QED BY <1>2, <1>4, <2>1, AppendPuts DEF LoadRow, AddLoaded, queueVars
<1>5. ASSUME NEW i \in Working(Updates), UpdateWorks(i) PROVE Promise!Next
    <2>1. RefreshAfter(i.work) \in Work
        BY RefreshFacts
    <2> QED
        BY <1>1, <1>2, <1>5, <2>1, Chaining DEF AddNew, queueVars
<1>6. ASSUME NEW d \in Updaters, NEW s \in Show, DailyAsks(d, s) PROVE Promise!Next
    <2>1. PICK w \in {DailyUpdate(s), DailyRefresh(s)} :
             IF Accepts(w) THEN AddNew(w) ELSE UNCHANGED queueVars
        BY <1>6 DEF DailyAsks
    <2>2. w \in Work
        BY <2>1, ShowQueueAssumption
    <2> QED
        BY <1>1, <1>2, <2>1, <2>2 DEF AddNew, queueVars
<1>7. ASSUME NEW uids, Remove(uids) PROVE Promise!Next
    BY <1>2, <1>7 DEF Remove, RemoveFromQueue
<1>8. ASSUME NEW types, Clear(types) PROVE Promise!Next
    BY <1>2, <1>8 DEF Clear, ClearQueue
<1>9. ASSUME NEW s, DeleteBegins(s) PROVE Promise!Next
    BY <1>2, <1>9 DEF DeleteBegins, RemoveFromQueue
<1>10. CASE SchedRun
    BY <1>10, JobRunTakes DEF SchedRun
<1>11. ASSUME NEW u \in threads, ThreadEnds(u) PROVE Promise!Next
    <2>1. Running' = {}
        BY <1>11 DEF ThreadEnds, ItemEnds, TypeOK, Uids, Running, Current
    <2> QED BY <1>11, <2>1 DEF ThreadEnds, ItemEnds, Promise!Next, Promise!Finish
<1>12. CASE Crash
    BY <1>12 DEF Crash, Vanish, Running, Current, Promise!Next, Promise!Vanish
<1>13. ASSUME UNCHANGED <<queue, currentItem, threads>> PROVE Promise!Next
    BY <1>2, <1>13
<1>15. ASSUME NEW s \in Show, DeleteEnds(s) PROVE Promise!Next
    BY <1>13, <1>15 DEF DeleteEnds, queueVars
<1>16. ASSUME NEW i, AddFinds(i) PROVE Promise!Next
    BY <1>13, <1>16 DEF AddFinds, queueVars
<1>17. ASSUME NEW d \in Updaters, DailyStart(d) \/ DailyEnd(d) \/ DailyRaises(d)
       PROVE  Promise!Next
    BY <1>13, <1>17 DEF DailyStart, DailyEnd, DailyRaises, queueVars
<1>18. ASSUME NEW row \in loading, LoadAborts(row) PROVE Promise!Next
    BY <1>13, <1>18 DEF LoadAborts, queueVars
<1>19. CASE LoadDone \/ FlagCleared \/ Start \/ UNCHANGED vars
    BY <1>13, <1>19 DEF LoadDone, FlagCleared, Start, vars, queueVars
<1>20. CASE ItemStep
    BY <1>5, <1>9, <1>16, <1>20 DEF ItemStep, AddFails
<1>21. CASE DailyStep
    BY <1>6, <1>17, <1>21 DEF DailyStep
<1>22. CASE SchedulerStep
    BY <1>4, <1>10, <1>18, <1>19, <1>22 DEF SchedulerStep
<1> QED
    BY <1>3, <1>7, <1>8, <1>9, <1>11, <1>12, <1>15, <1>17, <1>19, <1>20, <1>21, <1>22
       DEF Next, DeleteShow

\* The show queue keeps the promise too, although an update puts its refresh
\* into the queue that runs it and uids are not always distinct there.
THEOREM ImplementsPromise == Spec => Promise!Spec
<1>1. Init => Promise!Init
    BY DEF Init, Empty, Promise!Init, Running, Current
<1> QED
    BY <1>1, StepKeepsPromise, TypeCorrect, PTL DEF Spec, Promise!Spec

-----------------------------------------------------------------------------
(***************************************************************************)
(* One updater, and the flag that is lost.  With the run at the start      *)
(* beside the scheduler's, the first of the two to end takes amActive down *)
(* for both, and check_events may announce a daily update of which a run   *)
(* still goes on.  A flag that is set while the events run is cleared with *)
(* the one that was announced; but all that its run queued is done then.   *)
(***************************************************************************)
ActiveInv(d) == amActive <=> runs[d] # NoRun

LEMMA ActiveNext ==
    ASSUME NEW d, Updaters = {d}, NoRun \notin Run, TypeOK, ActiveInv(d), [Next]_vars
    PROVE  ActiveInv(d)'
<1>1. ASSUME UNCHANGED <<runs, amActive>> PROVE ActiveInv(d)'
    BY <1>1 DEF ActiveInv
<1>2. CASE \E e \in Updaters : DailyStart(e)
    <2>1. runs' = [runs EXCEPT ![d] = [left |-> showList, got |-> FALSE]] /\ amActive' = TRUE
        BY <1>2 DEF DailyStart
    <2>2. [left |-> showList, got |-> FALSE] \in Run
        BY DEF TypeOK, Run
    <2>3. runs'[d] \in Run
        BY <2>1, <2>2 DEF TypeOK
    <2> QED BY <2>1, <2>3 DEF ActiveInv
<1>3. ASSUME NEW s \in Show, DailyAsks(d, s) PROVE ActiveInv(d)'
    <2>1. PICK w : runs' = [runs EXCEPT ![d].left = @ \ {s}, ![d].got = @ \/ Accepts(w)]
        BY <1>3 DEF DailyAsks
    <2>2. runs[d] \in Run /\ runs \in [Updaters -> Run \cup {NoRun}] /\ amActive' = amActive
        BY <1>3 DEF DailyAsks, TypeOK
    <2>3. runs'[d] = [[runs[d] EXCEPT !.left = @ \ {s}] EXCEPT !.got = @ \/ Accepts(w)]
        BY <2>1, <2>2
    <2>4. runs'[d] \in Run
        BY <2>2, <2>3 DEF Run
    <2> QED BY <1>3, <2>2, <2>4 DEF ActiveInv, DailyAsks
<1>4. CASE \E e \in Updaters : DailyEnd(e) \/ DailyRaises(e)
    BY <1>4 DEF DailyEnd, DailyRaises, ActiveInv, TypeOK
<1>5. CASE DailyStep
    BY <1>3, <1>4, <1>5 DEF DailyStep
<1>6. CASE Crash
    BY <1>6 DEF Crash, ActiveInv
<1>7. CASE (\E w \in Work : Request(w)) \/ (\E u \in threads : ThreadEnds(u))
    BY <1>1, <1>7 DEF Request, ThreadEnds, procVars, dailyVars
<1>8. CASE (\E uids \in SUBSET Uids(queue) : Remove(uids)) \/ (\E types \in ClearTypes : Clear(types))
    BY <1>1, <1>8 DEF Remove, Clear, dailyVars
<1>9. CASE (\E s \in Show : DeleteShow(s) \/ DeleteEnds(s)) \/ ItemStep
    BY <1>1, <1>9
       DEF DeleteShow, DeleteBegins, DeleteEnds, ItemStep, AddFinds, AddFails, UpdateWorks, dailyVars
<1>10. CASE SchedulerStep \/ Start \/ UNCHANGED vars
    BY <1>1, <1>10
       DEF SchedulerStep, LoadRow, LoadAborts, LoadDone, SchedRun, FlagCleared, Start, vars, procVars, dailyVars
<1> QED
    BY <1>2, <1>4, <1>5, <1>6, <1>7, <1>8, <1>9, <1>10 DEF Next

\* When there is no other updater thread than the scheduler's (no update at the
\* start), the event of the daily update comes after its run, and after every
\* update and refresh of it has left the queue.
THEOREM OneUpdaterEventComesLast ==
    ASSUME NEW d, Updaters = {d}, NoRun \notin Run
    PROVE  Spec => [][sched = "loop" /\ sched' = "events" =>
                        /\ runs[d] = NoRun
                        /\ \A i \in Live' : ~i.work.scheduled]_vars
<1>1. Init => ActiveInv(d)
    BY DEF Init, ActiveInv
<1>2. TypeOK /\ ActiveInv(d) /\ [Next]_vars => ActiveInv(d)'
    BY ActiveNext
<1>3. IInv /\ ActiveInv(d) /\ [Next]_vars =>
        [sched = "loop" /\ sched' = "events" =>
            /\ runs[d] = NoRun
            /\ \A i \in Live' : ~i.work.scheduled]_vars
    <2> SUFFICES ASSUME IInv, ActiveInv(d), [Next]_vars, sched = "loop", sched' = "events"
                 PROVE  runs[d] = NoRun /\ \A i \in Live' : ~i.work.scheduled
        OBVIOUS
    <2>1. SchedRun
        BY EventsBeginInSchedRun
    <2>2. ~amActive /\ ~ShowUpdateRunning'
        BY <2>1 DEF SchedRun, CheckEvents, DailyFinished
    <2> QED BY <2>2 DEF ActiveInv, ShowUpdateRunning
<1>4. IInv => TypeOK
    BY DEF IInv
<1> QED
    BY <1>1, <1>2, <1>3, <1>4, Invariant, PTL DEF Spec

\* While the events run, and until the flag is cleared, no scheduled update or
\* refresh waits or runs: a flag that an updater sets meanwhile and that is
\* cleared with the other stood for work that is done.
NothingScheduled == sched = "events" => \A i \in Live : ~i.work.scheduled

THEOREM LostFlagIsDone == Spec => []NothingScheduled
<1>1. Init => NothingScheduled
    BY DEF Init, NothingScheduled
<1>2. IInv /\ NothingScheduled /\ [Next]_vars => NothingScheduled'
    <2> SUFFICES ASSUME IInv, NothingScheduled, [Next]_vars, sched' = "events"
                 PROVE  \A i \in Live' : ~i.work.scheduled
        BY DEF NothingScheduled
    <2>1. CASE SchedRun
        <3>1. CASE DailyFinished
            BY <3>1 DEF DailyFinished, ShowUpdateRunning
        <3> QED
            BY <2>1, <3>1 DEF SchedRun, CheckEvents
    <2>2. CASE Quiet \/ Dropped
        BY <2>2 DEF Quiet, Dropped, Live, Current, NothingScheduled
    <2>3. CASE Crash \/ Start
        BY <2>3 DEF Crash, Start
    <2>4. CASE (\E w \in Work : Taken(w)) \/ (\E i \in Working(Updates) : UpdateWorks(i))
        BY <2>4 DEF Taken, UpdateWorks, Unlocked
    <2>5. CASE \E row \in loading : Loaded(row)
        BY <2>5 DEF Loaded
    <2> QED
        BY <2>1, <2>2, <2>3, <2>4, <2>5, Effects DEF IInv, UidsInv
<1> QED
    BY <1>1, <1>2, Invariant, PTL DEF Spec
=============================================================================
