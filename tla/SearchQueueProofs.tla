-------------------------- MODULE SearchQueueProofs --------------------------
(***************************************************************************)
(* Proofs about SearchQueue for every set of works, shows and requesting   *)
(* threads and every bound.  What the invariants need beside themselves:   *)
(* how the rows load_queue holds and the list save_queue made relate to    *)
(* the items that live and to the table.                                   *)
(***************************************************************************)
EXTENDS SearchQueue, TLAPS

\* A uid names one thing among items, rows, rows held and items listed.
UidsInv ==
    /\ currentItem \notin queue
    /\ \A i, j \in Live : i.uid = j.uid => i = j
    /\ \A r, s \in table : r.uid = s.uid => r = s
    /\ \A i \in Live, r \in table : i.uid = r.uid => RowOf(i) = r
    /\ \A x \in Held, r \in table : x.uid = r.uid => x = r
    /\ \A x, y \in Held : x.uid = y.uid => x = y
    /\ \A x \in Held, i \in Live \cup snapshot : x.uid # i.uid
    /\ adding[Loader] \notin loading
    /\ \A i, j \in snapshot : i.uid = j.uid => i = j
    /\ \A i \in snapshot, j \in Live : i.uid = j.uid => i = j
    /\ \A i \in snapshot, r \in table : i.uid = r.uid => RowOf(i) = r

\* No uid is ahead of the counter.
CounterInv ==
    \A x \in Live \cup table \cup Held \cup snapshot : x.uid <= id_counter

\* A row load_queue holds is still in the table, or known to be gone.
HeldInv == \A x \in Held : x \in table \/ x.uid \in unsaved

\* While save_queue has a list, what lives and is not on it is known to be
\* about to lose its row.
SnapshotInv ==
    phase = "saving" => \A i \in Live : i \in snapshot \/ i.uid \in unsaved

\* A process that ended holds nothing.
DownInv ==
    phase = "down" => /\ queue = {} /\ currentItem = NoItem /\ threads = {}
                      /\ Held = {} /\ snapshot = {}

IInv == /\ TypeOK
        /\ UidsInv /\ CounterInv /\ HeldInv /\ SnapshotInv /\ DownInv
        /\ Durable /\ NoSearchRepeated /\ OneSearchAtATime
-----------------------------------------------------------------------------
(***************************************************************************)
(* The type invariant.                                                     *)
(***************************************************************************)
\* What Uids, Held and SavedRows are made of.
LEMMA UidsType ==
    ASSUME NEW S, S \subseteq Item \cup Row
    PROVE  Uids(S) \subseteq Nat
BY DEF Uids, Item, Row

LEMMA HeldType == ASSUME TypeOK PROVE Held \subseteq Row
BY DEF TypeOK, Held, Threads

LEMMA LiveType == ASSUME TypeOK PROVE Live \subseteq Item
BY DEF TypeOK, Live, Current

LEMMA SavedRowsType ==
    ASSUME NEW S, S \subseteq Item PROVE SavedRows(S) \subseteq Row
BY DEF SavedRows, RowOf, Item, Row

LEMMA InitTypeOK == Init => TypeOK
BY GenericQueueAssumption, SearchQueueAssumption
   DEF Init, TypeOK, Empty, Threads, Item, Row

LEMMA NextTypeOK == TypeOK /\ [Next]_vars => TypeOK'
<1> SUFFICES ASSUME TypeOK, [Next]_vars PROVE TypeOK'
    OBVIOUS
<1> USE GenericQueueAssumption, SearchQueueAssumption
        DEF TypeOK, Item, Row, Threads, queueVars, procVars
<1>1. ASSUME NEW t \in Requesters, NEW w \in Work, AddCheck(t, w) PROVE TypeOK'
    BY <1>1 DEF AddCheck, NoUid
<1>2. ASSUME NEW t \in Requesters, AddAppend(t) PROVE TypeOK'
    BY <1>2 DEF AddAppend, AddNew, AddItem, NextAdded, Insert, RowOf, Live, Current
<1>3. ASSUME NEW row \in loading, LoadSkip(row) \/ LoadCheck(row) PROVE TypeOK'
    <2>1. row \in Row
        BY Zenon
    <2>2. CASE LoadSkip(row)
        BY <2>1, <2>2 DEF LoadSkip
    <2>3. CASE LoadCheck(row)
        BY <2>1, <2>3 DEF LoadCheck
    <2> QED
        BY <1>3, <2>2, <2>3
<1>4. CASE LoadAppend
    <2>1. adding[Loader] \in Row
        BY <1>4 DEF LoadAppend
    <2>2. NextAdded \subseteq Nat
        BY LiveType DEF NextAdded
    <2>3. queue' \subseteq Item
        BY <1>4, <2>1, <2>2 DEF LoadAppend, AddLoaded
    <2>4. adding' \in [Threads -> Row \cup {Idle}]
        BY <1>4 DEF LoadAppend
    <2>5. unsaved' \subseteq Nat
        BY <1>4, <2>1 DEF LoadAppend
    <2> QED
        BY <1>4, <2>3, <2>4, <2>5 DEF LoadAppend, AddLoaded
<1>5. CASE LoadDone \/ SchedTest
    BY <1>5 DEF LoadDone, SchedTest
<1>6. CASE SchedRun
    BY <1>6 DEF SchedRun, JobRun, Reaped, StartHead, StartNone, Heads
<1>7. ASSUME NEW u \in threads, SearchEnds(u) PROVE TypeOK'
    BY <1>7 DEF SearchEnds, ItemEnds
<1>8. ASSUME NEW uids, Remove(uids) PROVE TypeOK'
    BY <1>8 DEF Remove, RemoveFromQueue, Removable
<1>9. ASSUME NEW type \in ActionTypes, Clear(type) PROVE TypeOK'
    <2>1. Uids({x \in Current \cup Held : Action[x.work] = type}) \subseteq Nat
        BY UidsType, HeldType, LiveType DEF Live
    <2> QED
        BY <1>9, <2>1 DEF Clear, ClearQueue
<1>10. CASE PauseBacklog \/ UnpauseBacklog
    BY <1>10 DEF PauseBacklog, UnpauseBacklog, SetMinPriority
<1>11. CASE HaltStop \/ SaveList \/ Exit \/ Crash
    <2>1. CASE HaltStop
        BY <2>1 DEF HaltStop
    <2>2. CASE SaveList
        BY <2>2 DEF SaveList, Live, Current
    <2>3. CASE Exit \/ Crash
        BY <2>3 DEF Exit, Crash, ProcessEnds, Vanish
    <2> QED
        BY <1>11, <2>1, <2>2, <2>3
<1>12. CASE SaveWrite
    <2>1. /\ Uids(Held) \subseteq Nat
          /\ Uids({i \in snapshot : Outranked(i, snapshot)}) \subseteq Nat
          /\ Uids(snapshot) \subseteq Nat
        BY UidsType, HeldType
    <2>2. SavedRows(snapshot) \subseteq Row
        BY SavedRowsType
    <2> QED
        BY <1>12, <2>1, <2>2 DEF SaveWrite
<1>13. CASE Start
    BY <1>13 DEF Start, InitId, Uids
<1>14. CASE UNCHANGED vars
    BY <1>14 DEF vars
<1> QED
    BY <1>1, <1>2, <1>3, <1>4, <1>5, <1>6, <1>7, <1>8, <1>9, <1>10, <1>11,
       <1>12, <1>13, <1>14 DEF Next, SchedulerStep, Halting, AbortShow

\* Type correctness of the search queue, in every interleaving.
THEOREM TypeCorrect == Spec => []TypeOK
BY InitTypeOK, NextTypeOK, PTL DEF Spec
-----------------------------------------------------------------------------
(***************************************************************************)
(* The inductive invariant: one lemma per kind of step.                    *)
(***************************************************************************)
LEMMA UidsMember ==
    ASSUME NEW S, NEW u PROVE u \in Uids(S) <=> \E x \in S : x.uid = u
BY DEF Uids

LEMMA InitIInv == Init => IInv
BY InitTypeOK
   DEF Init, Empty, IInv, TypeOK, UidsInv, CounterInv, HeldInv, SnapshotInv, DownInv,
       Durable, NoSearchRepeated, OneSearchAtATime, Live, Current, Held, Uids, Threads

\* A request is appended: its uid is new to everything.
LEMMA AddAppendIInv ==
    ASSUME IInv, TypeOK', NEW t \in Requesters, AddAppend(t)
    PROVE  IInv'
<1> DEFINE w == adding[t].work
<1>1. PICK a \in NextAdded :
         LET i == [uid |-> id_counter + 1, work |-> w, added |-> a]
         IN  queue' = queue \cup {i} /\ table' = Insert(table, i)
    BY DEF AddAppend, AddNew, AddItem
<1> DEFINE i == [uid |-> id_counter + 1, work |-> w, added |-> a]
<1>2. /\ t # Loader
      /\ UNCHANGED <<currentItem, threads, loading, snapshot, phase, stale>>
      /\ adding[Loader]' = adding[Loader]
      /\ id_counter' = id_counter + 1
      /\ phase # "down"
    BY SearchQueueAssumption DEF AddAppend, AddNew, AddItem, Threads, IInv, TypeOK, Alive
<1>3. /\ Live' = Live \cup {i} /\ Held' = Held
      /\ queue' = queue \cup {i} /\ Current' = Current
    BY <1>1, <1>2 DEF Live, Current, Held
<1>4. \A x \in Live \cup table \cup Held \cup snapshot : x.uid # i.uid
    BY DEF IInv, CounterInv, TypeOK
<1>5. table' = table \/ table' = table \cup {RowOf(i)}
    BY <1>1 DEF Insert
<1>6. i.work \in Persisted /\ (\A r \in table : r.work # w) => RowOf(i) \in table'
    <2>1. w \in Work /\ \A r \in table : r.work \in Work
        BY DEF AddAppend, IInv, TypeOK, Threads, Row
    <2>2. \A r \in table : r.work # w => Key[r.work] # Key[w]
        BY <2>1, SearchQueueAssumption
    <2> QED
        BY <1>1, <1>4, <2>2 DEF Insert
<1>7. UidsInv'
    <2>1. RowOf(i).uid = i.uid
        BY DEF RowOf
    <2>2. currentItem' \notin queue'
        <3>1. i \in Item
            <4>1. a \in Nat
                BY LiveType DEF NextAdded, IInv, Item
            <4>2. w \in Work
                BY <1>2 DEF AddAppend, IInv, TypeOK, Threads, Row
            <4> QED BY <4>1, <4>2 DEF IInv, TypeOK, Item
        <3>2. currentItem # i
            BY <1>4, <3>1, SearchQueueAssumption DEF Live, Current
        <3> QED BY <3>2, <1>2, <1>3 DEF IInv, UidsInv
    <2> QED
        BY <1>2, <1>3, <1>4, <1>5, <2>1, <2>2 DEF IInv, UidsInv, RowOf
<1>8. CounterInv'
    <2>1. \A x \in Live \cup table \cup Held \cup snapshot : x.uid \in Nat
        BY LiveType, HeldType DEF IInv, TypeOK, Item, Row
    <2>2. \A x \in Live \cup table \cup Held \cup snapshot : x.uid <= id_counter'
        BY <1>2, <2>1 DEF IInv, CounterInv, TypeOK
    <2>3. i.uid <= id_counter' /\ RowOf(i).uid <= id_counter'
        BY <1>2 DEF IInv, TypeOK, RowOf
    <2> HIDE DEF i
    <2> QED
        BY <1>2, <1>3, <1>5, <2>2, <2>3 DEF CounterInv
<1>9. HeldInv'
    BY <1>3, <1>5 DEF IInv, HeldInv, AddAppend
<1>10. unsaved \subseteq unsaved'
    BY DEF AddAppend
<1>11. (\E r \in table : r.work = w) \/ phase = "saving" => i.uid \in unsaved'
    BY DEF AddAppend
<1>12. SnapshotInv' /\ DownInv'
    BY <1>2, <1>3, <1>10, <1>11 DEF IInv, SnapshotInv, DownInv
<1>13. Durable'
    BY <1>3, <1>5, <1>6, <1>10, <1>11 DEF IInv, Durable
<1>14. NoSearchRepeated' /\ OneSearchAtATime'
    BY <1>2, <1>3, <1>5 DEF IInv, NoSearchRepeated, OneSearchAtATime, Alive
<1> QED
    BY <1>7, <1>8, <1>9, <1>12, <1>13, <1>14 DEF IInv

\* A row that was read becomes an item; it has one name before and after.
LEMMA LoadAppendIInv ==
    ASSUME IInv, TypeOK', LoadAppend
    PROVE  IInv'
<1> DEFINE row == adding[Loader]
<1>1. PICK a \in NextAdded :
         queue' = queue \cup {[uid |-> row.uid, work |-> row.work, added |-> a]}
    BY DEF LoadAppend, AddLoaded
<1> DEFINE i == [uid |-> row.uid, work |-> row.work, added |-> a]
<1>2. /\ UNCHANGED <<currentItem, threads, loading, snapshot, phase, stale,
                     id_counter, table>>
      /\ phase # "down" /\ row # Idle
    BY DEF LoadAppend, AddLoaded, Alive
<1>3. row \in Row /\ row \in Held /\ Idle \notin loading
    BY <1>2, SearchQueueAssumption DEF IInv, TypeOK, Threads, Held
<1>4. RowOf(i) = row /\ i.uid = row.uid /\ i.work = row.work
    BY <1>3 DEF RowOf, Row
<1>5. i \in Item
    BY <1>3, LiveType DEF NextAdded, IInv, Item, Row
<1>6. adding'[Loader] = Idle
    BY DEF LoadAppend, IInv, TypeOK, Threads
<1>7. /\ Live' = Live \cup {i} /\ Held' = Held \ {row}
      /\ Current' = Current /\ queue' = queue \cup {i}
    BY <1>1, <1>2, <1>3, <1>6 DEF Live, Current, Held, IInv, UidsInv
<1>8. unsaved \subseteq unsaved' /\ (phase = "saving" => i.uid \in unsaved')
    BY DEF LoadAppend
<1>9. /\ \A x \in Live \cup snapshot : x.uid # i.uid
      /\ \A x \in Held \ {row} : x.uid # i.uid
      /\ \A r \in table : r.uid = i.uid => r = RowOf(i)
    BY <1>3, <1>4 DEF IInv, UidsInv
<1> HIDE DEF i, row
<1>10. UidsInv'
    <2>1. currentItem' \notin queue'
        BY <1>2, <1>5, <1>7, <1>9, SearchQueueAssumption
           DEF IInv, UidsInv, Live, Current
    <2>2. adding'[Loader] \notin loading'
        BY <1>2, <1>3, <1>6
    <2> QED
        BY <1>2, <1>7, <1>9, <2>1, <2>2 DEF IInv, UidsInv
<1>11. CounterInv'
    BY <1>2, <1>3, <1>4, <1>7 DEF IInv, CounterInv
<1>12. HeldInv' /\ SnapshotInv' /\ DownInv'
    BY <1>2, <1>7, <1>8 DEF IInv, HeldInv, SnapshotInv, DownInv
<1>13. Durable'
    BY <1>2, <1>3, <1>4, <1>7, <1>8 DEF IInv, Durable, HeldInv
<1>14. NoSearchRepeated' /\ OneSearchAtATime'
    BY <1>2, <1>4, <1>7 DEF IInv, NoSearchRepeated, OneSearchAtATime, Alive
<1> QED
    BY <1>10, <1>11, <1>12, <1>13, <1>14 DEF IInv

\* job_run reaps the dead item with its row and starts at most one.
LEMMA SchedRunIInv ==
    ASSUME IInv, TypeOK', SchedRun
    PROVE  IInv'
<1>1. /\ UNCHANGED <<id_counter, adding, loading, phase, snapshot, unsaved, stale>>
      /\ phase # "down"
      /\ Held' = Held
    BY DEF SchedRun, JobRun, queueVars, Alive, Held
<1>2. CASE CurrentAlive /\ UNCHANGED queueVars
    <2>1. Live' = Live /\ Current' = Current
        BY <1>2 DEF Live, Current, queueVars
    <2> QED
        BY <1>1, <1>2, <2>1
           DEF IInv, UidsInv, CounterInv, HeldInv, SnapshotInv, DownInv, Durable,
               NoSearchRepeated, OneSearchAtATime, queueVars, Alive
<1>3. CASE ~CurrentAlive /\ table' = Reaped /\ (StartHead \/ StartNone)
    <2>1. threads = {}
        BY <1>3, UidsMember DEF CurrentAlive, IInv, OneSearchAtATime, Current
    <2>2. /\ table' = {r \in table : \A c \in Current : r.uid # c.uid}
          /\ Live' = queue
          /\ currentItem' \notin queue'
          /\ \A u \in threads' : currentItem' # NoItem /\ u = currentItem'.uid
        <3>1. table' = {r \in table : \A c \in Current : r.uid # c.uid}
            BY <1>3 DEF Reaped, Current
        <3>2. CASE StartHead
            BY <2>1, <3>1, <3>2, SearchQueueAssumption
               DEF StartHead, Heads, Live, Current, IInv, TypeOK
        <3>3. CASE StartNone
            BY <2>1, <3>1, <3>3, SearchQueueAssumption
               DEF StartNone, Live, Current, IInv, TypeOK
        <3> QED BY <1>3, <3>2, <3>3
    <2>3. /\ Live' \subseteq Live /\ table' \subseteq table
          /\ \A i \in Live : i \in Live' \/ i \in Current
          /\ \A i \in Live', c \in Current : i.uid # c.uid
        BY <2>2 DEF Live, Current, IInv, UidsInv
    <2>4. UidsInv'
        BY <1>1, <2>2, <2>3 DEF IInv, UidsInv
    <2>5. CounterInv' /\ SnapshotInv' /\ DownInv'
        BY <1>1, <2>3 DEF IInv, CounterInv, SnapshotInv, DownInv
    <2>6. HeldInv'
        BY <1>1, <2>2 DEF IInv, HeldInv, UidsInv, Live
    <2>7. Durable'
        BY <1>1, <2>2, <2>3 DEF IInv, Durable, RowOf
    <2>8. NoSearchRepeated'
        BY <1>1, <2>2, <2>3 DEF IInv, NoSearchRepeated, Alive, RowOf
    <2>9. OneSearchAtATime'
        BY <2>2, UidsMember DEF OneSearchAtATime, Current, Uids
    <2> QED
        BY <2>4, <2>5, <2>6, <2>7, <2>8, <2>9 DEF IInv
<1> QED
    BY <1>2, <1>3 DEF SchedRun, JobRun

\* Items taken out go with their rows; nothing else has those uids.
LEMMA RemoveIInv ==
    ASSUME IInv, TypeOK', NEW uids, Remove(uids)
    PROVE  IInv'
<1> DEFINE gone == Removable(uids, Excluded)
<1>1. /\ UNCHANGED <<currentItem, threads, id_counter, adding, loading, phase,
                     snapshot, unsaved, stale>>
      /\ queue' = queue \ gone
      /\ table' = {r \in table : r.uid \notin Uids(gone)}
      /\ gone \subseteq queue
    BY DEF Remove, RemoveFromQueue, Removable, procVars
<1> HIDE DEF gone
<1>2. /\ Live' \subseteq Live /\ table' \subseteq table
      /\ Held' = Held /\ Current' = Current /\ queue' \subseteq queue
      /\ gone \subseteq Live
    BY <1>1 DEF Live, Current, Held
<1>3. \A i \in Live : i \in Live' <=> i \notin gone
    BY <1>1, SearchQueueAssumption DEF Live, Current, IInv, UidsInv
<1>4. UidsInv'
    BY <1>1, <1>2 DEF IInv, UidsInv
<1>5. CounterInv' /\ SnapshotInv' /\ DownInv'
    BY <1>1, <1>2 DEF IInv, CounterInv, SnapshotInv, DownInv
<1>6. HeldInv'
    BY <1>1, <1>2, UidsMember DEF IInv, HeldInv, UidsInv
<1>7. Durable'
    <2> SUFFICES ASSUME NEW i \in Live', i.work \in Persisted, i.uid \notin unsaved
                 PROVE  RowOf(i) \in table'
        BY <1>1 DEF Durable
    <2>1. i \in Live /\ i \notin gone /\ RowOf(i).uid = i.uid
        BY <1>2, <1>3 DEF RowOf
    <2>2. i.uid \notin Uids(gone)
        BY <1>2, <2>1, UidsMember DEF IInv, UidsInv
    <2>3. RowOf(i) \in table
        BY <2>1 DEF IInv, Durable
    <2> QED BY <1>1, <2>1, <2>2, <2>3
<1>8. NoSearchRepeated' /\ OneSearchAtATime'
    BY <1>1, <1>2, <1>3, UidsMember
       DEF IInv, NoSearchRepeated, OneSearchAtATime, Alive, RowOf
<1> QED
    BY <1>4, <1>5, <1>6, <1>7, <1>8 DEF IInv

\* Every row of a type goes; of its holders those that stay are noted.
LEMMA ClearIInv ==
    ASSUME IInv, TypeOK', NEW type, Clear(type)
    PROVE  IInv'
<1>1. /\ UNCHANGED <<currentItem, threads, id_counter, adding, loading, phase,
                     snapshot, stale>>
      /\ queue' = {i \in queue : Action[i.work] \in Excluded \/ Action[i.work] # type}
      /\ table' = {r \in table : Action[r.work] # type}
    BY DEF Clear, ClearQueue
<1>2. /\ unsaved \subseteq unsaved'
      /\ \A x \in Current \cup Held : Action[x.work] = type => x.uid \in unsaved'
    BY UidsMember DEF Clear
<1>3. /\ Live' \subseteq Live /\ table' \subseteq table
      /\ Held' = Held /\ Current' = Current /\ queue' \subseteq queue
    BY <1>1 DEF Live, Current, Held
<1>4. UidsInv'
    BY <1>1, <1>3 DEF IInv, UidsInv
<1>5. CounterInv' /\ SnapshotInv' /\ DownInv'
    BY <1>1, <1>2, <1>3 DEF IInv, CounterInv, SnapshotInv, DownInv
<1>6. HeldInv'
    BY <1>1, <1>2, <1>3 DEF IInv, HeldInv
<1>7. Durable'
    <2> SUFFICES ASSUME NEW i \in Live', i.work \in Persisted, i.uid \notin unsaved'
                 PROVE  RowOf(i) \in table'
        BY DEF Durable
    <2>1. RowOf(i) \in table /\ RowOf(i).work = i.work
        BY <1>2, <1>3 DEF IInv, Durable, RowOf
    <2>2. Action[i.work] \notin Excluded
        BY SearchQueueAssumption DEF Excluded
    <2>3. Action[i.work] # type
        BY <1>1, <1>2, <2>2 DEF Live, Current
    <2> QED BY <1>1, <2>1, <2>3
<1>8. NoSearchRepeated'
    <2> SUFFICES ASSUME phase # "down", NEW r \in table', r.uid \notin stale, r \notin Held
                 PROVE  \E i \in Live' : RowOf(i) = r
        BY <1>1, <1>3 DEF NoSearchRepeated, Alive
    <2>1. PICK i \in Live : RowOf(i) = r
        BY <1>3 DEF IInv, NoSearchRepeated, Alive
    <2> QED BY <1>1, <2>1 DEF Live, Current, RowOf
<1>9. OneSearchAtATime'
    BY <1>1, <1>3 DEF IInv, OneSearchAtATime, Uids
<1> QED
    BY <1>4, <1>5, <1>6, <1>7, <1>8, <1>9 DEF IInv

\* save_queue makes its list of everything that lives.
LEMMA SaveListIInv ==
    ASSUME IInv, TypeOK', SaveList
    PROVE  IInv'
<1>1. /\ UNCHANGED queueVars /\ UNCHANGED <<adding, loading, unsaved, stale>>
      /\ snapshot' = Live /\ phase' = "saving" /\ phase = "stopping"
    BY DEF SaveList
<1>2. Live' = Live /\ Held' = Held /\ Current' = Current
    BY <1>1 DEF Live, Current, Held, queueVars
<1> QED
    BY <1>1, <1>2 DEF IInv, UidsInv, CounterInv, HeldInv, SnapshotInv, DownInv, Durable,
                      NoSearchRepeated, OneSearchAtATime, queueVars, Alive

\* The table becomes the list, whatever happened to the items meanwhile.
LEMMA SaveWriteIInv ==
    ASSUME IInv, TypeOK', SaveWrite
    PROVE  IInv'
<1>1. /\ UNCHANGED <<queue, currentItem, threads, id_counter, adding, loading>>
      /\ snapshot' = {} /\ phase' = "saved" /\ phase = "saving"
      /\ table' = SavedRows(snapshot)
    BY DEF SaveWrite
<1>2. Live' = Live /\ Held' = Held /\ Current' = Current
    BY <1>1 DEF Live, Current, Held
<1>3. \A r \in table' : \E i \in snapshot : r = RowOf(i) /\ r.uid = i.uid
    BY <1>1 DEF SavedRows, RowOf
<1>4. /\ unsaved \subseteq unsaved'
      /\ \A x \in Held : x.uid \in unsaved'
      /\ \A i \in snapshot : Outranked(i, snapshot) => i.uid \in unsaved'
      /\ \A i \in snapshot : i.uid \in stale' \/ \E j \in Live : j.uid = i.uid
    BY UidsMember DEF SaveWrite
<1>5. UidsInv'
    BY <1>1, <1>2, <1>3 DEF IInv, UidsInv, RowOf
<1>6. CounterInv' /\ HeldInv' /\ SnapshotInv' /\ DownInv'
    BY <1>1, <1>2, <1>3, <1>4 DEF IInv, CounterInv, HeldInv, SnapshotInv, DownInv
<1>7. Durable'
    BY <1>1, <1>2, <1>4 DEF IInv, Durable, SnapshotInv, SavedRows
<1>8. NoSearchRepeated' /\ OneSearchAtATime'
    BY <1>1, <1>2, <1>3, <1>4 DEF IInv, NoSearchRepeated, OneSearchAtATime, UidsInv
<1> QED
    BY <1>5, <1>6, <1>7, <1>8 DEF IInv

\* The end of a process leaves the table; the next one reads it whole.
LEMMA ProcessEndsIInv ==
    ASSUME IInv, TypeOK', ProcessEnds
    PROVE  IInv'
<1>1. /\ Live' = {} /\ Current' = {} /\ Held' = {} /\ snapshot' = {}
      /\ loading' = {} /\ adding'[Loader] = Idle
      /\ queue' = {} /\ currentItem' = NoItem /\ threads' = {} /\ phase' = "down"
      /\ UNCHANGED <<id_counter, table>>
    BY DEF ProcessEnds, Vanish, Live, Current, Held, Threads
<1> QED
    BY <1>1 DEF IInv, UidsInv, CounterInv, HeldInv, SnapshotInv, DownInv, Durable,
                NoSearchRepeated, OneSearchAtATime, Alive

LEMMA StartIInv ==
    ASSUME IInv, TypeOK', Start
    PROVE  IInv'
<1>1. /\ UNCHANGED <<queue, currentItem, threads, table, adding, snapshot, unsaved, stale>>
      /\ phase = "down" /\ phase' = "up" /\ loading' = table
      /\ \A r \in table : r.uid <= id_counter'
    BY DEF Start, InitId
<1>2. /\ queue = {} /\ currentItem = NoItem /\ threads = {} /\ snapshot = {}
      /\ adding[Loader] = Idle
    BY <1>1 DEF IInv, DownInv, Held
<1>3. Idle \notin table
    BY SearchQueueAssumption DEF IInv, TypeOK
<1>4. Live' = {} /\ Current' = {} /\ Held' = table
    BY <1>1, <1>2, <1>3 DEF Live, Current, Held
<1> QED
    BY <1>1, <1>2, <1>3, <1>4
       DEF IInv, UidsInv, CounterInv, HeldInv, SnapshotInv, DownInv, Durable,
           NoSearchRepeated, OneSearchAtATime

\* A row passed over is noted; one that passed the test stays held.
LEMMA LoadRowIInv ==
    ASSUME IInv, TypeOK', NEW row \in loading, LoadSkip(row) \/ LoadCheck(row)
    PROVE  IInv'
<1>1. /\ UNCHANGED queueVars /\ UNCHANGED <<sched, phase, snapshot, unsaved>>
      /\ loading' = loading \ {row} /\ adding[Loader] = Idle /\ phase # "down"
      /\ stale \subseteq stale'
    BY DEF LoadSkip, LoadCheck, Alive
<1>2. Live' = Live /\ Current' = Current /\ Held = loading
    BY <1>1, SearchQueueAssumption DEF Live, Current, queueVars, Held, IInv, TypeOK
<1>3. /\ Held' \subseteq Held
      /\ adding'[Loader] \notin loading'
      /\ \A x \in Held : x \in Held' \/ x.uid \in stale'
    <2>1. CASE LoadSkip(row)
        BY <1>1, <1>2, <2>1 DEF LoadSkip, Held, IInv, UidsInv
    <2>2. CASE LoadCheck(row)
        <3>1. adding'[Loader] = row /\ row # Idle
            BY <2>2, SearchQueueAssumption DEF LoadCheck, IInv, TypeOK, Threads
        <3> QED BY <1>1, <1>2, <3>1 DEF Held
    <2> QED BY <2>1, <2>2
<1> QED
    BY <1>1, <1>2, <1>3
       DEF IInv, UidsInv, CounterInv, HeldInv, SnapshotInv, DownInv, Durable,
           NoSearchRepeated, OneSearchAtATime, queueVars, Alive

\* The steps that move neither an item nor a row.
LEMMA QuietIInv ==
    ASSUME IInv, TypeOK',
           UNCHANGED <<queue, currentItem, id_counter, table, loading, snapshot, unsaved, stale>>,
           adding'[Loader] = adding[Loader],
           threads' \subseteq threads,
           phase' = phase \/ (phase = "up" /\ phase' = "stopping")
    PROVE  IInv'
<1>1. Live' = Live /\ Current' = Current /\ Held' = Held
    BY DEF Live, Current, Held
<1>2. UidsInv' /\ CounterInv' /\ HeldInv' /\ SnapshotInv' /\ Durable'
    BY <1>1 DEF IInv, UidsInv, CounterInv, HeldInv, SnapshotInv, Durable
<1>3. DownInv' /\ NoSearchRepeated' /\ OneSearchAtATime'
    BY <1>1 DEF IInv, DownInv, NoSearchRepeated, OneSearchAtATime, Alive
<1> QED BY <1>2, <1>3 DEF IInv

LEMMA NextIInv == IInv /\ [Next]_vars => IInv'
<1> SUFFICES ASSUME IInv, [Next]_vars PROVE IInv'
    OBVIOUS
<1>1. TypeOK /\ TypeOK'
    BY NextTypeOK DEF IInv
<1>2. ASSUME NEW t \in Requesters, NEW w \in Work, AddCheck(t, w) PROVE IInv'
    <2>1. adding'[Loader] = adding[Loader]
        BY <1>1, <1>2, SearchQueueAssumption DEF AddCheck, TypeOK, Threads
    <2> QED BY <1>1, <1>2, <2>1, QuietIInv DEF AddCheck, queueVars
<1>3. ASSUME NEW t \in Requesters, AddAppend(t) PROVE IInv'
    BY <1>1, <1>3, AddAppendIInv
<1>4. ASSUME NEW row \in loading, LoadSkip(row) \/ LoadCheck(row) PROVE IInv'
    BY <1>1, <1>4, LoadRowIInv
<1>5. CASE LoadAppend
    BY <1>1, <1>5, LoadAppendIInv
<1>6. CASE LoadDone \/ SchedTest \/ HaltStop
    BY <1>1, <1>6, QuietIInv DEF LoadDone, SchedTest, HaltStop, queueVars
<1>7. CASE SchedRun
    BY <1>1, <1>7, SchedRunIInv
<1>8. ASSUME NEW u \in threads, SearchEnds(u) PROVE IInv'
    BY <1>1, <1>8, QuietIInv DEF SearchEnds, ItemEnds, procVars
<1>9. ASSUME NEW uids, Remove(uids) PROVE IInv'
    BY <1>1, <1>9, RemoveIInv
<1>10. ASSUME NEW type, Clear(type) PROVE IInv'
    BY <1>1, <1>10, ClearIInv
<1>11. CASE PauseBacklog \/ UnpauseBacklog
    BY <1>1, <1>11, QuietIInv DEF PauseBacklog, UnpauseBacklog, SetMinPriority, procVars
<1>12. CASE SaveList
    BY <1>1, <1>12, SaveListIInv
<1>13. CASE SaveWrite
    BY <1>1, <1>13, SaveWriteIInv
<1>14. CASE Exit \/ Crash
    BY <1>1, <1>14, ProcessEndsIInv DEF Exit, Crash
<1>15. CASE Start
    BY <1>1, <1>15, StartIInv
<1>16. CASE UNCHANGED vars
    BY <1>1, <1>16, QuietIInv DEF vars, queueVars, procVars
<1> QED
    BY <1>2, <1>3, <1>4, <1>5, <1>6, <1>7, <1>8, <1>9, <1>10, <1>11, <1>12,
       <1>13, <1>14, <1>15, <1>16 DEF Next, SchedulerStep, Halting, AbortShow

-----------------------------------------------------------------------------
(***************************************************************************)
(* The theorems.                                                           *)
(***************************************************************************)
THEOREM Invariant == Spec => []IInv
BY InitIInv, NextIInv, PTL DEF Spec

\* Nothing but the windows named in `unsaved' makes a request that waits or
\* runs depend on the memory of one process.
THEOREM RequestsAreDurable == Spec => []Durable
<1>1. IInv => Durable
    BY DEF IInv
<1> QED BY <1>1, Invariant, PTL

\* Nothing but the windows named in `stale' leaves a row behind that makes the
\* next process repeat a search.
THEOREM SearchesAreNotRepeated == Spec => []NoSearchRepeated
<1>1. IInv => NoSearchRepeated
    BY DEF IInv
<1> QED BY <1>1, Invariant, PTL

\* Uids stay unambiguous across any number of crashes and restarts, although
\* each process starts its counter from what the table holds.
THEOREM UidsStayDistinct == Spec => []UidsNameOneSearch
<1>1. IInv => UidsNameOneSearch
    <2> SUFFICES ASSUME IInv PROVE UidsNameOneSearch
        OBVIOUS
    <2>1. \A u \in Uids(Live) \cup Uids(table) : u <= id_counter
        BY UidsMember DEF IInv, CounterInv
    <2> QED BY <2>1 DEF IInv, UidsInv, UidsNameOneSearch, RowOf
<1> QED BY <1>1, Invariant, PTL

\* Two searches never run at once.
THEOREM SearchesRunAlone == Spec => []OneSearchAtATime
<1>1. IInv => OneSearchAtATime
    BY DEF IInv
<1> QED BY <1>1, Invariant, PTL

-----------------------------------------------------------------------------
(***************************************************************************)
(* The refinement: each step of the queue is a step of PriorityQueue or    *)
(* leaves what waits and what runs alone.                                  *)
(***************************************************************************)
LEMMA RunningStays ==
    ASSUME UNCHANGED <<currentItem, threads>> PROVE Running' = Running
BY DEF Running, Current

\* An item gets a time later than any that waits.
LEMMA AppendPuts ==
    ASSUME TypeOK, NEW u, NEW w \in Work, NEW a \in NextAdded,
           queue' = queue \cup {[uid |-> u, work |-> w, added |-> a]},
           UNCHANGED <<currentItem, threads>>
    PROVE  \E i \in queue' : Promise!Put(i)
<1> DEFINE i == [uid |-> u, work |-> w, added |-> a]
<1>1. i \in queue' /\ i.work \in Work /\ \A j \in queue : j.added < i.added
    BY DEF NextAdded, Live
<1> QED
    BY <1>1, RunningStays DEF Promise!Put

\* job_run takes the head of the sorted queue when nothing runs.
LEMMA SchedRunTakes ==
    ASSUME IInv, SchedRun
    PROVE  (\E i \in queue : Promise!Take(i)) \/ UNCHANGED <<queue, Running>>
<1>1. CASE CurrentAlive /\ UNCHANGED queueVars
    BY <1>1, RunningStays DEF queueVars
<1>2. CASE ~CurrentAlive /\ StartHead
    <2>1. Running = {}
        BY <1>2 DEF Running, Current, CurrentAlive
    <2>2. PICK i \in Heads : /\ queue' = queue \ {i} /\ currentItem' = i
                             /\ threads' = threads \cup {i.uid}
        BY <1>2 DEF StartHead
    <2>3. i \in queue /\ i # NoItem
        BY <2>2, SearchQueueAssumption DEF Heads, IInv, TypeOK
    <2>4. Running' = {i}
        BY <2>2, <2>3 DEF Running, Current
    <2>5. \A j \in queue \ {i} : Promise!Before(i, j)
        BY <2>2 DEF Heads, Precedes, Promise!Before
    <2> QED
        BY <2>1, <2>2, <2>3, <2>4, <2>5 DEF Promise!Take
<1>3. CASE ~CurrentAlive /\ StartNone
    BY <1>3 DEF StartNone, Running, Current, CurrentAlive
<1> QED
    BY <1>1, <1>2, <1>3 DEF SchedRun, JobRun

LEMMA StepKeepsPromise == IInv /\ [Next]_vars => [Promise!Next]_(Promise!vars)
<1> SUFFICES ASSUME IInv, [Next]_vars
             PROVE  Promise!Next \/ UNCHANGED <<queue, Running>>
    BY DEF Promise!vars
<1>1. ASSUME NEW t \in Requesters, AddAppend(t) PROVE Promise!Next
    <2>1. adding[t].work \in Work
        BY <1>1 DEF AddAppend, IInv, TypeOK, Threads, Row
    <2>2. \E i \in queue' : Promise!Put(i)
        BY <1>1, <2>1, AppendPuts DEF AddAppend, AddNew, AddItem, IInv
    <2> QED BY <2>2 DEF Promise!Next
<1>2. CASE LoadAppend
    <2>1. adding[Loader].work \in Work
        BY <1>2 DEF LoadAppend, IInv, TypeOK, Threads, Row
    <2>2. \E i \in queue' : Promise!Put(i)
        BY <1>2, <2>1, AppendPuts DEF LoadAppend, AddLoaded, IInv
    <2> QED BY <2>2 DEF Promise!Next
<1>3. CASE SchedRun
    BY <1>3, SchedRunTakes DEF Promise!Next
<1>4. ASSUME NEW u \in threads, SearchEnds(u) PROVE Promise!Next
    <2>1. \A c \in Current : c.uid = u
        BY <1>4, UidsMember DEF IInv, OneSearchAtATime, Current
    <2>2. Running' = {}
        BY <1>4, <2>1 DEF SearchEnds, ItemEnds, Running, Current
    <2> QED BY <1>4, <2>2 DEF SearchEnds, ItemEnds, Promise!Next, Promise!Finish
<1>5. ASSUME NEW uids, Remove(uids) PROVE Promise!Next
    BY <1>5, RunningStays
       DEF Remove, RemoveFromQueue, Promise!Next, Promise!Withdraw
<1>6. ASSUME NEW type, Clear(type) PROVE Promise!Next
    BY <1>6, RunningStays DEF Clear, ClearQueue, Promise!Next, Promise!Withdraw
<1>7. CASE Exit \/ Crash
    BY <1>7 DEF Exit, Crash, ProcessEnds, Vanish, Running, Current,
                Promise!Next, Promise!Vanish
<1>8. ASSUME UNCHANGED <<queue, currentItem, threads>>
      PROVE  UNCHANGED <<queue, Running>>
    BY <1>8, RunningStays
<1>9. ASSUME NEW t \in Requesters, NEW w \in Work, AddCheck(t, w)
      PROVE  UNCHANGED <<queue, currentItem, threads>>
    BY <1>9 DEF AddCheck, queueVars
<1>10. ASSUME NEW row \in loading, LoadSkip(row) \/ LoadCheck(row)
       PROVE  UNCHANGED <<queue, currentItem, threads>>
    BY <1>10 DEF LoadSkip, LoadCheck, queueVars
<1>11. ASSUME LoadDone \/ SchedTest \/ HaltStop \/ SaveList \/ SaveWrite
       PROVE  UNCHANGED <<queue, currentItem, threads>>
    BY <1>11 DEF LoadDone, SchedTest, HaltStop, SaveList, SaveWrite, queueVars
<1>12. ASSUME PauseBacklog \/ UnpauseBacklog \/ Start \/ UNCHANGED vars
       PROVE  UNCHANGED <<queue, currentItem, threads>>
    BY <1>12 DEF PauseBacklog, UnpauseBacklog, SetMinPriority, Start, vars, queueVars
<1> QED
    BY <1>1, <1>2, <1>3, <1>4, <1>5, <1>6, <1>7, <1>8, <1>9, <1>10, <1>11, <1>12
       DEF Next, SchedulerStep, Halting, AbortShow

\* What the search queue promises its callers: one search at a time, the one of
\* the highest priority and of those the oldest first, none lost but to a
\* removal or with the process.
THEOREM ImplementsPromise == Spec => KeepsPromise
<1>1. Init => Promise!Init
    BY DEF Init, Empty, Promise!Init, Running, Current
<1> QED
    BY <1>1, StepKeepsPromise, Invariant, PTL DEF Spec, KeepsPromise, Promise!Spec

-----------------------------------------------------------------------------
(***************************************************************************)
(* One requester.  Of the windows in `unsaved', the one between the test   *)
(* and the append of add_item needs two requests at once, or one that      *)
(* comes while load_queue is at work.                                      *)
(***************************************************************************)
OneRequester(t) == Requesters = {t}
AsksWhenLoaded(t) == sched = "loading" => adding[t] = Idle

\* load_queue has ended, and the request between test and append is refused by
\* nothing that waits
LoadedInv == sched # "loading" => Held = {}
StillNew(t) == adding[t] # Idle => ~Refused(adding[t].work)

LEMMA LoadedNext ==
    ASSUME IInv, LoadedInv, [Next]_vars
    PROVE  LoadedInv'
<1> USE DEF LoadedInv, Held
<1>0. TypeOK /\ Loader \notin Requesters
    BY SearchQueueAssumption DEF IInv
<1>1. ASSUME NEW t \in Requesters, NEW w, AddCheck(t, w) \/ AddAppend(t) PROVE LoadedInv'
    <2>1. t # Loader /\ adding'[Loader] = adding[Loader]
        BY <1>0, <1>1 DEF AddCheck, AddAppend, TypeOK, Threads
    <2> QED BY <1>1, <2>1 DEF AddCheck, AddAppend
<1>2. ASSUME NEW row \in loading, LoadSkip(row) \/ LoadCheck(row) PROVE LoadedInv'
    BY <1>2 DEF LoadSkip, LoadCheck
<1>3. CASE LoadAppend \/ LoadDone
    BY <1>0, <1>3 DEF LoadAppend, LoadDone, TypeOK, Threads
<1>4. CASE SchedTest \/ SchedRun
    BY <1>4 DEF SchedTest, SchedRun
<1>5. ASSUME NEW u, SearchEnds(u) \/ Remove(u) \/ Clear(u) PROVE LoadedInv'
    BY <1>5 DEF SearchEnds, Remove, Clear, procVars
<1>6. CASE PauseBacklog \/ UnpauseBacklog \/ HaltStop \/ SaveList \/ SaveWrite
    BY <1>6 DEF PauseBacklog, UnpauseBacklog, HaltStop, SaveList, SaveWrite, procVars
<1>7. CASE Exit \/ Crash
    BY <1>7 DEF Exit, Crash, ProcessEnds, Threads
<1>8. CASE Start \/ UNCHANGED vars
    BY <1>8 DEF Start, vars, procVars
<1> QED
    BY <1>1, <1>2, <1>3, <1>4, <1>5, <1>6, <1>7, <1>8 DEF Next, SchedulerStep, Halting, AbortShow

\* Only searches that have to be saved have rows.
RowsPersisted == \A r \in table : r.work \in Persisted

LEMMA RowsPersistedNext ==
    ASSUME RowsPersisted, [Next]_vars
    PROVE  RowsPersisted'
<1>1. ASSUME table' \subseteq table PROVE RowsPersisted'
    BY <1>1 DEF RowsPersisted
<1>2. ASSUME NEW t \in Requesters, AddAppend(t) PROVE RowsPersisted'
    BY <1>2 DEF AddAppend, AddNew, AddItem, Insert, RowOf, RowsPersisted
<1>3. ASSUME NEW t \in Requesters, NEW w, AddCheck(t, w) PROVE RowsPersisted'
    BY <1>1, <1>3 DEF AddCheck, queueVars
<1>4. ASSUME NEW row \in loading, LoadSkip(row) \/ LoadCheck(row) PROVE RowsPersisted'
    BY <1>1, <1>4 DEF LoadSkip, LoadCheck, queueVars
<1>5. CASE LoadAppend \/ LoadDone \/ SchedTest
    BY <1>1, <1>5 DEF LoadAppend, AddLoaded, LoadDone, SchedTest, queueVars
<1>6. CASE SchedRun
    BY <1>1, <1>6 DEF SchedRun, JobRun, Reaped, queueVars
<1>7. ASSUME NEW u, SearchEnds(u) \/ Remove(u) \/ Clear(u) PROVE RowsPersisted'
    BY <1>1, <1>7 DEF SearchEnds, ItemEnds, Remove, RemoveFromQueue, Clear, ClearQueue
<1>8. CASE PauseBacklog \/ UnpauseBacklog \/ HaltStop \/ SaveList
    BY <1>1, <1>8 DEF PauseBacklog, UnpauseBacklog, SetMinPriority, HaltStop, SaveList, queueVars
<1>9. CASE SaveWrite
    BY <1>9 DEF SaveWrite, SavedRows, RowOf, RowsPersisted
<1>10. CASE Exit \/ Crash \/ Start \/ UNCHANGED vars
    BY <1>1, <1>10 DEF Exit, Crash, ProcessEnds, Start, vars, queueVars
<1> QED
    BY <1>2, <1>3, <1>4, <1>5, <1>6, <1>7, <1>8, <1>9, <1>10
       DEF Next, SchedulerStep, Halting, AbortShow

\* What is refused stays so only by what is put into the queue.
LEMMA StillNewStays ==
    ASSUME NEW t, StillNew(t), adding'[t] \in {adding[t], Idle}, queue' \subseteq queue
    PROVE  StillNew(t)'
BY DEF StillNew, Refused, InQueue

LEMMA StillNewNext ==
    ASSUME NEW t, OneRequester(t), IInv, LoadedInv, AsksWhenLoaded(t), StillNew(t), [Next]_vars
    PROVE  StillNew(t)'
<1>0. TypeOK /\ t # Loader /\ t \in Threads
    BY SearchQueueAssumption DEF IInv, OneRequester, Threads
<1>1. ASSUME NEW w \in Work, AddCheck(t, w) PROVE StillNew(t)'
    <2>1. adding'[t].work = w /\ queue' = queue
        BY <1>0, <1>1 DEF AddCheck, TypeOK, queueVars
    <2> QED BY <1>1, <2>1 DEF AddCheck, StillNew, Refused, InQueue
<1>2. CASE AddAppend(t)
    BY <1>0, <1>2 DEF AddAppend, StillNew, TypeOK
<1>3. ASSUME NEW row \in loading, LoadSkip(row) \/ LoadCheck(row) PROVE StillNew(t)'
    BY <1>0, <1>3, StillNewStays DEF LoadSkip, LoadCheck, queueVars, TypeOK
<1>4. CASE LoadAppend
    <2>1. sched = "loading"
        BY <1>4 DEF LoadAppend, LoadedInv, Held
    <2>2. adding'[t] = Idle
        BY <1>0, <1>4, <2>1 DEF LoadAppend, AsksWhenLoaded, TypeOK
    <2> QED BY <2>2 DEF StillNew
<1>5. CASE LoadDone \/ SchedTest \/ HaltStop \/ SaveList \/ SaveWrite \/ Start \/ UNCHANGED vars
    BY <1>5, StillNewStays
       DEF LoadDone, SchedTest, HaltStop, SaveList, SaveWrite, Start, vars, queueVars, procVars
<1>6. CASE SchedRun
    BY <1>6, StillNewStays DEF SchedRun, JobRun, StartHead, StartNone, queueVars
<1>7. ASSUME NEW u, SearchEnds(u) \/ Remove(u) \/ Clear(u) PROVE StillNew(t)'
    BY <1>7, StillNewStays
       DEF SearchEnds, ItemEnds, Remove, RemoveFromQueue, Clear, ClearQueue, procVars
<1>8. CASE PauseBacklog \/ UnpauseBacklog
    BY <1>8, StillNewStays DEF PauseBacklog, UnpauseBacklog, SetMinPriority, procVars
<1>9. CASE Exit \/ Crash
    BY <1>0, <1>9 DEF Exit, Crash, ProcessEnds, StillNew
<1> QED
    BY <1>1, <1>2, <1>3, <1>4, <1>5, <1>6, <1>7, <1>8, <1>9
       DEF Next, SchedulerStep, Halting, AbortShow, OneRequester

\* A search that the only requester asks for, once load_queue has ended, is saved
\* with its append, unless halt is between the two halves of save_queue or the
\* row with its columns is that of the search that runs, or one that outlived
\* its search.  So what is lost by a crash, beside that, is a search that ran
\* when it was asked for again.
THEOREM OneRequesterIsSaved ==
    ASSUME NEW t, OneRequester(t)
    PROVE  Spec /\ []AsksWhenLoaded(t) =>
             [][AddAppend(t) /\ unsaved' # unsaved =>
                  \/ phase = "saving"
                  \/ \E row \in table :
                        /\ row.work = adding[t].work
                        /\ row.uid \in stale \/ \E c \in Current : RowOf(c) = row]_vars
<1>1. Init => LoadedInv /\ StillNew(t) /\ RowsPersisted
    BY DEF Init, RowsPersisted, LoadedInv, Held, StillNew, OneRequester, Threads
<1>2. IInv /\ LoadedInv /\ StillNew(t) /\ RowsPersisted /\ AsksWhenLoaded(t) /\ [Next]_vars
        => LoadedInv' /\ StillNew(t)' /\ RowsPersisted'
    BY LoadedNext, StillNewNext, RowsPersistedNext
<1>3. IInv /\ LoadedInv /\ StillNew(t) /\ RowsPersisted /\ AsksWhenLoaded(t) /\ [Next]_vars =>
        [AddAppend(t) /\ unsaved' # unsaved =>
            \/ phase = "saving"
            \/ \E row \in table :
                  /\ row.work = adding[t].work
                  /\ row.uid \in stale \/ \E c \in Current : RowOf(c) = row]_vars
    <2> SUFFICES ASSUME IInv, LoadedInv, StillNew(t), RowsPersisted, AsksWhenLoaded(t),
                        AddAppend(t), unsaved' # unsaved, phase # "saving"
                 PROVE  \E row \in table :
                            /\ row.work = adding[t].work
                            /\ row.uid \in stale \/ \E c \in Current : RowOf(c) = row
        OBVIOUS
    <2>1. PICK row \in table : row.work = adding[t].work
        BY DEF AddAppend
    <2>2. sched # "loading" /\ adding[t] # Idle /\ Alive
        BY DEF AddAppend, AsksWhenLoaded
    <2>3. Held = {}
        BY <2>2 DEF LoadedInv
    <2>4. row.uid \in stale \/ \E i \in Live : RowOf(i) = row
        BY <2>2, <2>3 DEF IInv, NoSearchRepeated
    <2>5. ASSUME NEW i \in queue, RowOf(i) = row PROVE row.uid \in stale
        <3>1. i.work = row.work
            BY <2>5 DEF RowOf
        <3>2. adding[t].work \notin Persisted
            BY <2>1, <2>2, <3>1 DEF StillNew, Refused, InQueue, SameSearch
        <3> QED BY <2>1, <3>2 DEF RowsPersisted
    <2> QED BY <2>1, <2>4, <2>5 DEF Live
<1> QED
    BY <1>1, <1>2, <1>3, Invariant, PTL DEF Spec
=============================================================================
