------------------------ MODULE SwitchRecordsProofs ------------------------
(***************************************************************************)
(* What is on record about a switch, proved for every set of shows and     *)
(* ids, any number of requests, crashes and resumes: the row of a switch   *)
(* names the id its show has, a show whose source has moved ahead of its   *)
(* episodes has a row that says so, and failed.db follows sickbeard.db.    *)
(***************************************************************************)
EXTENDS SwitchSourceProofs

Live == waiting \cup (IF current = NoItem THEN {} ELSE {current})

\* the id that the row of a switch has for the old one
RowId(i) == IF i.resume THEN i.new ELSE i.old

\* Uids of rows and switches are behind the counter, and a switch has its own.
UidInv ==
    /\ up => \A r \in rows : r.uid <= id_counter
    /\ up => \A i \in Live : i.uid <= id_counter
    /\ \A i, j \in waiting : i.uid = j.uid => i = j
    /\ \A i \in waiting : current # NoItem => i.uid # current.uid

\* The start handles the row of an earlier release before anything else is
\* asked for; there is one such row, and the others of its uid are those of
\* resumes that were cut off.
TodoInv ==
    todo # {} => /\ waiting = {} /\ current = NoItem
                 /\ \E r \in rows : r.status = 0 /\ todo = {r}
OldRowInv ==
    /\ \A r, q \in rows : r.status = 0 /\ q.uid = r.uid => q = r \/ (q.old = r.new /\ q.new = r.new)
    /\ \A r, q \in rows : r.status = 0 /\ q.status = 0 => q = r
    /\ \A i \in Live : \A r \in rows : ~i.resume /\ r.uid = i.uid => r.status # 0

\* Which id a show has while it is switched, and that nobody takes the one its
\* row has.
ShowIdInv ==
    /\ \A i \in waiting : i.resume => showDict[i.show] = i.new
    /\ current # NoItem /\ pc \in {"update", "refresh"} =>
          showDict[current.show] \in {Gone, current.new}
    /\ current # NoItem /\ pc \in {"ids", "main"} => current.new # current.old
    /\ current # NoItem /\ pc \in {"verify", "ids", "main"} => ~current.resume
    /\ At("main") => showDict[current.show] \in {Gone, current.old}
    /\ Running => \/ main[current.show] = Gone
                  \/ \A t \in Show \ {current.show} : showDict[t] # RowId(current)

\* A switch that waits or runs has its row, but for one that was taken out or
\* cleared while it ran, or whose show was deleted.
IsRowOf(r, i) == /\ r.uid = i.uid /\ r.show = i.show /\ r.old = RowId(i)
                 /\ r.status = TVSWITCH_NORMAL
RowInv ==
    /\ \A i \in waiting : \E r \in rows : IsRowOf(r, i)
    /\ Running => \/ main[current.show] = Gone
                  \/ RowsOf(current.uid) = {} /\ current.show \in dropped
                  \/ \E r \in rows : IsRowOf(r, current) /\
                        (pc # "verify" /\ ~current.resume => r.new = current.new)

\* A show that has moved ahead of its episodes has a row that says where to,
\* from another id, which no switch but the one that moved it can touch.
Moved(i) == IF i \in waiting THEN i.resume ELSE pc \in {"main", "update"}
Witness(r, s) ==
    /\ r.show = s /\ r.status \in {0, TVSWITCH_NORMAL}
    /\ r.new = main[s] /\ r.old # main[s]
    /\ \A i \in Live : i.uid = r.uid => i.show = s /\ Moved(i)
HalfInv == \A s \in Show : \/ main[s] \in {Gone, episodes[s]}
                           \/ s \in dropped
                           \/ \E r \in rows : Witness(r, s)

\* failed.db has the old id between its commit and that of sickbeard.db.
FailedInv ==
    \A s \in Show :
        \/ main[s] = Gone \/ s \in split
        \/ IF At("main") /\ current.show = s THEN failed[s] = current.old ELSE failed[s] = main[s]

-----------------------------------------------------------------------------
LEMMA Typed ==
    ASSUME IInv
    PROVE  /\ current # NoItem => current \in Item /\ current.show \in Show /\ current.old \in Id
           /\ \A i \in waiting : i \in Item /\ i.show \in Show /\ i # NoItem
           /\ \A s \in Show : main[s] \in Id \cup {Gone} /\ showDict[s] \in Id \cup {Gone}
           /\ \A s \in Show : failed[s] \in Id /\ episodes[s] \in Id
           /\ \A r \in rows : r \in Row /\ r.uid \in Nat /\ r.show \in Show /\ r.old \in Id
           /\ Gone \notin Id
BY Constants DEF IInv, TypeOK, Item, Row

\* Which steps touch what: those of requests, of the queue and of run that only
\* change rows and switches, ...
LEMMA RowSteps ==
    ASSUME \/ \E s \in Show, new \in Id \cup {NoId}, force \in BOOLEAN : Request(s, new, force)
           \/ \E r \in todo : Resume(r)
           \/ \E u \in 1..MaxUid : RemoveFromQueue(u)
           \/ Clear
    PROVE  UNCHANGED <<main, failed, episodes, showDict, current, pc, up, split>>
BY DEF Request, Resume, RemoveFromQueue, Clear

\* ... and the steps of run
LEMMA RunSteps ==
    ASSUME VerifyFails \/ Update \/ UpdateFails \/ Finish \/ Raises
    PROVE  /\ UNCHANGED <<main, failed, showDict, waiting, current, todo, id_counter, up, split>>
           /\ up /\ current # NoItem /\ pc # "ended" /\ pc # "ids" /\ pc # "main"
           /\ pc' \in {"refresh", "ended"}
           /\ pc' = "refresh" => pc = "update"
BY DEF VerifyFails, Update, UpdateFails, Finish, Raises, At, dbVars, histVars

LEMMA FailedStep ==
    ASSUME IInv, ShowIdInv, FailedInv, [Next]_vars
    PROVE  FailedInv'
<1>1. ASSUME \/ \E s \in Show, new \in Id \cup {NoId}, force \in BOOLEAN : Request(s, new, force)
             \/ \E r \in todo : Resume(r)
             \/ \E u \in 1..MaxUid : RemoveFromQueue(u)
             \/ Clear
      PROVE  FailedInv'
    BY <1>1, RowSteps DEF FailedInv, At
<1>2. CASE VerifyFails \/ Update \/ UpdateFails \/ Finish \/ Raises
    BY <1>2, RunSteps DEF FailedInv, At
<1>3. ASSUME NEW s \in Show, DeleteShow(s) PROVE FailedInv'
    <2>1. \A t \in Show : main'[t] \in {main[t], Gone}
        BY <1>3, Typed DEF DeleteShow, IInv, TypeOK
    <2> QED BY <1>3, <2>1 DEF DeleteShow, FailedInv, At, histVars
<1>4. CASE SchedRun
    BY <1>4 DEF SchedRun, FailedInv, At, Running, histVars
<1>5. CASE TakeId
    BY <1>5, Typed DEF TakeId, FailedInv, At, histVars
<1>6. CASE MoveMain
    <2>1. \A t \in Show \ {current.show} : main'[t] = main[t]
        BY <1>6, Typed DEF MoveMain, IInv, TypeOK, At
    <2>2. main[current.show] \in {Gone, current.old}
        BY <1>6, Typed DEF MoveMain, IInv, IdsInv, PendingInv, At
    <2>3. main[current.show] = Gone => main'[current.show] = Gone
        BY <1>6, Typed DEF MoveMain, IInv, TypeOK, At
    <2> QED BY <1>6, <2>1, <2>2, <2>3 DEF MoveMain, FailedInv, At, histVars
<1>7. CASE MoveRest
    <2>1. main[current.show] \in {Gone, current.new} /\ current.show \in Show
        BY <1>7, Typed DEF MoveRest, IInv, IdsInv, At
    <2>2. /\ \A t \in Show \ {current.show} : failed'[t] = failed[t]
          /\ failed[current.show] = current.old => failed'[current.show] = current.new
        BY <1>7, <2>1, Typed DEF MoveRest, IInv, TypeOK
    <2> QED BY <1>7, <2>1, <2>2 DEF MoveRest, FailedInv, At, histVars
<1>8. CASE Crash
    BY <1>8 DEF Crash, FailedInv, At, dbVars
<1>9. CASE Start
    BY <1>9 DEF Start, FailedInv, At, dbVars, histVars, IInv, PendingInv
<1>10. CASE UNCHANGED vars
    BY <1>10 DEF FailedInv, At, vars, dbVars, procVars, histVars
<1> QED
    BY <1>1, <1>2, <1>3, <1>4, <1>5, <1>6, <1>7, <1>8, <1>9, <1>10 DEF Next, RunStep

(***************************************************************************)
(* Uids, and the rows of an earlier release.                               *)
(***************************************************************************)
\* What switch_show does to rows and switches.
LEMMA SwitchShowRows ==
    ASSUME NEW i, SwitchShow(i)
    PROVE  /\ waiting' = waiting \cup {i}
           /\ \E q : /\ rows' = {r \in rows : r.old # showDict[i.show]} \cup {q}
                     /\ q.uid = i.uid /\ q.show = i.show /\ q.old = showDict[i.show]
                     /\ q.new = i.new /\ q.status = TVSWITCH_NORMAL
<1> DEFINE q == [uid |-> i.uid, show |-> i.show, old |-> showDict[i.show], new |-> i.new,
                 force |-> i.force, status |-> TVSWITCH_NORMAL]
<1>1. /\ rows' = {r \in rows : r.old # showDict[i.show]} \cup {q}
      /\ waiting' = waiting \cup {i}
    BY DEF SwitchShow, SaveItem
<1>2. /\ q.uid = i.uid /\ q.show = i.show /\ q.old = showDict[i.show]
      /\ q.new = i.new /\ q.status = TVSWITCH_NORMAL
    OBVIOUS
<1> HIDE DEF q
<1> QED BY <1>1, <1>2

\* A request is a switch with a new uid; a resume one with that of its row,
\* or nothing.
LEMMA RequestFacts ==
    ASSUME NEW s \in Show, NEW new, NEW force, Request(s, new, force)
    PROVE  /\ up /\ todo = {} /\ ~SwitchPending(s) /\ showDict[s] # Gone
           /\ id_counter' = id_counter + 1
           /\ UNCHANGED <<main, failed, episodes, showDict, current, pc, todo, up, split>>
           /\ \E i : /\ SwitchShow(i)
                     /\ i.uid = id_counter + 1 /\ i.show = s /\ i.old = showDict[s]
                     /\ i.new = new /\ ~i.resume
BY DEF Request

LEMMA ResumeFacts ==
    ASSUME NEW r \in todo, Resume(r)
    PROVE  /\ up /\ todo' = todo \ {r}
           /\ UNCHANGED <<main, failed, episodes, showDict, current, pc, id_counter, up, split>>
           /\ \/ UNCHANGED <<rows, waiting, dropped>>
              \/ \E s \in Target(r) : \E i :
                    /\ ~SwitchPending(s) /\ SwitchShow(i)
                    /\ i.uid = r.uid /\ i.show = s /\ i.old = r.old /\ i.new = r.new
                    /\ i.resume = (Found(r.old) = {})
<1>1. CASE UNCHANGED <<rows, waiting, dropped>>
    BY <1>1 DEF Resume
<1>2. ASSUME NEW s \in Target(r), ~SwitchPending(s),
             SwitchShow([uid |-> r.uid, show |-> s, old |-> r.old, new |-> r.new,
                         force |-> r.force, resume |-> Found(r.old) = {}])
      PROVE  \E t \in Target(r) : \E i :
                    /\ ~SwitchPending(t) /\ SwitchShow(i)
                    /\ i.uid = r.uid /\ i.show = t /\ i.old = r.old /\ i.new = r.new
                    /\ i.resume = (Found(r.old) = {})
    <2> DEFINE i == [uid |-> r.uid, show |-> s, old |-> r.old, new |-> r.new,
                     force |-> r.force, resume |-> Found(r.old) = {}]
    <2>1. /\ i.uid = r.uid /\ i.show = s /\ i.old = r.old /\ i.new = r.new
          /\ i.resume = (Found(r.old) = {})
        OBVIOUS
    <2>2. SwitchShow(i)  BY <1>2
    <2> HIDE DEF i
    <2> QED BY <1>2, <2>1, <2>2
<1> QED BY <1>1, <1>2 DEF Resume

\* What the other steps leave of the rows.
LEMMA RowsLeft ==
    /\ \A u : SetSwitchTblStatus(u, 0) = {r \in rows : r.uid # u}
    /\ \A u, st, q : st # 0 /\ q \in SetSwitchTblStatus(u, st) =>
          \E r \in rows : q = [r EXCEPT !.status = IF r.uid = u THEN st ELSE @]
    /\ \A u, id, q : q \in SetId(u, id) =>
          \E r \in rows : q = [r EXCEPT !.new = IF r.uid = u THEN id ELSE @]
BY DEF SetSwitchTblStatus, Delete, RowsOf, SetId

\* but for switch_show, uids of rows are those of rows before
LEMMA UidsLeft ==
    ASSUME IInv, \/ \E u \in 1..MaxUid : RemoveFromQueue(u)
                 \/ Clear \/ \E s \in Show : DeleteShow(s)
                 \/ SchedRun \/ RunStep
    PROVE  /\ \A q \in rows' : \E r \in rows : q.uid = r.uid /\ q.show = r.show /\ q.old = r.old
           /\ waiting' \subseteq waiting
           /\ UNCHANGED <<id_counter, up>>
<1>1. CASE RunStep
    <2>1. \/ UNCHANGED rows
          \/ \E u, st : rows' = SetSwitchTblStatus(u, st)
          \/ \E u, id : rows' = SetId(u, id)
        BY <1>1 DEF RunStep, VerifyFails, TakeId, MoveMain, MoveRest, Update, UpdateFails,
                    Finish, Raises, dbVars
    <2>2. UNCHANGED <<waiting, id_counter, up>>
        BY <1>1 DEF RunStep, VerifyFails, TakeId, MoveMain, MoveRest, Update, UpdateFails,
                    Finish, Raises
    <2>3. \A r \in rows : r \in Row  BY DEF IInv, TypeOK
    <2>4. ASSUME NEW u, NEW st, rows' = SetSwitchTblStatus(u, st), NEW q \in rows'
          PROVE  \E r \in rows : q.uid = r.uid /\ q.show = r.show /\ q.old = r.old
        BY <2>3, <2>4, RowsLeft DEF Row
    <2>5. ASSUME NEW u, NEW id, rows' = SetId(u, id), NEW q \in rows'
          PROVE  \E r \in rows : q.uid = r.uid /\ q.show = r.show /\ q.old = r.old
        BY <2>3, <2>5, RowsLeft DEF Row
    <2> QED BY <2>1, <2>2, <2>4, <2>5
<1>2. ASSUME NEW u \in 1..MaxUid, RemoveFromQueue(u)
      PROVE  rows' \subseteq rows /\ waiting' \subseteq waiting /\ UNCHANGED <<id_counter, up>>
    BY <1>2 DEF RemoveFromQueue, Delete
<1>3. CASE Clear
    BY <1>3 DEF Clear
<1>4. ASSUME NEW s \in Show, DeleteShow(s)
      PROVE  rows' \subseteq rows /\ waiting' \subseteq waiting /\ UNCHANGED <<id_counter, up>>
    BY <1>4 DEF DeleteShow
<1>5. ASSUME SchedRun
      PROVE  rows' \subseteq rows /\ waiting' \subseteq waiting /\ UNCHANGED <<id_counter, up>>
    BY <1>5 DEF SchedRun
<1> QED BY <1>1, <1>2, <1>3, <1>4, <1>5

LEMMA UidStep ==
    ASSUME IInv, TodoInv, UidInv, [Next]_vars
    PROVE  UidInv'
<1>0. id_counter \in Nat /\ (\A i \in Live : i.uid \in Nat) /\ \A r \in rows : r.uid \in Nat
    BY Typed DEF IInv, TypeOK, Live, Item
<1>1. ASSUME NEW s \in Show, NEW new, NEW force, Request(s, new, force)
      PROVE  UidInv'
    <2>1. PICK i : /\ SwitchShow(i) /\ i.uid = id_counter + 1
                   /\ up /\ id_counter' = id_counter + 1 /\ UNCHANGED <<current, up>>
        BY <1>1, RequestFacts
    <2>2. waiting' = waiting \cup {i} /\ \A r \in rows' : r \in rows \/ r.uid = i.uid
        BY <2>1, SwitchShowRows
    <2>3. (\A r \in rows : r.uid <= id_counter) /\ \A j \in Live : j.uid <= id_counter
        BY <2>1 DEF UidInv
    <2>4. \A r \in rows' : r.uid <= id_counter + 1
        BY <1>0, <2>1, <2>2, <2>3
    <2>5. \A j \in Live' : j.uid <= id_counter + 1
        BY <1>0, <2>1, <2>2, <2>3 DEF Live
    <2>6. \A j \in Live : j.uid # i.uid
        BY <1>0, <2>1, <2>3
    <2> QED BY <2>1, <2>2, <2>4, <2>5, <2>6 DEF UidInv, Live
<1>2. ASSUME NEW r \in todo, Resume(r) PROVE UidInv'
    <2>1. waiting = {} /\ current = NoItem /\ r \in rows
        BY DEF TodoInv
    <2>2. CASE UNCHANGED <<rows, waiting, dropped>>
        BY <1>2, <2>2, ResumeFacts DEF UidInv, Live
    <2>3. ASSUME NEW i, SwitchShow(i), i.uid = r.uid PROVE UidInv'
        <3>1. waiting' = {i} /\ \A q \in rows' : q \in rows \/ q.uid = r.uid
            BY <2>1, <2>3, SwitchShowRows
        <3> QED BY <1>2, <2>1, <2>3, <3>1, ResumeFacts DEF UidInv, Live
    <2> QED BY <1>2, <2>2, <2>3, ResumeFacts
<1>3. ASSUME \/ \E u \in 1..MaxUid : RemoveFromQueue(u)
             \/ Clear \/ \E s \in Show : DeleteShow(s)
      PROVE  UidInv'
    <2>1. UNCHANGED current
        BY <1>3 DEF RemoveFromQueue, Clear, DeleteShow
    <2> QED BY <1>3, <2>1, UidsLeft DEF UidInv, Live
<1>4. CASE SchedRun
    <2>1. /\ current' = NoItem \/ (current' \in waiting /\ waiting' = waiting \ {current'})
          /\ current' = NoItem => waiting' = waiting
        BY <1>4, Typed DEF SchedRun
    <2> QED BY <1>4, <2>1, UidsLeft DEF UidInv, Live
<1>5. CASE RunStep
    <2>1. /\ waiting' = waiting /\ current # NoItem /\ current' # NoItem
          /\ current'.uid = current.uid
        BY <1>5, Typed, Constants DEF RunStep, VerifyFails, TakeId, MoveMain, MoveRest, Update,
                    UpdateFails, Finish, Raises, At, Item, Candidates
    <2> QED BY <1>5, <2>1, UidsLeft DEF UidInv, Live
<1>6. CASE Crash
    BY <1>6 DEF Crash, UidInv, Live
<1>7. CASE Start
    BY <1>7 DEF Start, UidInv, Live, IInv, PendingInv, dbVars
<1>8. CASE UNCHANGED vars
    BY <1>8 DEF vars, dbVars, procVars, UidInv, Live
<1> QED BY <1>1, <1>2, <1>3, <1>4, <1>5, <1>6, <1>7, <1>8 DEF Next

LEMMA TodoStep ==
    ASSUME IInv, TodoInv, OldRowInv, [Next]_vars
    PROVE  TodoInv'
<1>1. ASSUME \/ \E s \in Show, new \in Id \cup {NoId}, force \in BOOLEAN : Request(s, new, force)
             \/ \E u \in 1..MaxUid : RemoveFromQueue(u)
             \/ Clear \/ \E s \in Show : DeleteShow(s)
      PROVE  TodoInv'
    BY <1>1 DEF Request, RemoveFromQueue, Clear, DeleteShow, TodoInv
<1>2. CASE SchedRun
    BY <1>2 DEF SchedRun, TodoInv
<1>3. CASE RunStep
    BY <1>3 DEF RunStep, VerifyFails, TakeId, MoveMain, MoveRest, Update, UpdateFails, Finish,
                Raises, At, TodoInv
<1>4. CASE Crash
    BY <1>4 DEF Crash, TodoInv
<1>5. CASE Start
    <2>1. waiting' = {} /\ current' = NoItem /\ rows' = rows /\ todo' = {r \in rows : r.status = 0}
        BY <1>5 DEF Start, IInv, PendingInv, dbVars
    <2> QED BY <2>1 DEF TodoInv, OldRowInv
<1>6. ASSUME NEW r \in todo, Resume(r) PROVE TodoInv'
    BY <1>6, ResumeFacts DEF TodoInv
<1>7. CASE UNCHANGED vars
    BY <1>7 DEF vars, dbVars, procVars, TodoInv
<1> QED BY <1>1, <1>2, <1>3, <1>4, <1>5, <1>6, <1>7 DEF Next

\* Steps that take rows and switches away, or leave them.
LEMMA OldRowFewer ==
    ASSUME OldRowInv, rows' \subseteq rows, Live' \subseteq Live
    PROVE  OldRowInv'
BY DEF OldRowInv

\* What is live after a step.
LEMMA LiveLeft ==
    ASSUME IInv, \/ \E u \in 1..MaxUid : RemoveFromQueue(u)
                 \/ Clear \/ \E s \in Show : DeleteShow(s)
                 \/ SchedRun \/ Crash \/ Start \/ UNCHANGED vars
    PROVE  rows' \subseteq rows /\ Live' \subseteq Live
<1>1. CASE \/ \E u \in 1..MaxUid : RemoveFromQueue(u)
           \/ Clear \/ \E s \in Show : DeleteShow(s)
    BY <1>1 DEF RemoveFromQueue, Clear, DeleteShow, Delete, Live
<1>2. CASE SchedRun
    BY <1>2, Typed DEF SchedRun, Live
<1>3. CASE Crash \/ Start \/ UNCHANGED vars
    BY <1>3 DEF Crash, Start, vars, dbVars, procVars, Live
<1> QED BY <1>1, <1>2, <1>3

LEMMA OldRowStep ==
    ASSUME IInv, UidInv, TodoInv, OldRowInv, ShowIdInv, [Next]_vars
    PROVE  OldRowInv'
<1>0. id_counter \in Nat /\ (\A i \in Live : i.uid \in Nat) /\ \A r \in rows : r.uid \in Nat
    BY Typed DEF IInv, TypeOK, Live, Item
<1>1. ASSUME NEW s \in Show, NEW new, NEW force, Request(s, new, force)
      PROVE  OldRowInv'
    <2>1. PICK i : SwitchShow(i) /\ i.uid = id_counter + 1 /\ up /\ current' = current
        BY <1>1, RequestFacts
    <2>2. PICK q : /\ rows' = {r \in rows : r.old # showDict[i.show]} \cup {q}
                   /\ q.uid = i.uid /\ q.status = TVSWITCH_NORMAL
        BY <2>1, SwitchShowRows
    <2>3. Live' = Live \cup {i}
        BY <2>1, SwitchShowRows DEF Live
    <2>4. /\ q.status # 0
          /\ \A r \in rows : r.uid # q.uid
          /\ \A j \in Live : j.uid # q.uid
        BY <1>0, <2>1, <2>2 DEF UidInv, TVSWITCH_NORMAL
    <2> QED BY <2>1, <2>2, <2>3, <2>4 DEF OldRowInv
<1>2. ASSUME NEW r \in todo, Resume(r) PROVE OldRowInv'
    <2>1. waiting = {} /\ current = NoItem /\ r \in rows /\ r.status = 0 /\ Live = {}
        BY DEF TodoInv, Live
    <2>2. CASE UNCHANGED <<rows, waiting, dropped>>
        BY <1>2, <2>2, ResumeFacts DEF OldRowInv, Live
    <2>3. ASSUME NEW s \in Target(r), NEW i, SwitchShow(i), i.uid = r.uid, i.show = s,
                 i.new = r.new, i.resume = (Found(r.old) = {})
          PROVE  OldRowInv'
        <3>1. PICK q : /\ rows' = {x \in rows : x.old # showDict[s]} \cup {q}
                       /\ q.uid = r.uid /\ q.old = showDict[s] /\ q.new = r.new
                       /\ q.status = TVSWITCH_NORMAL
            BY <2>3, SwitchShowRows
        <3>2. Live' = {i} /\ q.status # 0
            BY <1>2, <2>1, <2>3, <3>1, SwitchShowRows, ResumeFacts DEF Live, TVSWITCH_NORMAL
        <3>3. \A x \in rows : x.status = 0 => x = r
            BY <2>1 DEF OldRowInv
        <3>4. CASE Found(r.old) = {}
            <4>1. showDict[s] = r.new
                BY <3>4, <2>3 DEF Target, Found
            <4>2. i.resume = TRUE
                BY <2>3, <3>4
            <4>3. q.old = r.new
                BY <3>1, <4>1
            <4>4. \A x \in rows' : x.status = 0 => x = r
                BY <3>1, <3>2, <3>3
            <4>5. \A x \in rows' : x.uid = r.uid => x = r \/ (x.old = r.new /\ x.new = r.new)
                BY <2>1, <3>1, <4>3 DEF OldRowInv
            <4> QED BY <3>2, <4>2, <4>4, <4>5 DEF OldRowInv
        <3>5. CASE Found(r.old) # {}
            <4>1. showDict[s] = r.old
                BY <3>5, <2>3 DEF Target, Found
            <4>2. \A x \in rows' : x.status # 0
                BY <3>1, <3>2, <3>3, <4>1
            <4> QED BY <4>2 DEF OldRowInv
        <3> QED BY <3>4, <3>5
    <2> QED BY <1>2, <2>2, <2>3, ResumeFacts
<1>3. CASE \/ \E u \in 1..MaxUid : RemoveFromQueue(u)
           \/ Clear \/ \E s \in Show : DeleteShow(s)
           \/ SchedRun \/ Crash \/ Start \/ UNCHANGED vars
    BY <1>3, LiveLeft, OldRowFewer
<1>4. CASE VerifyFails \/ Update \/ UpdateFails \/ Finish \/ Raises
    <2>1. Live' = Live
        BY <1>4, RunSteps DEF Live
    <2>2. \/ rows' \subseteq rows
          \/ \E st \in Nat \ {0} : rows' = SetSwitchTblStatus(current.uid, st)
        BY <1>4, RowsLeft DEF VerifyFails, Update, UpdateFails, Finish, Raises, dbVars, Status,
              TVSWITCH_DUPLICATE_SHOW, TVSWITCH_NORMAL, TVSWITCH_VERIFY_ERROR
    <2>3. ASSUME NEW st \in Nat \ {0}, rows' = SetSwitchTblStatus(current.uid, st)
          PROVE  OldRowInv'
        <3>1. \A q \in rows' : q \in rows \/ (q.uid = current.uid /\ q.status # 0)
            BY <2>3, Typed, RowsLeft DEF Row
        <3>2. \A q \in rows' : q.uid = current.uid => q.status # 0
            BY <2>3, Typed, RowsLeft DEF Row
        <3> QED BY <2>1, <3>1, <3>2 DEF OldRowInv
    <2> QED BY <2>1, <2>2, <2>3, OldRowFewer
<1>5. CASE TakeId
    <2>1. PICK id : /\ rows' = SetId(current.uid, id)
                    /\ current' = [current EXCEPT !.new = id]
                    /\ waiting' = waiting /\ current # NoItem /\ pc = "verify"
        BY <1>5 DEF TakeId, At
    <2>2. /\ \A i \in Live' : \E j \in Live : i.uid = j.uid /\ i.resume = j.resume
          /\ ~current.resume /\ current \in Live
        BY <2>1, Typed DEF Live, Item, ShowIdInv
    <2>3. \A q \in rows' : \/ q \in rows /\ q.uid # current.uid
                           \/ q.uid = current.uid /\ \E r \in rows : r.uid = q.uid /\ r.status = q.status
        BY <2>1, Typed, RowsLeft DEF Row
    <2>4. \A q \in rows' : q.uid = current.uid => q.status # 0
        BY <2>2, <2>3 DEF OldRowInv
    <2> QED BY <2>2, <2>3, <2>4 DEF OldRowInv
<1>6. CASE MoveMain \/ MoveRest
    BY <1>6, OldRowFewer DEF MoveMain, MoveRest, Live
<1> QED BY <1>1, <1>2, <1>3, <1>4, <1>5, <1>6 DEF Next, RunStep

(***************************************************************************)
(* Which id a show has while it is switched.                               *)
(***************************************************************************)
\* The id a running switch has on record is an id.
LEMMA RowIdType ==
    ASSUME IInv, ShowIdInv, Running
    PROVE  RowId(current) \in Id /\ RowId(current) # Gone
<1>1. pc \in {"verify", "ids", "main", "update", "refresh"}
    BY DEF IInv, TypeOK, Running
<1>2. current.resume => current.new \in Id
    BY <1>1 DEF IInv, PendingInv, ShowIdInv, Running
<1> QED BY <1>2, Typed DEF RowId, Running

\* While the show is not between its two databases, showDict has its id.
LEMMA IdKnown ==
    ASSUME IInv, up, NEW s \in Show, ~(At("main") /\ current.show = s)
    PROVE  main[s] \in {Gone, showDict[s]}
BY DEF IInv, IdsInv

LEMMA ShowIdStep ==
    ASSUME IInv, TodoInv, ShowIdInv, [Next]_vars
    PROVE  ShowIdInv'
<1>1. ASSUME NEW s \in Show, NEW new, NEW force, Request(s, new, force)
      PROVE  ShowIdInv'
    <2>1. PICK i : SwitchShow(i) /\ ~i.resume
        BY <1>1, RequestFacts
    <2>2. waiting' = waiting \cup {i} /\ UNCHANGED <<main, showDict, current, pc, up>>
        BY <1>1, <2>1, SwitchShowRows, RequestFacts
    <2> QED BY <2>1, <2>2 DEF ShowIdInv, At, Running, RowId
<1>2. ASSUME NEW r \in todo, Resume(r) PROVE ShowIdInv'
    <2>1. UNCHANGED <<main, showDict, current, pc, up>> /\ current = NoItem
        BY <1>2, ResumeFacts DEF TodoInv
    <2>2. CASE UNCHANGED <<rows, waiting, dropped>>
        BY <2>1, <2>2 DEF ShowIdInv, At, Running, RowId
    <2>3. ASSUME NEW s \in Target(r), NEW i, SwitchShow(i), i.show = s,
                 i.new = r.new, i.resume = (Found(r.old) = {})
          PROVE  ShowIdInv'
        <3>1. i.resume => showDict[i.show] = i.new
            BY <2>3 DEF Target, Found
        <3> QED BY <2>1, <2>3, <3>1, SwitchShowRows DEF ShowIdInv, At, Running
    <2> QED BY <1>2, <2>2, <2>3, ResumeFacts
<1>3. ASSUME (\E u \in 1..MaxUid : RemoveFromQueue(u)) \/ Clear
      PROVE  ShowIdInv'
    <2>1. waiting' \subseteq waiting /\ UNCHANGED <<main, showDict, current, pc, up>>
        BY <1>3 DEF RemoveFromQueue, Clear
    <2> QED BY <2>1 DEF ShowIdInv, At, Running, RowId
<1>4. ASSUME NEW s \in Show, DeleteShow(s) PROVE ShowIdInv'
    <2>1. \A t \in Show : main'[t] \in {main[t], Gone} /\ showDict'[t] \in {showDict[t], Gone}
        BY <1>4, Typed DEF DeleteShow, IInv, TypeOK
    <2>2. \A t \in Show \ {s} : showDict'[t] = showDict[t]
        BY <1>4, Typed DEF DeleteShow, IInv, TypeOK
    <2>3. /\ \A i \in waiting' : i \in waiting /\ i.show \in Show \ {s}
          /\ UNCHANGED <<current, pc, up>>
        BY <1>4, Typed DEF DeleteShow
    <2>4. Running => RowId(current) # Gone
        BY RowIdType
    <2> QED BY <2>1, <2>2, <2>3, <2>4, Typed DEF ShowIdInv, At, Running, RowId
<1>5. CASE SchedRun
    <2>1. CASE current' = NoItem
        <3>1. waiting' = waiting /\ showDict' = showDict
            BY <1>5, <2>1, Typed DEF SchedRun
        <3> QED BY <2>1, <3>1 DEF ShowIdInv, At, Running
    <2>2. ASSUME NEW i \in waiting, waiting' = waiting \ {i}, current' = i,
                 pc' = IF i.resume THEN "update" ELSE "verify"
          PROVE  ShowIdInv'
        <3>1. UNCHANGED <<main, showDict>>
            BY <1>5 DEF SchedRun
        <3>2. i.show \in Show /\ i.old \in Id /\ (i.resume => i.new \in Id)
            BY Typed DEF Item, IInv, PendingInv
        <3>3. showDict[i.show] = RowId(i) /\ RowId(i) \in Id
            BY <3>2 DEF IInv, PendingInv, ShowIdInv, RowId
        <3>4. \A t \in Show \ {i.show} : showDict[t] # RowId(i)
            BY <3>2, <3>3, Constants DEF IInv, OneShowPerId
        <3> QED BY <2>2, <3>1, <3>3, <3>4 DEF ShowIdInv, At, Running, RowId
    <2> QED BY <1>5, <2>1, <2>2 DEF SchedRun
<1>6. CASE VerifyFails \/ Update \/ UpdateFails \/ Finish \/ Raises
    BY <1>6, RunSteps DEF ShowIdInv, At, Running, RowId
<1>7. CASE TakeId
    <2>1. PICK id : /\ id # current.old /\ current' = [current EXCEPT !.new = id]
        BY <1>7 DEF TakeId
    <2>2. /\ current'.new = id /\ current'.old = current.old /\ current'.show = current.show
          /\ current'.resume = current.resume /\ ~current.resume /\ current # NoItem
        BY <1>7, <2>1, Typed DEF TakeId, At, Item, ShowIdInv
    <2>3. pc = "verify" /\ pc' = "ids" /\ UNCHANGED <<main, showDict, waiting>>
        BY <1>7 DEF TakeId, At
    <2> QED BY <2>1, <2>2, <2>3 DEF ShowIdInv, At, Running, RowId
<1>8. CASE MoveMain
    <2>1. \A t \in Show : main[t] = Gone => main'[t] = Gone
        BY <1>8, Typed DEF MoveMain, IInv, TypeOK, At
    <2>2. showDict[current.show] \in {Gone, current.old} /\ current.show \in Show
        BY <1>8, Typed DEF MoveMain, IInv, PendingInv, At
    <2> QED BY <1>8, <2>1, <2>2 DEF MoveMain, ShowIdInv, At, Running, RowId
<1>9. CASE MoveRest
    <2>1. /\ current.show \in Show /\ showDict'[current.show] = current.new
          /\ \A t \in Show \ {current.show} : showDict'[t] = showDict[t]
        BY <1>9, Typed DEF MoveRest, IInv, TypeOK, At
    <2>2. \A i \in waiting : i.show \in Show \ {current.show}
        BY <1>9, Typed DEF MoveRest, At, IInv, PendingInv
    <2> QED BY <1>9, <2>1, <2>2 DEF MoveRest, ShowIdInv, At, Running, RowId
<1>10. CASE Crash \/ Start
    BY <1>10 DEF Crash, Start, ShowIdInv, At, Running, IInv, PendingInv
<1>11. CASE UNCHANGED vars
    BY <1>11 DEF vars, dbVars, procVars, ShowIdInv, At, Running, RowId
<1> QED BY <1>1, <1>2, <1>3, <1>4, <1>5, <1>6, <1>7, <1>8, <1>9, <1>10, <1>11 DEF Next, RunStep

(***************************************************************************)
(* The row of a switch.                                                    *)
(***************************************************************************)
\* The switch of another show replaces no row of one that waits or runs.
LEMMA RowKept ==
    ASSUME IInv, ShowIdInv, NEW s \in Show, ~SwitchPending(s), showDict[s] # Gone
    PROVE  /\ \A i \in waiting : RowId(i) # showDict[s]
           /\ Running /\ main[current.show] # Gone => RowId(current) # showDict[s]
<1>1. ASSUME NEW i \in waiting PROVE RowId(i) # showDict[s]
    <2>1. i.show \in Show /\ i.show # s
        BY Typed DEF SwitchPending
    <2>2. RowId(i) = showDict[i.show]
        BY Typed DEF RowId, IInv, PendingInv, ShowIdInv, Item
    <2> QED BY <2>1, <2>2 DEF IInv, OneShowPerId
<1>2. Running /\ main[current.show] # Gone => RowId(current) # showDict[s]
    BY DEF SwitchPending, ShowIdInv, Running
<1> QED BY <1>1, <1>2

LEMMA RowStep ==
    ASSUME IInv, UidInv, TodoInv, ShowIdInv, RowInv, [Next]_vars
    PROVE  RowInv'
<1>0. id_counter \in Nat /\ (\A i \in Live : i.uid \in Nat) /\ \A r \in rows : r.uid \in Nat
    BY Typed DEF IInv, TypeOK, Live, Item
<1>1. ASSUME NEW s \in Show, NEW new, NEW force, Request(s, new, force)
      PROVE  RowInv'
    <2>1. PICK i : /\ SwitchShow(i)
                   /\ i.uid = id_counter + 1 /\ i.show = s /\ i.old = showDict[s]
                   /\ i.new = new /\ ~i.resume
        BY <1>1, RequestFacts
    <2>2. up /\ ~SwitchPending(s) /\ showDict[s] # Gone /\ UNCHANGED <<main, current, pc>>
        BY <1>1, RequestFacts
    <2>3. PICK q : /\ rows' = {r \in rows : r.old # showDict[s]} \cup {q}
                   /\ q.uid = i.uid /\ q.show = i.show /\ q.old = showDict[i.show]
                   /\ q.status = TVSWITCH_NORMAL
        BY <2>1, SwitchShowRows
    <2>4. waiting' = waiting \cup {i} /\ dropped \subseteq dropped'
        BY <2>1 DEF SwitchShow
    <2>5. IsRowOf(q, i)
        BY <2>1, <2>3 DEF IsRowOf, RowId
    <2>6. \A j \in waiting : \E r \in rows' : IsRowOf(r, j)
        BY <2>2, <2>3, RowKept DEF RowInv, IsRowOf
    <2>7. current # NoItem => current.uid # q.uid
        BY <1>0, <2>1, <2>2, <2>3 DEF UidInv, Live
    <2>8. Running => \/ main[current.show] = Gone
                     \/ RowsOf(current.uid)' = {} /\ current.show \in dropped'
                     \/ \E r \in rows' : IsRowOf(r, current) /\
                           (pc # "verify" /\ ~current.resume => r.new = current.new)
        BY <2>2, <2>3, <2>4, <2>7, RowKept DEF RowInv, IsRowOf, RowsOf, Running
    <2> QED BY <2>2, <2>3, <2>4, <2>5, <2>6, <2>8 DEF RowInv, Running, RowsOf
<1>2. ASSUME NEW r \in todo, Resume(r) PROVE RowInv'
    <2>1. waiting = {} /\ current' = NoItem
        BY <1>2, ResumeFacts DEF TodoInv
    <2>2. CASE UNCHANGED <<rows, waiting, dropped>>
        BY <2>1, <2>2 DEF RowInv, Running
    <2>3. ASSUME NEW s \in Target(r), NEW i, SwitchShow(i), i.uid = r.uid, i.show = s,
                 i.old = r.old, i.new = r.new, i.resume = (Found(r.old) = {})
          PROVE  RowInv'
        <3>1. RowId(i) = showDict[i.show]
            BY <2>3 DEF Target, Found, RowId
        <3>2. \E q \in rows' : IsRowOf(q, i)
            BY <2>3, <3>1, SwitchShowRows DEF IsRowOf
        <3> QED BY <2>1, <2>3, <3>2, SwitchShowRows DEF RowInv, Running
    <2> QED BY <1>2, <2>2, <2>3, ResumeFacts
<1>3. ASSUME NEW u \in 1..MaxUid, RemoveFromQueue(u) PROVE RowInv'
    <2>1. /\ waiting' = {i \in waiting : i.uid # u}
          /\ rows' = {r \in rows : r.uid # u}
          /\ dropped \subseteq dropped'
          /\ Running /\ current.uid = u => current.show \in dropped'
          /\ UNCHANGED <<main, current, pc>>
        BY <1>3 DEF RemoveFromQueue, Delete, RowsOf
    <2>2. \A i \in waiting' : \E r \in rows' : IsRowOf(r, i)
        BY <2>1 DEF RowInv, IsRowOf
    <2>3. CASE current.uid = u
        BY <2>1, <2>2, <2>3 DEF RowInv, RowsOf, Running
    <2>4. CASE current.uid # u
        BY <2>1, <2>2, <2>4 DEF RowInv, IsRowOf, RowsOf, Running
    <2> QED BY <2>3, <2>4
<1>4. CASE Clear
    <2>1. /\ waiting' = {} /\ rows' = {} /\ UNCHANGED <<main, current, pc>>
          /\ Running => current.show \in dropped'
        BY <1>4 DEF Clear
    <2> QED BY <2>1 DEF RowInv, RowsOf, Running
<1>5. ASSUME NEW s \in Show, DeleteShow(s) PROVE RowInv'
    <2>1. PICK out \in SUBSET waiting :
             /\ waiting' = waiting \ out
             /\ rows' = {r \in rows : \A i \in out : r.uid # i.uid}
        BY <1>5 DEF DeleteShow
    <2>2. /\ \A t \in Show : main[t] = Gone => main'[t] = Gone
          /\ UNCHANGED <<current, pc, dropped>>
        BY <1>5, Typed DEF DeleteShow, IInv, TypeOK, histVars
    <2>3. \A i \in waiting' : \E r \in rows' : IsRowOf(r, i)
        BY <2>1 DEF RowInv, IsRowOf, UidInv
    <2>4. current # NoItem => \A i \in out : current.uid # i.uid
        BY <2>1 DEF UidInv
    <2>5. current # NoItem => current.show \in Show
        BY Typed
    <2>6. Running => \/ main[current.show] = Gone
                     \/ RowsOf(current.uid)' = {} /\ current.show \in dropped'
                     \/ \E r \in rows' : IsRowOf(r, current) /\
                           (pc # "verify" /\ ~current.resume => r.new = current.new)
        BY <2>1, <2>2, <2>4 DEF RowInv, IsRowOf, RowsOf, Running
    <2> QED BY <2>2, <2>3, <2>5, <2>6 DEF RowInv, RowsOf, Running
<1>6. CASE SchedRun
    <2>1. CASE current' = NoItem
        <3>1. waiting' = {}
            BY <1>6, <2>1, Typed DEF SchedRun
        <3> QED BY <2>1, <3>1 DEF RowInv, Running
    <2>2. ASSUME NEW i \in waiting, waiting' = waiting \ {i}, current' = i,
                 pc' = IF i.resume THEN "update" ELSE "verify"
          PROVE  RowInv'
        <3>1. \A r \in rows : (current # NoItem => r.uid # current.uid) => r \in rows'
            BY <1>6 DEF SchedRun
        <3>2. \A j \in waiting : \E r \in rows' : IsRowOf(r, j)
            BY <3>1 DEF RowInv, IsRowOf, UidInv
        <3>3. pc' # "verify" => i.resume
            BY <2>2
        <3> QED BY <2>2, <3>2, <3>3 DEF RowInv
    <2> QED BY <1>6, <2>1, <2>2 DEF SchedRun
<1>7. CASE VerifyFails \/ Finish \/ Raises
    <2>1. /\ waiting' = waiting /\ pc' = "ended" /\ current # NoItem
          /\ \A r \in rows : r.uid # current.uid => r \in rows'
        <3>1. \A r \in rows : \A st : r.uid # current.uid => r \in SetSwitchTblStatus(current.uid, st)
            <4>1. ASSUME NEW r \in rows, NEW st, r.uid # current.uid
                  PROVE  r \in SetSwitchTblStatus(current.uid, st)
                <5>1. r = [r EXCEPT !.status = IF r.uid = current.uid THEN st ELSE @]
                    BY <4>1, Typed DEF Row
                <5> QED BY <4>1, <5>1 DEF SetSwitchTblStatus, Delete, RowsOf
            <4> QED BY <4>1
        <3> QED BY <1>7, <3>1 DEF VerifyFails, Finish, Raises, At, dbVars
    <2>2. \A i \in waiting : \E r \in rows' : IsRowOf(r, i)
        BY <2>1 DEF RowInv, IsRowOf, UidInv
    <2> QED BY <2>1, <2>2 DEF RowInv, Running
<1>8. CASE TakeId
    <2>1. PICK id : /\ rows' = SetId(current.uid, id)
                    /\ current' = [current EXCEPT !.new = id]
        BY <1>8 DEF TakeId
    <2>2. /\ current'.new = id /\ current'.uid = current.uid /\ current'.show = current.show
          /\ current'.old = current.old /\ current'.resume = current.resume
          /\ current # NoItem /\ up /\ pc = "verify" /\ pc' = "ids" /\ ~current.resume
          /\ UNCHANGED <<main, waiting, dropped>>
        BY <1>8, <2>1, Typed DEF TakeId, At, Item, ShowIdInv, histVars
    <2>3. RowId(current') = RowId(current)
        BY <2>2 DEF RowId
    <2>4. \A r \in rows : r.uid # current.uid => r \in rows'
        <3>1. ASSUME NEW r \in rows, r.uid # current.uid PROVE r \in SetId(current.uid, id)
            <4>1. r = [r EXCEPT !.new = IF r.uid = current.uid THEN id ELSE @]
                BY <3>1, Typed DEF Row
            <4> QED BY <4>1 DEF SetId
        <3> QED BY <2>1, <3>1
    <2>5. \A i \in waiting : \E r \in rows' : IsRowOf(r, i)
        BY <2>2, <2>4 DEF RowInv, IsRowOf, UidInv
    <2>6. RowsOf(current.uid) = {} => RowsOf(current.uid)' = {}
        BY <2>1, <2>2, Typed, RowsLeft DEF RowsOf, Row
    <2>7. ASSUME NEW r \in rows, IsRowOf(r, current)
          PROVE  \E q \in rows' : IsRowOf(q, current') /\ q.new = current'.new
        <3> DEFINE q == [r EXCEPT !.new = IF r.uid = current.uid THEN id ELSE @]
        <3>1. q \in rows'
            BY <2>1 DEF SetId
        <3>2. /\ q.uid = r.uid /\ q.show = r.show /\ q.old = r.old /\ q.status = r.status
              /\ q.new = id
            BY <2>7, Typed DEF Row, IsRowOf
        <3> HIDE DEF q
        <3> QED BY <2>2, <2>3, <2>7, <3>1, <3>2 DEF IsRowOf
    <2>8. Running
        BY <2>2 DEF Running
    <2> QED BY <2>2, <2>5, <2>6, <2>7, <2>8 DEF RowInv
<1>9. CASE MoveMain \/ MoveRest \/ Update \/ UpdateFails
    <2>1. /\ UNCHANGED <<rows, waiting, current>> /\ current # NoItem
          /\ pc \in {"ids", "main", "update"} /\ pc' # "ended" /\ pc' # "verify"
        BY <1>9 DEF MoveMain, MoveRest, Update, UpdateFails, At, dbVars
    <2>2. \A t \in Show : main[t] = Gone => main'[t] = Gone
        BY <1>9, Typed DEF MoveMain, MoveRest, Update, UpdateFails, At, dbVars, IInv, TypeOK
    <2>3. RowsOf(current.uid) = {} => dropped \subseteq dropped'
        BY <1>9 DEF MoveMain, MoveRest, Update, UpdateFails, histVars
    <2>4. current.show \in Show
        BY <2>1, Typed
    <2> QED BY <2>1, <2>2, <2>3, <2>4 DEF RowInv, RowsOf, Running
<1>10. CASE Crash
    BY <1>10 DEF Crash, RowInv, Running
<1>11. CASE Start
    BY <1>11 DEF Start, RowInv, Running, IInv, PendingInv
<1>12. CASE UNCHANGED vars
    BY <1>12 DEF vars, dbVars, procVars, histVars, RowInv, Running, RowsOf
<1> QED BY <1>1, <1>2, <1>3, <1>4, <1>5, <1>6, <1>7, <1>8, <1>9, <1>10, <1>11, <1>12
        DEF Next, RunStep

(***************************************************************************)
(* Shows that have moved ahead of their episodes.                          *)
(***************************************************************************)
\* The part of HalfInv about one show.
Half(s) == main[s] \in {Gone, episodes[s]} \/ s \in dropped \/ \E r \in rows : Witness(r, s)

\* A witness stays one while its row stays, the show stays where it is, and
\* what is live with its uid was live before and is still past the move.
LEMMA WitnessKept ==
    ASSUME NEW s, NEW r \in rows, Witness(r, s), r \in rows', main'[s] = main[s],
           \A i \in Live' : i.uid = r.uid => /\ i \in Live
                                             /\ i.show = s /\ Moved(i) => Moved(i)'
    PROVE  \E q \in rows' : Witness(q, s)'
BY DEF Witness

\* switch_show: a show whose witness it replaces is the one it is asked for, or
\* is on the list of what was dropped.
LEMMA HalfSwitchShow ==
    ASSUME IInv, NEW i, SwitchShow(i), up, ~SwitchPending(i.show),
           i.show \in Show, showDict[i.show] # Gone,
           NEW s \in Show, main[s] \notin {Gone, episodes[s]}, NEW r \in rows, Witness(r, s)
    PROVE  r \in rows' \/ s \in dropped'
<1>1. CASE r.old # showDict[i.show]
    BY <1>1, SwitchShowRows
<1>2. CASE r.old = showDict[i.show] /\ s # i.show
    <2>1. s \in Replaced(i)
        BY <1>2 DEF Witness, Replaced, HalfWay
    <2> QED BY <2>1 DEF SwitchShow
<1>3. CASE r.old = showDict[i.show] /\ s = i.show
    BY <1>3, IdKnown DEF Witness, SwitchPending, At
<1> QED BY <1>1, <1>2, <1>3

LEMMA HalfStep ==
    ASSUME IInv, UidInv, TodoInv, OldRowInv, ShowIdInv, RowInv, HalfInv, [Next]_vars,
           NEW s \in Show
    PROVE  Half(s)'
<1>0. /\ id_counter \in Nat /\ (\A i \in Live : i.uid \in Nat) /\ \A r \in rows : r.uid \in Nat
      /\ Half(s)
    BY Typed DEF IInv, TypeOK, Live, Item, HalfInv, Half
<1>1. ASSUME NEW t \in Show, NEW new, NEW force, Request(t, new, force)
      PROVE  Half(s)'
    <2>1. PICK i : SwitchShow(i) /\ i.uid = id_counter + 1 /\ i.show = t
        BY <1>1, RequestFacts
    <2>2. /\ up /\ ~SwitchPending(t) /\ showDict[t] # Gone
          /\ UNCHANGED <<main, episodes, current, pc>>
        BY <1>1, RequestFacts
    <2>3. waiting' = waiting \cup {i} /\ dropped \subseteq dropped'
        BY <2>1 DEF SwitchShow
    <2>4. ASSUME main[s] \notin {Gone, episodes[s]}, NEW r \in rows, Witness(r, s), r \in rows'
          PROVE  Half(s)'
        <3>1. r.uid # i.uid
            BY <1>0, <2>1, <2>2 DEF UidInv
        <3>2. \A j \in Live' : j.uid = r.uid => j \in Live
            BY <2>2, <2>3, <3>1 DEF Live
        <3>3. \A j \in Live : j.uid = r.uid => (Moved(j) => Moved(j)')
            BY <2>2, <2>3, <3>1 DEF Moved, Live
        <3>4. \E q \in rows' : Witness(q, s)'
            BY <2>2, <2>4, <3>2, <3>3, WitnessKept
        <3> QED BY <3>4 DEF Half
    <2> QED BY <1>0, <2>1, <2>2, <2>3, <2>4, HalfSwitchShow DEF Half
<1>2. ASSUME NEW r0 \in todo, Resume(r0) PROVE Half(s)'
    <2>1. /\ waiting = {} /\ current = NoItem /\ r0 \in rows /\ r0.status = 0 /\ Live = {}
          /\ up /\ UNCHANGED <<main, episodes, current, pc, showDict>>
        BY <1>2, ResumeFacts DEF TodoInv, Live
    <2>2. CASE UNCHANGED <<rows, waiting, dropped>>
        BY <1>0, <2>1, <2>2 DEF Half, Witness, Live
    <2>3. ASSUME NEW t \in Target(r0), NEW i, SwitchShow(i), i.uid = r0.uid, i.show = t,
                 i.new = r0.new, i.resume = (Found(r0.old) = {}), ~SwitchPending(t)
          PROVE  Half(s)'
        <3>1. /\ t \in Show /\ showDict[t] # Gone
              /\ Found(r0.old) # {} => showDict[t] = r0.old
              /\ Found(r0.old) = {} => showDict[t] = r0.new
            BY <2>1, TargetFacts, Typed, Constants DEF IInv, Target, Found
        <3>2. Live' = {i} /\ waiting' = {i} /\ dropped \subseteq dropped'
            BY <2>1, <2>3 DEF SwitchShow, Live
        <3>3. ASSUME main[s] \notin {Gone, episodes[s]}, NEW r \in rows, Witness(r, s), r \in rows'
              PROVE  Half(s)'
            <4>1. CASE r.uid # r0.uid
                <5>1. Witness(r, s)'
                    BY <2>1, <2>3, <3>2, <3>3, <4>1 DEF Witness
                <5> QED BY <3>3, <5>1 DEF Half
            <4>2. CASE r.uid = r0.uid /\ r.old # showDict[t]
                <5>1. r = r0
                    BY <2>1, <3>3, <4>2 DEF OldRowInv, Witness
                <5>2. Found(r0.old) = {} /\ showDict[t] = r0.new /\ main[s] = r0.new
                    BY <3>1, <3>3, <4>2, <5>1 DEF Witness
                <5>3. showDict[s] = main[s]
                    BY <2>1, <3>3, IdKnown DEF At
                <5>4. s = t
                    BY <3>1, <5>2, <5>3 DEF IInv, OneShowPerId
                <5>5. Moved(i)' /\ i.show = s
                    BY <2>3, <3>2, <5>2, <5>4 DEF Moved
                <5>6. Witness(r, s)'
                    BY <2>1, <3>2, <3>3, <5>5 DEF Witness
                <5> QED BY <3>3, <5>6 DEF Half
            <4>3. CASE r.uid = r0.uid /\ r.old = showDict[t]
                <5>1. CASE s # t
                    <6>1. s \in Replaced(i)
                        BY <2>3, <3>3, <4>3, <5>1 DEF Witness, Replaced, HalfWay
                    <6> QED BY <2>3, <6>1 DEF SwitchShow, Half
                <5>2. CASE s = t
                    BY <2>1, <3>3, <4>3, <5>2, IdKnown DEF Witness, At
                <5> QED BY <5>1, <5>2
            <4> QED BY <4>1, <4>2, <4>3
        <3> QED BY <1>0, <2>1, <2>3, <3>1, <3>2, <3>3, HalfSwitchShow DEF Half
    <2> QED BY <1>2, <2>2, <2>3, ResumeFacts
<1>3. ASSUME NEW u \in 1..MaxUid, RemoveFromQueue(u) PROVE Half(s)'
    <2>1. /\ waiting' = {i \in waiting : i.uid # u}
          /\ rows' = {r \in rows : r.uid # u}
          /\ dropped \subseteq dropped' /\ HalfWay(RowsOf(u)) \subseteq dropped'
          /\ UNCHANGED <<main, episodes, current, pc>>
        BY <1>3 DEF RemoveFromQueue, Delete, RowsOf
    <2>2. ASSUME main[s] \notin {Gone, episodes[s]}, NEW r \in rows, Witness(r, s)
          PROVE  Half(s)'
        <3>1. CASE r.uid = u
            <4>1. s \in HalfWay(RowsOf(u))
                BY <2>2, <3>1 DEF HalfWay, RowsOf, Witness
            <4> QED BY <2>1, <4>1 DEF Half
        <3>2. CASE r.uid # u
            <4>1. r \in rows'
                BY <2>1, <3>2
            <4>2. \A i \in Live' : i.uid = r.uid => i \in Live /\ (Moved(i) => Moved(i)')
                BY <2>1, <3>2 DEF Live, Moved
            <4> QED BY <2>1, <2>2, <4>1, <4>2, WitnessKept DEF Half
        <3> QED BY <3>1, <3>2
    <2> QED BY <1>0, <2>1, <2>2 DEF Half
<1>4. CASE Clear
    <2>1. dropped \subseteq dropped' /\ HalfWay(rows) \subseteq dropped' /\ UNCHANGED <<main, episodes>>
        BY <1>4 DEF Clear
    <2>2. ASSUME main[s] \notin {Gone, episodes[s]}, NEW r \in rows, Witness(r, s)
          PROVE  s \in HalfWay(rows)
        BY <2>2 DEF HalfWay, Witness
    <2> QED BY <1>0, <2>1, <2>2 DEF Half
<1>5. ASSUME NEW t \in Show, DeleteShow(t) PROVE Half(s)'
    <2>1. /\ waiting' = {i \in waiting : i.show # t}
          /\ \A r \in rows : r \notin rows' => \E i \in waiting : i.show = t /\ r.uid = i.uid
          /\ UNCHANGED <<episodes, current, pc, dropped>> /\ up
        BY <1>5 DEF DeleteShow, histVars
    <2>2. main'[s] \in {main[s], Gone}
        BY <1>5, Typed DEF DeleteShow, IInv, TypeOK
    <2>3. ASSUME main[s] \notin {Gone, episodes[s]}, main'[s] = main[s],
                 NEW r \in rows, Witness(r, s)
          PROVE  Half(s)'
        <3>1. r \in rows'
            <4>1. SUFFICES ASSUME NEW i \in waiting, i.show = t, r.uid = i.uid PROVE FALSE
                BY <2>1
            <4>2. s = t /\ i.resume
                BY <2>3, <4>1 DEF Witness, Moved, Live
            <4>3. ~(current # NoItem /\ current.show = s)
                BY <4>1, <4>2 DEF IInv, PendingInv
            <4>4. main[s] = showDict[s]
                BY <2>1, <2>3, <4>3, IdKnown DEF At
            <4>5. main'[s] = IF main[s] = showDict[s] THEN Gone ELSE main[s]
                BY <1>5, <4>2, <4>3, Typed DEF DeleteShow, ObjectId, Running, IInv, TypeOK
            <4> QED BY <2>3, <4>4, <4>5
        <3>2. \A i \in Live' : i.uid = r.uid => i \in Live /\ (Moved(i) => Moved(i)')
            BY <2>1 DEF Live, Moved, UidInv
        <3> QED BY <2>1, <2>3, <3>1, <3>2, WitnessKept DEF Half
    <2> QED BY <1>0, <2>1, <2>2, <2>3 DEF Half
<1>6. CASE SchedRun
    <2>1. /\ UNCHANGED <<main, episodes, dropped>> /\ ~Running
          /\ \A r \in rows : (current # NoItem => r.uid # current.uid) => r \in rows'
        BY <1>6 DEF SchedRun, histVars
    <2>2. \/ waiting = {} /\ waiting' = {} /\ current' = NoItem
          \/ \E i \in waiting : /\ waiting' = waiting \ {i} /\ current' = i
                                /\ pc' = IF i.resume THEN "update" ELSE "verify"
        BY <1>6 DEF SchedRun
    <2>3. ASSUME main[s] \notin {Gone, episodes[s]}, NEW r \in rows, Witness(r, s)
          PROVE  Half(s)'
        <3>1. current # NoItem => r.uid # current.uid
            BY <2>1, <2>3 DEF Witness, Moved, Live, Running, UidInv
        <3>2. \A i \in Live' : i.uid = r.uid => i \in Live /\ (Moved(i) => Moved(i)')
            <4>1. SUFFICES ASSUME NEW i \in Live', i.uid = r.uid
                           PROVE  i \in waiting /\ (i.resume => Moved(i)')
                BY DEF Live, Moved
            <4>2. i \in waiting
                BY <2>2, <4>1, Typed DEF Live
            <4>3. i.resume => Moved(i)'
                BY <2>2, <4>1, <4>2, Typed DEF Live, Moved
            <4> QED BY <4>2, <4>3
        <3> QED BY <2>1, <2>3, <3>1, <3>2, WitnessKept DEF Half
    <2> QED BY <1>0, <2>1, <2>3 DEF Half
<1>7. CASE VerifyFails \/ TakeId \/ Finish \/ Raises \/ UpdateFails \/ (Update /\ s # current.show)
    <2>1. /\ current # NoItem /\ current.show \in Show /\ pc \in {"verify", "update", "refresh"}
          /\ waiting' = waiting /\ main' = main /\ current'.uid = current.uid
          /\ current' # NoItem
        BY <1>7, Typed, Constants DEF VerifyFails, TakeId, Finish, Raises, UpdateFails, Update, At,
             dbVars, Candidates, Item
    <2>2. episodes'[s] = episodes[s] /\ (s # current.show => (s \in dropped => s \in dropped'))
        BY <1>7, <2>1, Typed DEF VerifyFails, TakeId, Finish, Raises, UpdateFails, Update, At,
             dbVars, histVars, IInv, TypeOK
    <2>3. s = current.show => (s \in dropped => s \in dropped')
        BY <1>7 DEF VerifyFails, TakeId, Finish, Raises, UpdateFails, Update, histVars
    <2>4. s = current.show /\ pc = "update" => s \in dropped'
        BY <1>7 DEF VerifyFails, TakeId, Finish, Raises, UpdateFails, At
    <2>5. \A r \in rows : r.uid # current.uid => r \in rows'
        <3>1. ASSUME NEW r \in rows, NEW st, r.uid # current.uid
              PROVE  r \in SetSwitchTblStatus(current.uid, st)
            <4>1. r = [r EXCEPT !.status = IF r.uid = current.uid THEN st ELSE @]
                BY <3>1, Typed DEF Row
            <4> QED BY <3>1, <4>1 DEF SetSwitchTblStatus, Delete, RowsOf
        <3>2. ASSUME NEW r \in rows, NEW id, r.uid # current.uid
              PROVE  r \in SetId(current.uid, id)
            <4>1. r = [r EXCEPT !.new = IF r.uid = current.uid THEN id ELSE @]
                BY <3>2, Typed DEF Row
            <4> QED BY <4>1 DEF SetId
        <3> QED BY <1>7, <3>1, <3>2 DEF VerifyFails, TakeId, Finish, Raises, UpdateFails, Update,
                  dbVars
    <2>6. ASSUME main[s] \notin {Gone, episodes[s]}, NEW r \in rows, Witness(r, s),
                 ~(s = current.show /\ pc = "update")
          PROVE  Half(s)'
        <3>1. r.uid # current.uid
            BY <2>1, <2>6 DEF Witness, Moved, Live, UidInv
        <3>2. \A i \in Live' : i.uid = r.uid => i \in Live /\ (Moved(i) => Moved(i)')
            BY <2>1, <3>1 DEF Live, Moved
        <3> QED BY <2>1, <2>5, <2>6, <3>1, <3>2, WitnessKept DEF Half
    <2> QED BY <1>0, <2>1, <2>2, <2>3, <2>4, <2>6 DEF Half
<1>8. CASE Update /\ s = current.show
    <2>1. current # NoItem /\ up /\ pc = "update" /\ episodes'[s] = current.new /\ main' = main
        BY <1>8, Typed DEF Update, At, IInv, TypeOK
    <2>2. main[s] \in {Gone, current.new}
        BY <1>8, <2>1, IdKnown DEF At, ShowIdInv
    <2> QED BY <2>1, <2>2 DEF Half
<1>9. CASE MoveMain
    <2>1. /\ current # NoItem /\ up /\ pc = "ids" /\ pc' = "main" /\ current.show \in Show
          /\ UNCHANGED <<episodes, rows, waiting, current, dropped>> /\ ~current.resume
        BY <1>9, Typed DEF MoveMain, At, histVars, ShowIdInv
    <2>2. CASE s # current.show
        <3>1. main'[s] = main[s]
            BY <1>9, <2>1, <2>2, Typed DEF MoveMain, IInv, TypeOK
        <3>2. ASSUME NEW r \in rows, Witness(r, s) PROVE Half(s)'
            <4>1. r.uid # current.uid
                BY <2>1, <2>2, <3>2 DEF Witness, Live
            <4>2. \A i \in Live' : i.uid = r.uid => i \in Live /\ (Moved(i) => Moved(i)')
                BY <2>1, <4>1 DEF Live, Moved
            <4> QED BY <2>1, <3>1, <3>2, <4>2, WitnessKept DEF Half
        <3> QED BY <1>0, <2>1, <3>1, <3>2 DEF Half
    <2>3. CASE s = current.show
        <3>1. main[s] \in {Gone, current.old}
            BY <1>9, <2>1, <2>3, IdKnown DEF IInv, PendingInv, At
        <3>2. main'[s] = IF main[s] = current.old THEN current.new ELSE main[s]
            BY <1>9, <2>3, Typed DEF MoveMain, IInv, TypeOK
        <3>3. ASSUME main[s] # Gone, NEW r \in rows, IsRowOf(r, current), r.new = current.new
              PROVE  Half(s)'
            <4>1. r.old = current.old /\ current.old # current.new /\ main'[s] = r.new
                BY <2>1, <2>3, <3>1, <3>2, <3>3 DEF IsRowOf, RowId, ShowIdInv
            <4>2. \A i \in Live' : i.uid = r.uid => i = current
                BY <2>1, <3>3 DEF Live, IsRowOf, UidInv
            <4>3. Moved(current)'
                BY <2>1 DEF Moved, UidInv
            <4>4. Witness(r, s)'
                BY <2>1, <2>3, <3>3, <4>1, <4>2, <4>3 DEF Witness, IsRowOf
            <4> QED BY <2>1, <3>3, <4>4 DEF Half
        <3>4. Running
            BY <2>1 DEF Running
        <3>5. CASE main[s] = Gone
            BY <3>2, <3>5, Typed, <2>1 DEF Half
        <3>6. CASE s \in dropped
            BY <2>1, <3>6 DEF Half
        <3> QED BY <2>1, <2>3, <3>3, <3>4, <3>5, <3>6 DEF RowInv
    <2> QED BY <2>2, <2>3
<1>10. CASE MoveRest
    <2>1. /\ pc = "main" /\ pc' = "update"
          /\ UNCHANGED <<main, episodes, rows, waiting, current, dropped>>
        BY <1>10 DEF MoveRest, At, histVars
    <2>2. ASSUME NEW r \in rows, Witness(r, s) PROVE Half(s)'
        <3>1. Live' = Live
            BY <2>1 DEF Live
        <3>2. \A i \in Live : Moved(i) => Moved(i)'
            BY <2>1 DEF Moved
        <3> QED BY <2>1, <2>2, <3>1, <3>2, WitnessKept DEF Half
    <2> QED BY <1>0, <2>1, <2>2 DEF Half
<1>11. CASE Crash
    BY <1>0, <1>11 DEF Crash, Half, Witness, Live, dbVars
<1>12. CASE Start
    BY <1>0, <1>12 DEF Start, Half, Witness, Live, dbVars, histVars, IInv, PendingInv
<1>13. CASE UNCHANGED vars
    BY <1>0, <1>13 DEF vars, dbVars, procVars, histVars, Half, Witness, Live, Moved
<1> QED BY <1>1, <1>2, <1>3, <1>4, <1>5, <1>6, <1>7, <1>8, <1>9, <1>10, <1>11, <1>12, <1>13
        DEF Next, RunStep

-----------------------------------------------------------------------------
\* All of it together is inductive.
RInv == /\ IInv /\ UidInv /\ TodoInv /\ OldRowInv /\ ShowIdInv /\ RowInv /\ HalfInv /\ FailedInv

LEMMA InitRInv == Init => RInv
<1> SUFFICES ASSUME Init PROVE RInv
    OBVIOUS
<1>1. IInv
    BY InitIInv
<1>2. UidInv /\ TodoInv /\ ShowIdInv /\ RowInv
    BY DEF Init, UidInv, TodoInv, ShowIdInv, RowInv, Live, At, Running
<1>3. ASSUME rows = {}, episodes = main, failed = main
      PROVE  OldRowInv /\ HalfInv /\ FailedInv
    <2>1. OldRowInv
        BY <1>3 DEF OldRowInv
    <2>2. HalfInv
        BY <1>3 DEF HalfInv
    <2>3. FailedInv
        BY <1>3 DEF Init, FailedInv, At
    <2> QED BY <2>1, <2>2, <2>3
<1>4. ASSUME NEW r \in Inherited, rows = {r}, r.old # r.new,
             episodes = [main EXCEPT ![r.show] = r.old],
             main[r.show] \in {r.old, r.new},
             failed = main \/ (failed = episodes /\ split = {r.show})
      PROVE  OldRowInv /\ HalfInv /\ FailedInv
    <2>1. r.show \in Show /\ r.status = 0 /\ Live = {} /\ main \in [Show -> Id]
        BY DEF Inherited, Init, Live
    <2>2. /\ episodes[r.show] = r.old
          /\ \A s \in Show \ {r.show} : episodes[s] = main[s]
        BY <1>4, <2>1
    <2>3. OldRowInv
        BY <1>4, <2>1 DEF OldRowInv
    <2>4. main[r.show] = r.old \/ Witness(r, r.show)
        BY <1>4, <2>1 DEF Witness
    <2>5. HalfInv
        BY <1>4, <2>1, <2>2, <2>4 DEF HalfInv
    <2>6. FailedInv
        BY <1>4, <2>1, <2>2 DEF FailedInv, At, Init
    <2> QED BY <2>3, <2>5, <2>6
<1>5. \/ rows = {} /\ episodes = main /\ failed = main
      \/ \E r \in Inherited :
            /\ rows = {r} /\ r.old # r.new
            /\ episodes = [main EXCEPT ![r.show] = r.old]
            /\ main[r.show] \in {r.old, r.new}
            /\ failed = main \/ (failed = episodes /\ split = {r.show})
    BY DEF Init
<1> QED BY <1>1, <1>2, <1>3, <1>4, <1>5 DEF RInv

LEMMA NextRInv == RInv /\ [Next]_vars => RInv'
<1> SUFFICES ASSUME RInv, [Next]_vars PROVE RInv'
    OBVIOUS
<1> USE DEF RInv
<1>1. IInv'
    BY NextIInv
<1>2. UidInv' /\ TodoInv' /\ OldRowInv' /\ ShowIdInv' /\ RowInv'
    BY UidStep, TodoStep, OldRowStep, ShowIdStep, RowStep
<1>3. HalfInv'
    BY HalfStep DEF HalfInv, Half
<1>4. FailedInv'
    BY FailedStep
<1> QED BY <1>1, <1>2, <1>3, <1>4

LEMMA RecordsInductive == Spec => []RInv
BY InitRInv, NextRInv, PTL DEF Spec

\* Until a switch is over, its row names the id the show has, the old or the
\* new one, whatever other switches, deletions, crashes and resumes there are:
\* a crash leaves a row the next start can go by.
THEOREM RowAlwaysNamesShow == Spec => []RowNamesShow
<1>1. ASSUME RInv PROVE RowNamesShow
    <2>1. ASSUME NEW i \in waiting
          PROVE  main[i.show] = Gone \/ \E r \in rows : r.uid = i.uid /\ main[i.show] \in {r.old, r.new}
        <3>1. PICK r \in rows : IsRowOf(r, i)
            BY <1>1 DEF RInv, RowInv
        <3>2. RowId(i) = showDict[i.show]
            BY <1>1 DEF RInv, IInv, PendingInv, ShowIdInv, RowId
        <3>3. main[i.show] \in {Gone, showDict[i.show]}
            BY <1>1, Typed DEF RInv, IInv, PendingInv, IdsInv, At
        <3> QED BY <3>1, <3>2, <3>3 DEF IsRowOf
    <2>2. ASSUME Running, main[current.show] # Gone, current.show \notin dropped
          PROVE  \E r \in rows : r.uid = current.uid /\ main[current.show] \in {r.old, r.new}
        <3>1. PICK r \in rows : /\ IsRowOf(r, current)
                                /\ pc # "verify" /\ ~current.resume => r.new = current.new
            BY <1>1, <2>2 DEF RInv, RowInv
        <3>2. /\ current # NoItem /\ up /\ current.show \in Show
              /\ pc \in {"verify", "ids", "main", "update", "refresh"}
            BY <1>1, <2>2, Typed DEF RInv, Running, IInv, PendingInv, TypeOK
        <3>3. CASE pc \in {"verify", "ids"}
            <4>1. main[current.show] = current.old /\ ~current.resume
                BY <1>1, <2>2, <3>2, <3>3, IdKnown DEF RInv, IInv, PendingInv, ShowIdInv, At
            <4> QED BY <3>1, <4>1 DEF IsRowOf, RowId
        <3>4. CASE pc \in {"main", "update", "refresh"}
            <4>1. main[current.show] = current.new
                BY <1>1, <2>2, <3>2, <3>4, IdKnown DEF RInv, IInv, IdsInv, ShowIdInv, At
            <4>2. r.new = current.new \/ r.old = current.new
                BY <3>1, <3>4 DEF IsRowOf, RowId
            <4> QED BY <3>1, <4>1, <4>2 DEF IsRowOf
        <3> QED BY <3>2, <3>3, <3>4
    <2> QED BY <2>1, <2>2 DEF RowNamesShow
<1> QED BY <1>1, RecordsInductive, PTL

\* A show that has not the episodes of its source has a switch on record, which
\* the next start will find, or is one of which a switch was dropped.
THEOREM EpisodesAlwaysFollowSource == Spec => []EpisodesFollowSource
<1>1. ASSUME RInv PROVE EpisodesFollowSource
    BY <1>1 DEF RInv, HalfInv, Witness, EpisodesFollowSource, OnRecord
<1> QED BY <1>1, RecordsInductive, PTL

\* The rows of a show in failed.db have the id of those in sickbeard.db but
\* between the two commits, or after a crash there.
THEOREM FailedAlwaysFollowsMain == Spec => []FailedFollowsMain
<1>1. ASSUME RInv PROVE FailedFollowsMain
    BY <1>1 DEF RInv, FailedInv, FailedFollowsMain
<1> QED BY <1>1, RecordsInductive, PTL

-----------------------------------------------------------------------------
(***************************************************************************)
(* The refinement: each step of the switch is a step of ShowSource or      *)
(* leaves ids, episodes and what is on record alone.                       *)
(***************************************************************************)
\* What is neither on record nor dropped has the episodes of its source.
LEMMA OthersSettled ==
    ASSUME RInv
    PROVE  \A s \in Show \ Unsettled : Promise!Settled(s)
BY DEF RInv, HalfInv, Witness, Unsettled, OnRecord, Loaded, Promise!Settled

\* The show that is switched is on record, or its switch was dropped.
LEMMA SwitchedOnRecord ==
    ASSUME RInv, Running, main[current.show] # Gone
    PROVE  current.show \in Unsettled
<1>1. current.show \in Show
    BY Typed DEF RInv, Running
<1>2. CASE current.show \in dropped
    BY <1>1, <1>2 DEF Unsettled
<1>3. ASSUME NEW r \in rows, IsRowOf(r, current) PROVE current.show \in Unsettled
    BY <1>1, <1>3 DEF IsRowOf, Unsettled, OnRecord
<1> QED BY <1>2, <1>3 DEF RInv, RowInv

\* A step that moves no show and loads no episodes can only take off the record
\* what is settled.
LEMMA RecordStep ==
    ASSUME RInv, RInv', UNCHANGED <<main, Loaded>>
    PROVE  Promise!Record
<1>1. Unsettled' \subseteq Show
    BY DEF Unsettled, RInv, IInv, TypeOK
<1>2. \A s \in Show \ Unsettled' : Loaded'[s] = main'[s]
    BY DEF RInv, HalfInv, Witness, Unsettled, OnRecord, Loaded
<1> QED BY <1>1, <1>2 DEF Promise!Record, Promise!Settled, Unsettled, RInv, IInv, TypeOK

LEMMA StepKeepsPromise == RInv /\ RInv' /\ [Next]_vars => [Promise!Next]_(Promise!vars)
<1> SUFFICES ASSUME RInv, RInv', [Next]_vars PROVE Promise!Next
    OBVIOUS
<1>1. ASSUME UNCHANGED <<main, episodes>> PROVE Promise!Next
    BY <1>1, RecordStep DEF Promise!Next, Loaded
<1>2. CASE MoveMain
    <2>1. current.show \in Show /\ pc = "ids" /\ current.new \in Id /\ current # NoItem /\ up
        BY <1>2, Typed DEF RInv, MoveMain, At, IInv, PendingInv
    <2>2. CASE main[current.show] # current.old
        <3>1. UNCHANGED <<main, episodes>>
            BY <1>2, <2>1, <2>2 DEF MoveMain, RInv, IInv, TypeOK
        <3> QED BY <1>1, <3>1
    <2>3. CASE main[current.show] = current.old
        <3>1. /\ main' = [main EXCEPT ![current.show] = current.new]
              /\ UNCHANGED <<episodes, rows, dropped>>
            BY <1>2, <2>3 DEF MoveMain, histVars
        <3>2. main[current.show] # Gone /\ current.new # Gone
            BY <2>1, <2>3, Typed DEF RInv
        <3>3. current.show \in Unsettled
            BY <2>1, <3>2, SwitchedOnRecord DEF Running
        <3>4. \A t \in Show \ {current.show} : main[t] # current.new
            <4>1. \A t \in Show \ {current.show} :
                     main'[t] = main[t] /\ main'[t] # main'[current.show]
                BY <2>1, <3>1, <3>2 DEF RInv, IInv, TypeOK, OneShowPerId
            <4> QED BY <2>1, <3>1, <4>1 DEF RInv, IInv, TypeOK
        <3>5. Loaded' = Loaded /\ Unsettled' = Unsettled
            <4>1. \A t \in Show : (main'[t] = Gone) <=> (main[t] = Gone)
                BY <2>1, <3>1, <3>2 DEF RInv, IInv, TypeOK
            <4> QED BY <3>1, <4>1 DEF Loaded, Unsettled, OnRecord
        <3> QED
            BY <2>1, <3>1, <3>3, <3>4, <3>5 DEF Promise!Next, Promise!Move
    <2> QED BY <2>2, <2>3
<1>3. CASE Update
    <2>1. /\ current.show \in Show /\ pc = "update" /\ current # NoItem /\ up
          /\ main[current.show] \in {Gone, current.new}
        BY <1>3, Typed, IdKnown DEF RInv, Update, At, ShowIdInv
    <2>2. CASE main[current.show] = Gone
        <3>1. UNCHANGED <<main, Loaded>>
            BY <1>3, <2>1, <2>2 DEF Update, Loaded, RInv, IInv, TypeOK
        <3> QED BY <3>1, RecordStep DEF Promise!Next
    <2>3. CASE main[current.show] = current.new /\ current.new # Gone
        <3>1. /\ episodes' = [episodes EXCEPT ![current.show] = current.new]
              /\ UNCHANGED <<main, rows>>
              /\ dropped' \in {dropped, dropped \ {current.show}}
            BY <1>3 DEF Update
        <3>2. current.show \in Unsettled
            BY <2>1, <2>3, SwitchedOnRecord DEF Running
        <3>3. Loaded' = [Loaded EXCEPT ![current.show] = main[current.show]]
            BY <2>1, <2>3, <3>1 DEF Loaded, RInv, IInv, TypeOK
        <3>4. Unsettled' \in {Unsettled, Unsettled \ {current.show}}
            BY <3>1 DEF Unsettled, OnRecord
        <3> QED
            BY <2>1, <3>1, <3>2, <3>3, <3>4 DEF Promise!Next, Promise!Load
    <2> QED BY <2>1, <2>2, <2>3
<1>4. ASSUME NEW s \in Show, DeleteShow(s) PROVE Promise!Next
    <2>1. /\ main' = [main EXCEPT ![s] = IF @ = ObjectId(s) THEN Gone ELSE @]
          /\ UNCHANGED <<episodes, dropped>> /\ rows' \subseteq rows
        BY <1>4 DEF DeleteShow, histVars
    <2>2. CASE main[s] # ObjectId(s)
        <3>1. UNCHANGED <<main, episodes>>
            BY <2>1, <2>2 DEF RInv, IInv, TypeOK
        <3> QED BY <1>1, <3>1
    <2>3. CASE main[s] = ObjectId(s)
        <3>1. main' = [main EXCEPT ![s] = Gone]
            BY <2>1, <2>3
        <3>2. Loaded' = [Loaded EXCEPT ![s] = Gone]
            BY <2>1, <3>1 DEF Loaded, RInv, IInv, TypeOK
        <3>3. Unsettled' \subseteq Unsettled
            BY <2>1 DEF Unsettled, OnRecord
        <3>4. \A t \in Show \ Unsettled' : Loaded'[t] = main'[t]
            BY DEF RInv, HalfInv, Witness, Unsettled, OnRecord, Loaded
        <3>5. \A t \in Unsettled \ Unsettled' : t = s \/ Promise!Settled(t)
            <4>1. Unsettled \subseteq Show
                BY DEF Unsettled, RInv, IInv, TypeOK
            <4>2. \A t \in Show \ {s} : main'[t] = main[t] /\ Loaded'[t] = Loaded[t]
                BY <3>1, <3>2 DEF RInv, IInv, TypeOK, Loaded
            <4> QED BY <3>4, <4>1, <4>2 DEF Promise!Settled
        <3> QED
            BY <3>1, <3>2, <3>3, <3>5 DEF Promise!Next, Promise!Remove
    <2> QED BY <2>2, <2>3
<1>5. ASSUME \/ \E s \in Show, new \in Id \cup {NoId}, force \in BOOLEAN : Request(s, new, force)
             \/ \E r \in todo : Resume(r)
             \/ \E u \in 1..MaxUid : RemoveFromQueue(u)
             \/ Clear
      PROVE  Promise!Next
    BY <1>1, <1>5, RowSteps
<1>6. CASE SchedRun \/ VerifyFails \/ TakeId \/ MoveRest \/ UpdateFails \/ Finish \/ Raises
    BY <1>1, <1>6 DEF SchedRun, VerifyFails, TakeId, MoveRest, UpdateFails, Finish, Raises, dbVars
<1>7. CASE Crash \/ Start \/ UNCHANGED vars
    BY <1>1, <1>7 DEF Crash, Start, vars, dbVars
<1> QED
    BY <1>2, <1>3, <1>4, <1>5, <1>6, <1>7 DEF Next, RunStep

\* The switch implements ShowSource: whatever requests, deletions, failures,
\* crashes and resumes there are, only a switch on record moves a show, to an id
\* nobody has; episodes are loaded for the show's own id alone; and a show that
\* has moved stays on record until its episodes have, or its switch was dropped.
THEOREM ImplementsPromise == Spec => KeepsPromise
<1>1. ASSUME Init PROVE Promise!Init
    <2>1. RInv
        BY <1>1, InitRInv
    <2>2. main \in [Show -> Id] /\ episodes \in [Show -> Id]
        BY <1>1, <2>1 DEF Init, RInv, IInv, TypeOK
    <2>3. Loaded \in [Show -> Id]
        BY <2>2, Constants DEF Loaded
    <2>4. Unsettled \subseteq Show
        BY <2>1 DEF Unsettled, RInv, IInv, TypeOK
    <2> QED
        BY <1>1, <2>1, <2>2, <2>3, <2>4, OthersSettled DEF Init, Promise!Init
<1>2. RInv /\ RInv' /\ [Next]_vars => [Promise!Next]_(Promise!vars)
    BY StepKeepsPromise
<1> QED
    BY <1>1, <1>2, RecordsInductive, PTL DEF Spec, KeepsPromise, Promise!Spec
=============================================================================
