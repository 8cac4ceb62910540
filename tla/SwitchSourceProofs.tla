------------------------- MODULE SwitchSourceProofs -------------------------
(***************************************************************************)
(* Proofs about SwitchSource for every set of shows and ids and every      *)
(* bound.                                                                  *)
(***************************************************************************)
EXTENDS SwitchSource, TLAPS

\* A show has one switch at a time.  One that waits has the show's id for its
\* old one, or, resumed, knows the new one; while one is verified its show may
\* only be deleted; from then on the new id is known.
PendingInv ==
    /\ \A i, j \in waiting : i.show = j.show => i = j
    /\ current # NoItem => \A i \in waiting : i.show # current.show
    /\ \A i \in waiting : IF i.resume THEN i.new \in Id ELSE showDict[i.show] = i.old
    /\ At("verify") \/ At("ids") => showDict[current.show] \in {Gone, current.old}
    /\ current # NoItem /\ pc \in {"ids", "main", "update", "refresh"} => current.new \in Id
    /\ ~up => waiting = {} /\ current = NoItem

\* showDict and the database differ for the show that is being moved and for
\* deleted ones, and the new id is nobody else's until showDict has it.
IdsInv ==
    /\ up => \A s \in Show : \/ main[s] \in {Gone, showDict[s]}
                             \/ At("main") /\ current.show = s
    /\ At("main") => main[current.show] \in {Gone, current.new}
    /\ At("ids") \/ At("main") =>
          \A t \in Show \ {current.show} : showDict[t] # current.new

IInv == TypeOK /\ OneShowPerId /\ PendingInv /\ IdsInv
-----------------------------------------------------------------------------
(***************************************************************************)
(* What the steps share.                                                   *)
(***************************************************************************)
LEMMA Constants ==
    Gone \notin Id /\ NoId \notin Id /\ NoId # Gone /\ NoItem \notin Item /\ MaxUid \in Nat
BY SwitchSourceAssumption

\* What a show's resume finds: a show that has the row's old id, or, when none
\* has, one that has the new id, which is then an id.
LEMMA TargetFacts ==
    ASSUME TypeOK, NEW r \in Row, NEW s \in Target(r)
    PROVE  /\ s \in Show /\ showDict[s] \in Id
           /\ Found(r.old) = {} => r.new \in Id
           /\ Found(r.old) # {} => showDict[s] = r.old
BY Constants DEF TypeOK, Target, Found, Row

\* switch_show leaves rows and switches that are well typed.
LEMMA SwitchShowType ==
    ASSUME TypeOK, NEW i \in Item, showDict[i.show] \in Id, SwitchShow(i)
    PROVE  rows' \subseteq Row /\ waiting' \subseteq Item /\ dropped' \subseteq Show
<1>1. rows' \subseteq Row
    BY DEF SwitchShow, SaveItem, TypeOK, Row, Item, Status
<1>2. Replaced(i) \subseteq Show
    BY DEF Replaced, HalfWay, TypeOK, Row
<1> QED
    BY <1>1, <1>2 DEF SwitchShow, TypeOK

\* The updates of the table keep it well typed.
LEMMA TableType ==
    ASSUME TypeOK, NEW u
    PROVE  /\ \A id \in Id : SetId(u, id) \subseteq Row
           /\ \A status \in Status : SetSwitchTblStatus(u, status) \subseteq Row
           /\ HalfWay(rows) \subseteq Show /\ HalfWay(RowsOf(u)) \subseteq Show
BY DEF TypeOK, SetId, SetSwitchTblStatus, Delete, RowsOf, HalfWay, Row

LEMMA InitIInv == Init => IInv
<1> SUFFICES ASSUME Init PROVE IInv
    OBVIOUS
<1>1. TypeOK
    <2>1. main \in [Show -> Id]
        BY DEF Init
    <2>2. rows \subseteq Row /\ episodes \in [Show -> Id] /\ failed \in [Show -> Id]
          /\ split \subseteq Show
        BY <2>1 DEF Init, Inherited, Row, Status, TVSWITCH_DUPLICATE_SHOW
    <2> QED
        BY <2>1, <2>2 DEF Init, TypeOK
<1>2. OneShowPerId
    BY DEF Init, OneShowPerId
<1>3. PendingInv /\ IdsInv
    BY DEF Init, PendingInv, IdsInv, At
<1> QED
    BY <1>1, <1>2, <1>3 DEF IInv
-----------------------------------------------------------------------------
(***************************************************************************)
(* One lemma per action: it preserves the invariant.                       *)
(***************************************************************************)
LEMMA RequestIInv ==
    ASSUME IInv, NEW s \in Show, NEW new \in Id \cup {NoId}, NEW force \in BOOLEAN,
           Request(s, new, force)
    PROVE  IInv'
<1> DEFINE item == [uid |-> id_counter + 1, show |-> s, old |-> showDict[s], new |-> new,
                    force |-> force, resume |-> FALSE]
<1>1. item \in Item /\ showDict[item.show] \in Id
    BY DEF Request, IInv, TypeOK, Item
<1>2. SwitchShow(item) /\ waiting' = waiting \cup {item}
    BY DEF Request, SwitchShow
<1>3. rows' \subseteq Row /\ waiting' \subseteq Item /\ dropped' \subseteq Show
    BY <1>1, <1>2, SwitchShowType DEF IInv
<1>4. TypeOK'
    BY <1>3 DEF Request, IInv, TypeOK
<1>5. OneShowPerId' /\ IdsInv'
    BY DEF Request, IInv, OneShowPerId, IdsInv, At
<1>6. PendingInv'
    <2>1. item.show = s /\ ~item.resume /\ showDict'[item.show] = item.old
        BY DEF Request
    <2>2. (\A i \in waiting : i.show # s) /\ (current # NoItem => current.show # s)
        BY DEF Request, SwitchPending
    <2>3. UNCHANGED <<showDict, current, pc, up>> /\ up
        BY DEF Request
    <2> HIDE DEF item
    <2> QED
        BY <1>2, <2>1, <2>2, <2>3 DEF IInv, PendingInv, At
<1> QED
    BY <1>4, <1>5, <1>6 DEF IInv

LEMMA ResumeIInv ==
    ASSUME IInv, NEW r \in todo, Resume(r)
    PROVE  IInv'
<1>1. r \in Row
    BY DEF IInv, TypeOK
<1>2. OneShowPerId' /\ IdsInv'
    BY DEF Resume, IInv, OneShowPerId, IdsInv, At
<1>3. CASE UNCHANGED <<rows, waiting, dropped>>
    <2>1. TypeOK'
        BY <1>3 DEF Resume, IInv, TypeOK
    <2>2. PendingInv'
        BY <1>3 DEF Resume, IInv, PendingInv, At
    <2> QED
        BY <1>2, <2>1, <2>2 DEF IInv
<1>4. ASSUME NEW s \in Target(r), ~SwitchPending(s),
             SwitchShow([uid |-> r.uid, show |-> s, old |-> r.old, new |-> r.new,
                         force |-> r.force, resume |-> Found(r.old) = {}])
      PROVE  IInv'
    <2> DEFINE item == [uid |-> r.uid, show |-> s, old |-> r.old, new |-> r.new,
                        force |-> r.force, resume |-> Found(r.old) = {}]
    <2>1. /\ s \in Show /\ showDict[s] \in Id
          /\ Found(r.old) = {} => r.new \in Id
          /\ Found(r.old) # {} => showDict[s] = r.old
        BY <1>1, TargetFacts DEF IInv
    <2>2. item \in Item /\ showDict[item.show] \in Id
        BY <1>1, <2>1 DEF Item, Row
    <2>3. SwitchShow(item) /\ waiting' = waiting \cup {item}
        BY <1>4 DEF SwitchShow
    <2>4. rows' \subseteq Row /\ waiting' \subseteq Item /\ dropped' \subseteq Show
        BY <2>2, <2>3, SwitchShowType DEF IInv
    <2>5. TypeOK'
        BY <2>4 DEF Resume, IInv, TypeOK
    <2>6. PendingInv'
        <3>1. IF item.resume THEN item.new \in Id ELSE showDict'[item.show] = item.old
            BY <2>1 DEF Resume
        <3>2. \A i \in waiting : i.show # s
            BY <1>4 DEF SwitchPending
        <3>3. current # NoItem => current.show # s
            BY <1>4 DEF SwitchPending
        <3> HIDE DEF item
        <3>4. item.show = s
            BY DEF item
        <3> QED
            BY <2>3, <3>1, <3>2, <3>3, <3>4 DEF Resume, IInv, PendingInv, At
    <2> QED
        BY <1>2, <2>5, <2>6 DEF IInv
<1> QED
    BY <1>3, <1>4 DEF Resume

LEMMA RemoveIInv ==
    ASSUME IInv, NEW u \in 1..MaxUid, RemoveFromQueue(u)
    PROVE  IInv'
<1>1. TypeOK'
    BY TableType DEF RemoveFromQueue, Delete, Running, IInv, TypeOK, Item
<1>2. OneShowPerId' /\ IdsInv' /\ PendingInv'
    BY DEF RemoveFromQueue, IInv, OneShowPerId, IdsInv, PendingInv, At
<1> QED
    BY <1>1, <1>2 DEF IInv

LEMMA ClearIInv ==
    ASSUME IInv, Clear
    PROVE  IInv'
<1>1. TypeOK'
    BY TableType DEF Clear, Running, IInv, TypeOK, Item
<1>2. OneShowPerId' /\ IdsInv' /\ PendingInv'
    BY DEF Clear, IInv, OneShowPerId, IdsInv, PendingInv, At
<1> QED
    BY <1>1, <1>2 DEF IInv

LEMMA DeleteIInv ==
    ASSUME IInv, NEW s \in Show, DeleteShow(s)
    PROVE  IInv'
<1> DEFINE id == ObjectId(s)
<1>1. /\ main' = [main EXCEPT ![s] = IF @ = id THEN Gone ELSE @]
      /\ showDict' = [showDict EXCEPT ![s] = IF @ = id THEN Gone ELSE @]
      /\ waiting' = waiting \ {i \in waiting : i.show = s}
      /\ rows' \subseteq rows
      /\ UNCHANGED <<failed, episodes, current, pc, todo, id_counter, up, histVars>>
    BY DEF DeleteShow
<1>2. /\ Running /\ current.show = s /\ pc \in {"ids", "main"} => id = current.new
      /\ ~(Running /\ current.show = s /\ pc \in {"ids", "main"}) => id = showDict[s]
      /\ up /\ showDict[s] # Gone
    BY DEF DeleteShow, ObjectId
<1> HIDE DEF id
<1>3. TypeOK'
    BY <1>1 DEF IInv, TypeOK, histVars
<1>4. OneShowPerId'
    BY <1>1 DEF IInv, TypeOK, OneShowPerId
<1>5. PendingInv'
    <2>1. \A i \in waiting' : i \in waiting /\ i.show # s /\ i \in Item
        BY <1>1 DEF IInv, TypeOK
    <2>2. \A t \in Show : showDict'[t] = showDict[t] \/ (t = s /\ showDict'[t] = Gone)
        BY <1>1 DEF IInv, TypeOK
    <2>3. \A i \in waiting' : showDict'[i.show] = showDict[i.show]
        BY <2>1, <2>2 DEF Item
    <2>4. current # NoItem => current.show \in Show
        BY DEF IInv, TypeOK, Item
    <2> QED
        BY <1>1, <2>1, <2>2, <2>3, <2>4 DEF IInv, PendingInv, At
<1>6. IdsInv'
    <2>1. \A t \in Show \ {s} : main'[t] = main[t] /\ showDict'[t] = showDict[t]
        BY <1>1 DEF IInv, TypeOK
    <2>2. /\ main'[s] = IF main[s] = id THEN Gone ELSE main[s]
          /\ showDict'[s] = IF showDict[s] = id THEN Gone ELSE showDict[s]
        BY <1>1 DEF IInv, TypeOK
    <2>3. current # NoItem => current.show \in Show
        BY DEF IInv, TypeOK, Item
    <2>4. At("ids") \/ At("main") => current.new \in Id /\ current.new # Gone
        BY Constants DEF IInv, PendingInv, At
    <2>5. \A t \in Show : main'[t] \in {Gone, showDict'[t]} \/ (At("main") /\ current.show = t)
        <3> TAKE t \in Show
        <3>1. CASE t # s
            BY <3>1, <1>2, <2>1 DEF IInv, IdsInv
        <3>2. CASE t = s /\ main[s] = Gone
            BY <3>2, <2>2
        <3>3. CASE t = s /\ main[s] = showDict[s]
            BY <3>3, <2>2
        <3> QED
            BY <3>1, <3>2, <3>3, <1>2 DEF IInv, IdsInv
    <2>6. At("main")' => main'[current.show] \in {Gone, current.new}
        BY <1>1, <2>1, <2>2, <2>3 DEF IInv, IdsInv, At
    <2>7. At("ids")' \/ At("main")' =>
             \A t \in Show \ {current.show} : showDict'[t] # current.new
        BY <1>1, <2>1, <2>2, <2>4 DEF IInv, IdsInv, At
    <2> QED
        BY <1>1, <2>5, <2>6, <2>7 DEF IdsInv, At
<1> QED
    BY <1>3, <1>4, <1>5, <1>6 DEF IInv

LEMMA SchedRunIInv ==
    ASSUME IInv, SchedRun
    PROVE  IInv'
<1>1. UNCHANGED <<main, failed, episodes, showDict, todo, id_counter, up, histVars>>
      /\ rows' \subseteq rows /\ up /\ ~Running
    BY DEF SchedRun
<1>2. OneShowPerId'
    BY <1>1 DEF IInv, OneShowPerId
<1>3. CASE waiting = {} /\ current' = NoItem /\ UNCHANGED <<waiting, pc>>
    <2>1. TypeOK'
        BY <1>1, <1>3 DEF IInv, TypeOK, histVars
    <2>2. PendingInv' /\ IdsInv'
        BY <1>1, <1>3 DEF IInv, PendingInv, IdsInv, At, Running
    <2> QED
        BY <1>2, <2>1, <2>2 DEF IInv
<1>4. ASSUME NEW i \in waiting, waiting' = waiting \ {i}, current' = i,
             pc' = IF i.resume THEN "update" ELSE "verify"
      PROVE  IInv'
    <2>1. i \in Item /\ i # NoItem
        BY Constants DEF IInv, TypeOK
    <2>2. TypeOK'
        BY <1>1, <1>4, <2>1 DEF IInv, TypeOK, histVars
    <2>3. IF i.resume THEN i.new \in Id ELSE showDict[i.show] = i.old
        BY DEF IInv, PendingInv
    <2>4. PendingInv'
        BY <1>1, <1>4, <2>1, <2>3 DEF IInv, PendingInv, At
    <2>5. IdsInv'
        BY <1>1, <1>4, <2>1 DEF IInv, IdsInv, At, Running
    <2> QED
        BY <1>2, <2>2, <2>4, <2>5 DEF IInv
<1> QED
    BY <1>3, <1>4 DEF SchedRun

LEMMA TakeIdIInv ==
    ASSUME IInv, TakeId
    PROVE  IInv'
<1>1. PICK id \in Candidates \ {current.old} :
          /\ ~InUse(id)
          /\ rows' = SetId(current.uid, id)
          /\ current' = [current EXCEPT !.new = id]
    BY DEF TakeId
<1>2. current \in Item /\ current # NoItem /\ up /\ pc = "verify"
    BY DEF TakeId, At, IInv, TypeOK
<1>3. id \in Id
    BY <1>2 DEF Candidates, Item
<1>4. /\ current' \in Item /\ current' # NoItem
      /\ current'.show = current.show /\ current'.old = current.old /\ current'.new = id
    BY <1>1, <1>2, <1>3, Constants DEF Item
<1>5. pc' = "ids"
      /\ UNCHANGED <<main, failed, episodes, showDict, waiting, todo, id_counter, up, histVars>>
    BY DEF TakeId
<1>6. TypeOK'
    BY <1>1, <1>3, <1>4, <1>5, TableType DEF IInv, TypeOK, histVars
<1>7. OneShowPerId' /\ PendingInv'
    BY <1>2, <1>3, <1>4, <1>5 DEF IInv, OneShowPerId, PendingInv, At
<1>8. IdsInv'
    BY <1>1, <1>2, <1>4, <1>5 DEF IInv, IdsInv, At, InUse
<1> QED
    BY <1>6, <1>7, <1>8 DEF IInv

LEMMA MoveMainIInv ==
    ASSUME IInv, MoveMain
    PROVE  IInv'
<1>1. current \in Item /\ current # NoItem /\ up /\ pc = "ids" /\ current.new \in Id
    BY DEF MoveMain, At, IInv, TypeOK, PendingInv
<1>2. /\ main' = [main EXCEPT ![current.show] = IF @ = current.old THEN current.new ELSE @]
      /\ pc' = "main"
      /\ UNCHANGED <<failed, episodes, rows, showDict, waiting, current, todo, id_counter,
                     up, histVars>>
    BY DEF MoveMain
<1>3. current.show \in Show
    BY <1>1 DEF Item
<1>4. main[current.show] \in {Gone, current.old}
    BY <1>1, <1>3 DEF IInv, IdsInv, PendingInv, At
<1>5. /\ \A t \in Show \ {current.show} : /\ main'[t] = main[t]
                                          /\ main[t] \in {Gone, showDict[t]}
                                          /\ showDict[t] # current.new
      /\ main'[current.show] \in {Gone, current.new}
    BY <1>1, <1>2, <1>3, <1>4 DEF IInv, TypeOK, IdsInv, At
<1>6. TypeOK'
    BY <1>1, <1>2 DEF IInv, TypeOK, histVars
<1>7. OneShowPerId'
    BY <1>2, <1>3, <1>5 DEF IInv, OneShowPerId
<1>8. PendingInv'
    BY <1>1, <1>2 DEF IInv, PendingInv, At
<1>9. IdsInv'
    BY <1>1, <1>2, <1>3, <1>5 DEF IdsInv, At
<1> QED
    BY <1>6, <1>7, <1>8, <1>9 DEF IInv

LEMMA MoveRestIInv ==
    ASSUME IInv, MoveRest
    PROVE  IInv'
<1>1. current \in Item /\ current # NoItem /\ up /\ pc = "main" /\ current.new \in Id
    BY DEF MoveRest, At, IInv, TypeOK, PendingInv
<1>2. /\ failed' = [failed EXCEPT ![current.show] = IF @ = current.old THEN current.new ELSE @]
      /\ showDict' = [showDict EXCEPT ![current.show] = current.new]
      /\ pc' = "update"
      /\ UNCHANGED <<main, episodes, rows, waiting, current, todo, id_counter, up, histVars>>
    BY DEF MoveRest
<1>3. current.show \in Show
    BY <1>1 DEF Item
<1>4. /\ \A t \in Show \ {current.show} : /\ showDict'[t] = showDict[t]
                                          /\ main[t] \in {Gone, showDict[t]}
                                          /\ showDict[t] # current.new
      /\ main[current.show] \in {Gone, current.new}
      /\ showDict'[current.show] = current.new
    BY <1>1, <1>2, <1>3 DEF IInv, TypeOK, IdsInv, At
<1>5. TypeOK'
    BY <1>1, <1>2 DEF IInv, TypeOK, histVars
<1>6. OneShowPerId'
    BY <1>2, <1>3, <1>4 DEF IInv, OneShowPerId
<1>7. PendingInv'
    <2>1. \A i \in waiting : showDict'[i.show] = showDict[i.show]
        BY <1>1, <1>4 DEF IInv, TypeOK, PendingInv, Item
    <2> QED
        BY <1>1, <1>2, <2>1 DEF IInv, PendingInv, At
<1>8. IdsInv'
    BY <1>2, <1>3, <1>4 DEF IdsInv, At
<1> QED
    BY <1>5, <1>6, <1>7, <1>8 DEF IInv

\* The other steps of run move neither ids nor switches.
LEMMA OtherRunIInv ==
    ASSUME IInv, VerifyFails \/ Update \/ UpdateFails \/ Finish \/ Raises
    PROVE  IInv'
<1>1. /\ current \in Item /\ current # NoItem /\ up
      /\ pc \in {"verify", "update", "refresh"} /\ pc' \in {"refresh", "ended"}
      /\ pc = "verify" => pc' = "ended"
    BY DEF VerifyFails, Update, UpdateFails, Finish, Raises, At, IInv, TypeOK
<1>2. UNCHANGED <<main, failed, showDict, waiting, current, todo, id_counter, up, split>>
    BY DEF VerifyFails, Update, UpdateFails, Finish, Raises, dbVars, histVars
<1>3. rows' \subseteq Row
    BY TableType DEF VerifyFails, Update, UpdateFails, Finish, Raises, dbVars, Status,
                     IInv, TypeOK
<1>4. episodes' \in [Show -> Id] /\ dropped' \subseteq Show
    <2>1. current.show \in Show
        BY <1>1 DEF Item
    <2>2. pc = "update" => current.new \in Id
        BY <1>1 DEF IInv, PendingInv
    <2> QED
        BY <2>1, <2>2 DEF VerifyFails, Update, UpdateFails, Finish, Raises, At, dbVars,
                          histVars, IInv, TypeOK
<1>5. TypeOK'
    BY <1>1, <1>2, <1>3, <1>4 DEF IInv, TypeOK
<1>6. OneShowPerId'
    BY <1>2 DEF IInv, OneShowPerId
<1>7. PendingInv'
    BY <1>1, <1>2 DEF IInv, PendingInv, At
<1>8. IdsInv'
    BY <1>1, <1>2 DEF IInv, IdsInv, At
<1> QED
    BY <1>5, <1>6, <1>7, <1>8 DEF IInv

LEMMA CrashIInv ==
    ASSUME IInv, Crash
    PROVE  IInv'
<1>1. split' \subseteq Show
    BY DEF Crash, IInv, TypeOK, At, Item
<1>2. TypeOK'
    BY <1>1 DEF Crash, IInv, TypeOK, dbVars
<1>3. OneShowPerId' /\ PendingInv' /\ IdsInv'
    BY DEF Crash, IInv, OneShowPerId, PendingInv, IdsInv, At, dbVars
<1> QED
    BY <1>2, <1>3 DEF IInv

LEMMA StartIInv ==
    ASSUME IInv, Start
    PROVE  IInv'
<1>1. id_counter' \in Nat /\ todo' \subseteq Row
    BY DEF Start, IInv, TypeOK, Row
<1>2. TypeOK'
    BY <1>1 DEF Start, IInv, TypeOK, dbVars, histVars
<1>3. waiting = {} /\ current = NoItem
    BY DEF Start, IInv, PendingInv
<1>4. OneShowPerId' /\ PendingInv' /\ IdsInv'
    BY <1>3 DEF Start, IInv, OneShowPerId, PendingInv, IdsInv, At, dbVars
<1> QED
    BY <1>2, <1>4 DEF IInv

LEMMA StutterIInv ==
    ASSUME IInv, UNCHANGED vars
    PROVE  IInv'
<1> USE DEF vars, dbVars, procVars, histVars
<1>1. TypeOK'
    BY DEF IInv, TypeOK
<1>2. OneShowPerId' /\ PendingInv' /\ IdsInv'
    BY DEF IInv, OneShowPerId, PendingInv, IdsInv, At
<1> QED
    BY <1>1, <1>2 DEF IInv
-----------------------------------------------------------------------------
LEMMA NextIInv == IInv /\ [Next]_vars => IInv'
<1> SUFFICES ASSUME IInv, [Next]_vars PROVE IInv'
    OBVIOUS
<1>1. ASSUME NEW s \in Show, NEW id \in Id, Request(s, id, TRUE) PROVE IInv'
    BY <1>1, RequestIInv
<1>2. ASSUME NEW s \in Show, Request(s, NoId, FALSE) PROVE IInv'
    BY <1>2, RequestIInv
<1>3. ASSUME NEW u \in 1..MaxUid, RemoveFromQueue(u) PROVE IInv'
    BY <1>3, RemoveIInv
<1>4. CASE Clear
    BY <1>4, ClearIInv
<1>5. ASSUME NEW s \in Show, DeleteShow(s) PROVE IInv'
    BY <1>5, DeleteIInv
<1>6. CASE SchedRun
    BY <1>6, SchedRunIInv
<1>7. CASE RunStep
    BY <1>7, TakeIdIInv, MoveMainIInv, MoveRestIInv, OtherRunIInv DEF RunStep
<1>8. CASE Crash \/ Start
    BY <1>8, CrashIInv, StartIInv
<1>9. ASSUME NEW r \in todo, Resume(r) PROVE IInv'
    BY <1>9, ResumeIInv
<1>10. CASE UNCHANGED vars
    BY <1>10, StutterIInv
<1> QED
    BY <1>1, <1>2, <1>3, <1>4, <1>5, <1>6, <1>7, <1>8, <1>9, <1>10 DEF Next

LEMMA Inductive == Spec => []IInv
BY InitIInv, NextIInv, PTL DEF Spec

\* Every state of the switch is well typed; that a show is only moved to an id
\* that was found, not to the "not given yet" of its row, is part of this.
THEOREM TypeCorrect == Spec => []TypeOK
<1>1. IInv => TypeOK
    BY DEF IInv
<1> QED
    BY <1>1, Inductive, PTL

\* No two shows come to have one id, in the database or in showDict, whatever
\* switches, deletions, crashes and resumes there are: run checks the new id
\* before the show moves, and no other switch moves a show meanwhile.
THEOREM IdsStayUnique == Spec => []OneShowPerId
<1>1. IInv => OneShowPerId
    BY DEF IInv
<1> QED
    BY <1>1, Inductive, PTL
=============================================================================
