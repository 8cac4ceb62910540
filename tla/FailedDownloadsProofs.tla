----------------------- MODULE FailedDownloadsProofs -----------------------
(***************************************************************************)
(* What failed.db tells of a snatch, proved for every set of episodes and  *)
(* offers, any number of snatches, requests and crashes.  The properties   *)
(* are about the newest row of an episode; rows come and go for whole      *)
(* releases and, in find_release, for single episodes, so that the         *)
(* invariant says what the rows of different episodes have in common.      *)
(***************************************************************************)
EXTENDS FailedDownloads, FiniteSetTheorems, TLAPS

\* the rows: dates grow, one snatch has one date, and a snatch has a row of
\* each of its episodes or that episode has later rows only
Companion(s, e) == \/ \E t \in history : t.ep = e /\ t.date = s.date
                   \/ \A t \in history : t.ep = e => t.date > s.date
RowsInv ==
    /\ \A r \in history : r.date <= now /\ r.ep \in EpsOf[r.offer]
    /\ job.pc = "record" => \A r \in history : r.date < now
    /\ \A r, s \in history : r.date = s.date => r.offer = s.offer
    /\ \A r, s \in history : r.date = s.date /\ r.ep = s.ep => r = s
    /\ \A s \in history : \A e \in EpsOf[s.offer] : Companion(s, e)

\* the running search
JobInv ==
    /\ job.pc \in {"record", "status"} => job.offer \in Offer
    /\ job.pc \in {"idle", "search", "over", "record", "status"} => job.todo = {}
    /\ job.pc \in {"find", "revert", "blame"} => job.ep \in job.todo
    /\ job.todo \subseteq job.segment

\* after find_release: one row at most of the episode, of the release found
FoundInv ==
    job.pc \in {"revert", "blame"} =>
        /\ \A r \in RowsOf(job.ep) : Release[r.offer] \in job.found
        /\ \A r, s \in RowsOf(job.ep) : r = s
        /\ \A a, b \in job.found : a = b

\* an episode between its two steps of snatch_episode
Half(e) == job.pc = "status" /\ e \in EpsOf[job.offer]

\* what the rows tell of an episode that is not lost
Tells(e) ==
    /\ e \notin lost => \A r \in Newest(e) : r.old = origin[e]
    /\ status[e] \in Settled => status[e] = origin[e]
    /\ status[e] \in Settled /\ e \notin lost /\ ~Half(e) =>
          \A r \in RowsOf(e) : r.old = origin[e]
    /\ (status[e] = "snatched" \/ Half(e)) /\ e \notin lost => Newest(e) # {}
TellsInv == \A e \in Ep : Tells(e)

\* after revert_episode
RevertedInv ==
    job.pc = "blame" =>
        \/ status[job.ep] \in Settled \cup {"failed"}
        \/ job.ep \in lost

\* a retry of the episode is to come, or the queue has lost it
Waits(e) == e \in abandoned \/ \E seg \in Segments(asking) \cup retries : e \in seg
Kept(e)  == Waits(e) \/ e \in job.todo

\* a reported offer waits for its retry with its snatch the newest, or was handled
ReportedInv ==
    \A o \in reported :
        \/ o \in failed \cup missed
        \/ /\ \A e \in EpsOf[o] : \E r \in Newest(e) : r.offer = o
           /\ \E e \in EpsOf[o] : Kept(e)

RetriedInv ==
    job.pc = "blame" /\ status[job.ep] = "failed" => job.ep \in lost \/ Waits(job.ep)

-----------------------------------------------------------------------------
(***************************************************************************)
(* Types.                                                                  *)
(***************************************************************************)
Releases == {Release[o] : o \in Offer}
Jobs == [pc : Steps, segment : SUBSET Ep, todo : SUBSET Ep, ep : Ep \cup {None},
         found : SUBSET Releases, offer : Offer \cup {None}, saved : BOOLEAN]

LEMMA NoJobTyped == NoJob \in Jobs
BY DEF NoJob, Jobs, Steps

\* the running search keeps its type, and so does what the searches share
LEMMA SendTyped ==
    ASSUME TypeOK, NEW o \in Offer, Send(o)  PROVE TypeOK'
<1>1. job \in Jobs /\ "record" \in Steps  BY DEF TypeOK, Jobs, Releases, Steps
<1>2. job' \in Jobs  BY <1>1 DEF Send, Jobs
<1>3. client' \subseteq [date : Nat, offer : Offer] /\ now' \in Nat  BY DEF TypeOK, Send
<1> QED BY <1>2, <1>3 DEF TypeOK, Send, queueVars, Jobs, Releases

LEMMA RecordTyped ==
    ASSUME TypeOK, JobInv, Record  PROVE TypeOK'
<1>1. job \in Jobs /\ "status" \in Steps /\ job.offer \in Offer
  BY DEF TypeOK, Jobs, Releases, Steps, JobInv, Record, RecordWith
<1>2. job' \in Jobs  BY <1>1 DEF Record, RecordWith, Jobs
<1>3. EpsOf[job.offer] \subseteq Ep  BY <1>1, FailedAssumption
<1>4. history' \subseteq Row
  BY <1>1, <1>3 DEF TypeOK, Record, RecordWith, Row
<1>5. lost' \subseteq Ep /\ missed' \subseteq Offer
  BY <1>3 DEF TypeOK, Record, RecordWith
<1> QED BY <1>2, <1>4, <1>5 DEF TypeOK, Record, RecordWith, queueVars, Jobs, Releases

LEMMA SetSnatchedTyped ==
    ASSUME TypeOK, SetSnatched  PROVE TypeOK'
<1>1. job \in Jobs /\ "search" \in Steps  BY DEF TypeOK, Jobs, Releases, Steps
<1>2. job' \in Jobs  BY <1>1, NoJobTyped DEF SetSnatched, AfterSnatch, Jobs
<1>3. status' \in [Ep -> Status]  BY DEF TypeOK, SetSnatched, Status, Settled
<1> QED BY <1>2, <1>3 DEF TypeOK, SetSnatched, queueVars, Jobs, Releases

LEMMA TakeRetryTyped ==
    ASSUME TypeOK, NEW seg \in retries, TakeRetry(seg)  PROVE TypeOK'
<1>1. seg \in SUBSET Ep /\ "mark" \in Steps  BY DEF TypeOK, Steps
<1> DEFINE Taken(b) == [NoJob EXCEPT !.pc = "mark", !.segment = seg, !.todo = seg,
                                     !.saved = b]
<1>a. \A b \in BOOLEAN : Taken(b) \in Jobs  BY <1>1, NoJobTyped DEF Jobs
<1>b. job' = Taken(seg \in saved) /\ (seg \in saved) \in BOOLEAN  BY DEF TakeRetry
<1> HIDE DEF Taken
<1>2. job' \in Jobs  BY <1>a, <1>b
<1>3. retries' \subseteq SUBSET Ep /\ saved' \subseteq retries'  BY DEF TypeOK, TakeRetry
<1> QED BY <1>2, <1>3 DEF TypeOK, TakeRetry, Jobs, Releases

LEMMA MarkFailedTyped ==
    ASSUME TypeOK, NEW e \in Ep, MarkFailed(e)  PROVE TypeOK'
<1>1. job \in Jobs /\ "find" \in Steps  BY DEF TypeOK, Jobs, Releases, Steps
<1>2. job' \in Jobs  BY <1>1 DEF MarkFailed, Jobs
<1>3. status' \in [Ep -> Status]  BY DEF TypeOK, MarkFailed, Status
<1> QED BY <1>2, <1>3 DEF TypeOK, MarkFailed, Jobs, Releases

LEMMA FindReleaseTyped ==
    ASSUME TypeOK, FindRelease  PROVE TypeOK'
<1>1. job \in Jobs /\ "revert" \in Steps  BY DEF TypeOK, Jobs, Releases, Steps
<1>2. \A r \in history : Release[r.offer] \in Releases  BY DEF TypeOK, Row, Releases
<1> DEFINE Found(what) == [job EXCEPT !.pc = "revert", !.found = what]
<1>a. \A what \in SUBSET Releases : Found(what) \in Jobs  BY <1>1 DEF Jobs
<1>b. \E what \in SUBSET Releases : job' = Found(what)
  <2>1. CASE job' = Found({})  BY <2>1
  <2>2. ASSUME NEW r \in Newest(job.ep), job' = Found({Release[r.offer]})
        PROVE  \E what \in SUBSET Releases : job' = Found(what)
    <3>1. {Release[r.offer]} \in SUBSET Releases  BY <1>2 DEF Newest, RowsOf
    <3> QED BY <2>2, <3>1
  <2> QED BY <2>1, <2>2 DEF FindRelease, FindClearing
<1>3. job' \in Jobs  BY <1>a, <1>b
<1>4. history' \subseteq Row  BY DEF TypeOK, FindRelease, FindClearing
<1> QED BY <1>3, <1>4 DEF TypeOK, FindRelease, FindClearing, queueVars, Jobs, Releases

LEMMA RevertTyped ==
    ASSUME TypeOK, JobInv, Revert  PROVE TypeOK'
<1>1. job \in Jobs /\ "blame" \in Steps  BY DEF TypeOK, Jobs, Releases, Steps
<1>2. job' \in Jobs  BY <1>1 DEF Revert, RevertFrom, Jobs
<1>3. job.ep \in Ep  BY <1>1 DEF JobInv, Jobs, Revert, RevertFrom
<1>4. \A r \in RowsOf(job.ep) : r.old \in Status  BY DEF TypeOK, Row, RowsOf
<1>5. status' \in [Ep -> Status]
  BY <1>4 DEF TypeOK, Revert, RevertFrom, Status, Settled
<1>6. origin' \in [Ep -> Settled] /\ lost' \subseteq Ep
  BY <1>3 DEF TypeOK, Revert, RevertFrom
<1> QED BY <1>2, <1>5, <1>6 DEF TypeOK, Revert, RevertFrom, queueVars, Jobs, Releases

LEMMA BlameTyped ==
    ASSUME TypeOK, Blame  PROVE TypeOK'
<1>1. job \in Jobs /\ {"search", "mark"} \subseteq Steps
  BY DEF TypeOK, Jobs, Releases, Steps
<1>2. job' \in Jobs  BY <1>1 DEF Blame, Jobs
<1> DEFINE rows == UNION {RowsNamed(rel) : rel \in job.found}
<1>3. rows \subseteq history  BY DEF RowsNamed
<1>4. Blocked(rows) \subseteq Offer /\ Removed(rows) \subseteq history
  BY <1>3 DEF TypeOK, Row, Blocked, Offers, Removed
<1>5. /\ failed' = failed \cup Blocked(rows) /\ history' = history \ Removed(rows)
      /\ lost' = lost \cup {r.ep : r \in {s \in Removed(rows) : s.ep # job.ep}}
  BY DEF Blame
<1> HIDE DEF rows
<1>6. failed' \subseteq Offer /\ history' \subseteq Row /\ lost' \subseteq Ep
  BY <1>4, <1>5 DEF TypeOK, Row
<1> QED BY <1>2, <1>6 DEF TypeOK, Blame, queueVars, Jobs, Releases

LEMMA EndRetryTyped ==
    ASSUME TypeOK, EndRetry  PROVE TypeOK'
<1>1. job' \in Jobs  BY NoJobTyped DEF EndRetry
<1> QED BY <1>1 DEF TypeOK, EndRetry, queueVars, Jobs, Releases

\* the client, post-processing, users, a crash
LEMMA FailsTyped ==
    ASSUME TypeOK, NEW d \in client, Fails(d)  PROVE TypeOK'
<1>1. d.offer \in Offer /\ d.date \in Nat /\ EpsOf[d.offer] \subseteq Ep
  BY FailedAssumption DEF TypeOK
<1>2. asking' \subseteq Ask  BY <1>1 DEF TypeOK, Fails, Ask
<1>3. missed' \subseteq Offer /\ reported' \subseteq Offer  BY <1>1 DEF TypeOK, Fails
<1> QED BY <1>1, <1>2, <1>3 DEF TypeOK, Fails, Ends

LEMMA AppendedTyped ==
    ASSUME TypeOK, NEW seg \in SUBSET Ep, Appended(seg)
    PROVE  retries' \subseteq SUBSET Ep /\ saved' \subseteq retries'
BY DEF TypeOK, Appended

LEMMA QueueRetryTyped ==
    ASSUME TypeOK, NEW a \in asking, QueueRetry(a)  PROVE TypeOK'
<1>1. a.segment \in SUBSET Ep  BY DEF TypeOK, Ask
<1>2. retries' \subseteq SUBSET Ep /\ saved' \subseteq retries'
  BY <1>1, AppendedTyped DEF QueueRetry
<1>3. asking' \subseteq Ask  BY DEF TypeOK, QueueRetry
<1> QED BY <1>2, <1>3 DEF TypeOK, QueueRetry

LEMMA DownloadedTyped ==
    ASSUME TypeOK, NEW d \in client, Downloaded(d)  PROVE TypeOK'
<1>1. d.offer \in Offer /\ EpsOf[d.offer] \subseteq Ep  BY FailedAssumption DEF TypeOK
<1>2. status' \in [Ep -> Status] /\ origin' \in [Ep -> Settled]
  BY DEF TypeOK, Downloaded, Status, Settled
<1> QED BY <1>1, <1>2 DEF TypeOK, Downloaded, Ends, queueVars

LEMMA ForgetTyped ==
    ASSUME TypeOK, NEW known \in BOOLEAN, Forget(known)  PROVE TypeOK'
<1>1. EpsOf[processed] \subseteq Ep  BY FailedAssumption DEF TypeOK, Forget
<1>2. history' \subseteq history  BY DEF Forget
<1> QED BY <1>1, <1>2 DEF TypeOK, Forget, queueVars

LEMMA AskRetryTyped ==
    ASSUME TypeOK, NEW e \in Ep, AskRetry(e)  PROVE TypeOK'
<1>1. retries' \subseteq SUBSET Ep /\ saved' \subseteq retries'
  BY AppendedTyped DEF AskRetry
<1> QED BY <1>1 DEF TypeOK, AskRetry, Asks

LEMMA RemoveRetriesTyped ==
    ASSUME TypeOK, NEW segs \in SUBSET retries, RemoveRetries(segs)  PROVE TypeOK'
BY DEF TypeOK, RemoveRetries, Asks

LEMMA ClearRetriesTyped ==
    ASSUME TypeOK, ClearRetries  PROVE TypeOK'
<1>1. job \in Jobs  BY DEF TypeOK, Jobs, Releases
<1>2. job' \in Jobs  BY <1>1 DEF ClearRetries, Jobs
<1> QED BY <1>2 DEF TypeOK, ClearRetries, Asks, Jobs, Releases

LEMMA UnblockTyped ==
    ASSUME TypeOK, NEW rel, Unblock(rel)  PROVE TypeOK'
BY DEF TypeOK, Unblock, Asks, queueVars

LEMMA SetFailedTyped ==
    ASSUME TypeOK, NEW seg \in SUBSET Ep, SetFailed(seg)  PROVE TypeOK'
<1>1. status' \in [Ep -> Status]  BY DEF TypeOK, SetFailed, Status
<1>2. asking' \subseteq Ask  BY DEF TypeOK, SetFailed, Asks, Ask
<1> QED BY <1>1, <1>2 DEF TypeOK, SetFailed, Asks

LEMMA SetStatusTyped ==
    ASSUME TypeOK, NEW e \in Ep, NEW s \in Settled, SetStatus(e, s)  PROVE TypeOK'
<1>1. status' \in [Ep -> Status] /\ origin' \in [Ep -> Settled]
  BY DEF TypeOK, SetStatus, Status
<1> QED BY <1>1 DEF TypeOK, SetStatus, Asks, queueVars

LEMMA UnsetTyped ==
    ASSUME JobInv  PROVE Unset \subseteq Ep
BY FailedAssumption DEF JobInv, Unset

LEMMA RaisesTyped ==
    ASSUME TypeOK, JobInv, Raises  PROVE TypeOK'
<1>1. job \in Jobs /\ "over" \in Steps  BY DEF TypeOK, Jobs, Releases, Steps
<1>2. job' \in Jobs  BY <1>1, NoJobTyped DEF Raises, Jobs
<1>3. lost' \subseteq Ep /\ abandoned' \subseteq Ep
  BY UnsetTyped DEF TypeOK, Raises
<1> QED BY <1>2, <1>3 DEF TypeOK, Raises, Asks, Jobs, Releases

LEMMA CrashTyped ==
    ASSUME TypeOK, JobInv, Crash  PROVE TypeOK'
<1>1. job' \in Jobs  BY NoJobTyped DEF Crash
<1>2. retries' \subseteq SUBSET Ep /\ saved' \subseteq retries'  BY DEF TypeOK, Crash, Redo
<1>3. lost' \subseteq Ep  BY UnsetTyped DEF TypeOK, Crash
<1>4. \A seg \in Segments(asking) : seg \subseteq Ep  BY DEF TypeOK, Segments, Ask
<1> DEFINE gone == UNION (Segments(asking) \cup (retries \ saved))
           halted == IF job.saved THEN {} ELSE job.todo
<1>a. \A e \in gone : \E seg \in Segments(asking) \cup retries : e \in seg  OBVIOUS
<1>b. halted \subseteq job.todo  OBVIOUS
<1>c. abandoned' = abandoned \cup halted \cup gone  BY DEF Crash
<1> HIDE DEF gone, halted
<1>5. \A e \in abandoned' : \/ e \in abandoned \/ e \in job.todo
                              \/ \E seg \in Segments(asking) \cup retries : e \in seg
  BY <1>a, <1>b, <1>c
<1>6. abandoned' \subseteq Ep  BY <1>4, <1>5 DEF TypeOK
<1> QED BY <1>1, <1>2, <1>3, <1>6 DEF TypeOK, Crash, Jobs, Releases

-----------------------------------------------------------------------------
(***************************************************************************)
(* The rows.                                                               *)
(***************************************************************************)
LEMMA RowsKept ==
    ASSUME RowsInv, history' = history, now' = now,
           job'.pc = "record" => job.pc = "record"
    PROVE  RowsInv'
BY DEF RowsInv, Companion

\* whole snatches go
LEMMA RowsShrink ==
    ASSUME RowsInv, history' \subseteq history, now' = now,
           job'.pc = "record" => job.pc = "record",
           \A s \in history', t \in history : s.date = t.date => t \in history'
    PROVE  RowsInv'
<1>1. ASSUME NEW s \in history', NEW e \in EpsOf[s.offer]  PROVE Companion(s, e)'
  <2>1. Companion(s, e)  BY DEF RowsInv
  <2>2. CASE \E t \in history : t.ep = e /\ t.date = s.date  BY <2>2 DEF Companion
  <2>3. CASE \A t \in history : t.ep = e => t.date > s.date  BY <2>3 DEF Companion
  <2> QED BY <2>1, <2>2, <2>3 DEF Companion
<1> QED BY <1>1 DEF RowsInv

LEMMA RemovedAllOrNone ==
    ASSUME NEW rows  PROVE Removed(rows) \in {{}, rows}
BY DEF Removed

LEMMA SameRelease ==
    ASSUME TypeOK, NEW r \in history, NEW s \in history, Release[r.offer] = Release[s.offer]
    PROVE  EpsOf[r.offer] = EpsOf[s.offer]
BY FailedAssumption DEF TypeOK, Row

LEMMA BlameRows ==
    ASSUME TypeOK, RowsInv, Blame
    PROVE  /\ history' \subseteq history
           /\ \A s \in history', t \in history :
                  Release[s.offer] = Release[t.offer] => t \in history'
           /\ \A r \in history \ history' : r.ep # job.ep => r.ep \in lost'
           /\ lost \subseteq lost'
           /\ \/ history' = history
              \/ \A r \in history : Release[r.offer] \in job.found => r \notin history'
<1> DEFINE rows == UNION {RowsNamed(rel) : rel \in job.found}
<1>1. rows = {r \in history : Release[r.offer] \in job.found}  BY DEF RowsNamed
<1>2. /\ history' = history \ Removed(rows)
      /\ lost' = lost \cup {r.ep : r \in {s \in Removed(rows) : s.ep # job.ep}}
  BY DEF Blame
<1>3. Removed(rows) \in {{}, rows}  BY RemovedAllOrNone
<1> HIDE DEF rows
<1> QED BY <1>1, <1>2, <1>3

LEMMA ForgetRows ==
    ASSUME TypeOK, RowsInv, NEW known \in BOOLEAN, Forget(known)
    PROVE  /\ history' \subseteq history
           /\ \A s \in history', t \in history :
                  Release[s.offer] = Release[t.offer] => t \in history'
           /\ \A r \in history \ history' : r.ep \in EpsOf[processed]
<1>1. processed \in Offer  BY DEF TypeOK, Forget
<1>2. \A r \in history : Release[r.offer] = Release[processed] => r.ep \in EpsOf[processed]
  BY <1>1, FailedAssumption DEF TypeOK, Row, RowsInv
<1> QED BY <1>2 DEF Forget, RowsNamed

\* find_release removes what is older and keeps the snatch it found whole
Keeps(r) ==
    /\ history' \subseteq history
    /\ \A s \in history : s.date = r.date => s \in history'
    /\ \A s \in history \ history' :
          /\ s.date < r.date
          /\ \E t \in history : t.ep = s.ep /\ t.date = r.date
    /\ \A s \in history', t \in history \ history' : s.date = t.date => t.ep = job.ep
    /\ \A t \in history' : t.ep = job.ep => t.date = r.date
    /\ \A s \in history' : Release[s.offer] = Release[r.offer] => s.date = r.date
    /\ job' = [job EXCEPT !.pc = "revert", !.found = {Release[r.offer]}]

LEMMA FindKeeps ==
    ASSUME TypeOK, RowsInv, JobInv, FindRelease
    PROVE  \/ /\ RowsOf(job.ep) = {} /\ history' = history
              /\ job' = [job EXCEPT !.pc = "revert", !.found = {}]
           \/ \E r \in Newest(job.ep) : Keeps(r)
<1> SUFFICES ASSUME NEW r \in Newest(job.ep),
                    history' = history \ ({s \in RowsOf(job.ep) : s.date < r.date} \cup
                                          {s \in RowsNamed(Release[r.offer]) :
                                               r.offer \in Offer /\ s.date # r.date}),
                    job' = [job EXCEPT !.pc = "revert", !.found = {Release[r.offer]}]
             PROVE  Keeps(r)
  BY DEF FindRelease, FindClearing
<1>1. /\ r \in history /\ r.ep = job.ep /\ r.offer \in Offer /\ r.date \in Nat
      /\ \A s \in history : s.date \in Nat
      /\ \A s \in history : s.ep = job.ep => s.date <= r.date
  BY DEF Newest, RowsOf, TypeOK, Row
<1>2. \A s \in history : s \in history' <=>
           /\ ~(s.ep = job.ep /\ s.date < r.date)
           /\ ~(Release[s.offer] = Release[r.offer] /\ s.date # r.date)
  BY <1>1 DEF RowsOf, RowsNamed
<1>3. ASSUME NEW s \in history, Release[s.offer] = Release[r.offer], s.date # r.date
      PROVE  s.date < r.date /\ \E t \in history : t.ep = s.ep /\ t.date = r.date
  <2>1. EpsOf[s.offer] = EpsOf[r.offer]  BY <1>1, <1>3, SameRelease
  <2>2. job.ep \in EpsOf[s.offer] /\ s.ep \in EpsOf[r.offer]
    BY <1>1, <2>1 DEF RowsInv
  <2>3. Companion(s, job.ep) /\ Companion(r, s.ep)  BY <1>1, <2>2 DEF RowsInv
  <2>4. s.date < r.date  BY <1>1, <1>3, <2>3 DEF Companion
  <2> QED BY <1>1, <2>3, <2>4 DEF Companion
<1>4. \A s \in history : s.date = r.date => s \in history'  BY <1>1, <1>2
<1>5. ASSUME NEW s \in history \ history'
      PROVE  s.date < r.date /\ \E t \in history : t.ep = s.ep /\ t.date = r.date
  BY <1>1, <1>2, <1>3
<1>6. ASSUME NEW s \in history', NEW t \in history \ history', s.date = t.date
      PROVE  t.ep = job.ep
  BY <1>2, <1>6 DEF RowsInv
<1>7. \A t \in history' : t.ep = job.ep => t.date = r.date  BY <1>1, <1>2
<1>8. \A s \in history' : Release[s.offer] = Release[r.offer] => s.date = r.date  BY <1>2
<1> QED BY <1>4, <1>5, <1>6, <1>7, <1>8 DEF Keeps

LEMMA FindRows ==
    ASSUME TypeOK, RowsInv, NEW r \in Newest(job.ep), Keeps(r), now' = now
    PROVE  RowsInv'
<1>1. /\ history' \subseteq history /\ job'.pc # "record"
      /\ r \in history /\ r.date \in Nat /\ \A s \in history : s.date \in Nat
  BY DEF Keeps, TypeOK, Newest, RowsOf, Row
<1>2. ASSUME NEW s \in history', NEW e \in EpsOf[s.offer]  PROVE Companion(s, e)'
  <2>1. Companion(s, e)  BY <1>1 DEF RowsInv
  <2>2. ASSUME NEW t \in history, t.ep = e, t.date = s.date, t \notin history'
        PROVE  \A u \in history' : u.ep = e => u.date > s.date
    BY <1>1, <2>2 DEF Keeps
  <2> QED BY <1>1, <2>1, <2>2 DEF Companion
<1> QED BY <1>1, <1>2 DEF RowsInv

LEMMA RecordRows ==
    ASSUME TypeOK, RowsInv, JobInv, Record
    PROVE  RowsInv'
<1> DEFINE fresh(e) == [date |-> now, offer |-> job.offer, ep |-> e, old |-> status[e]]
           new == {fresh(e) : e \in EpsOf[job.offer]}
<1>1. /\ job.offer \in Offer /\ history' = history \cup new
      /\ now' = now /\ now \in Nat /\ job'.pc = "status" /\ job.pc = "record"
  BY DEF JobInv, Record, RecordWith, TypeOK
<1>2. /\ \A r \in new : r.date = now /\ r.offer = job.offer /\ r.ep \in EpsOf[job.offer]
      /\ \A r, s \in new : r.ep = s.ep => r = s
      /\ \A e \in EpsOf[job.offer] : \E t \in new : t.ep = e
  <2>1. \A e : /\ fresh(e).date = now /\ fresh(e).offer = job.offer /\ fresh(e).ep = e
  OBVIOUS
  <2> HIDE DEF fresh
  <2> QED BY <2>1
<1>3. \A r \in history : r.date < now /\ r.date \in Nat
  BY <1>1 DEF RowsInv, TypeOK, Row
<1> HIDE DEF new
<1>4. ASSUME NEW s \in history', NEW e \in EpsOf[s.offer]  PROVE Companion(s, e)'
  <2>1. CASE s \in new
    <3>1. \E t \in new : t.ep = e  BY <1>2, <2>1
    <3> QED BY <1>1, <1>2, <2>1, <3>1 DEF Companion
  <2>2. CASE s \in history
    <3>1. Companion(s, e)  BY <2>2 DEF RowsInv
    <3> QED BY <1>1, <1>2, <1>3, <2>2, <3>1 DEF Companion
  <2> QED BY <1>1, <2>1, <2>2
<1>5. /\ \A r \in history' : r.date <= now' /\ r.ep \in EpsOf[r.offer]
      /\ \A r, s \in history' : r.date = s.date => r.offer = s.offer
      /\ \A r, s \in history' : r.date = s.date /\ r.ep = s.ep => r = s
  BY <1>1, <1>2, <1>3 DEF RowsInv
<1> QED BY <1>1, <1>4, <1>5 DEF RowsInv

LEMMA SendRows ==
    ASSUME TypeOK, RowsInv, NEW o \in Offer, Send(o)
    PROVE  RowsInv'
<1>1. now \in Nat /\ now' = now + 1 /\ history' = history /\ \A r \in history : r.date \in Nat
  BY DEF Send, TypeOK, Row
<1> QED BY <1>1 DEF RowsInv, Companion

-----------------------------------------------------------------------------
(***************************************************************************)
(* What the rows tell of an episode.                                       *)
(***************************************************************************)
LEMMA NewestSame ==
    ASSUME NEW e, RowsOf(e)' = RowsOf(e)  PROVE Newest(e)' = Newest(e)
BY DEF Newest

\* steps that leave the rows alone and the statuses or make them failed
LEMMA TellsQuiet ==
    ASSUME TellsInv, history' = history, origin' = origin, lost' = lost,
           \A e \in Ep : status'[e] = status[e] \/ status'[e] = "failed",
           \A e \in Ep : Half(e)' <=> Half(e)
    PROVE  TellsInv'
<1> SUFFICES ASSUME NEW e \in Ep  PROVE Tells(e)'  BY DEF TellsInv
<1>1. Tells(e) /\ RowsOf(e)' = RowsOf(e) /\ Newest(e)' = Newest(e)
  BY NewestSame DEF TellsInv, RowsOf
<1>2. CASE status'[e] = status[e]  BY <1>1, <1>2 DEF Tells
<1>3. CASE status'[e] = "failed"  BY <1>1, <1>3 DEF Tells, Settled
<1> QED BY <1>2, <1>3

LEMMA RecordTells ==
    ASSUME TypeOK, RowsInv, JobInv, TellsInv, Record
    PROVE  TellsInv'
<1> SUFFICES ASSUME NEW e \in Ep  PROVE Tells(e)'  BY DEF TellsInv
<1> DEFINE eps == EpsOf[job.offer]
           fresh(d) == [date |-> now, offer |-> job.offer, ep |-> d, old |-> status[d]]
<1>1. /\ history' = history \cup {fresh(d) : d \in eps}
      /\ lost' = (lost \ eps) \cup {d \in eps : status[d] \notin Settled}
      /\ status' = status /\ origin' = origin
      /\ job'.pc = "status" /\ job'.offer = job.offer /\ job.pc = "record"
  BY DEF Record, RecordWith, TypeOK
<1>2. Tells(e)  BY DEF TellsInv
<1>3. CASE e \notin eps
  <2>1. RowsOf(e)' = RowsOf(e)  BY <1>1, <1>3 DEF RowsOf
  <2>2. Newest(e)' = Newest(e)  BY <2>1, NewestSame
  <2> QED BY <1>1, <1>2, <1>3, <2>1, <2>2 DEF Tells, Half
<1>4. CASE e \in eps
  <2>1. \A r \in history : r.date < now /\ r.date \in Nat  BY <1>1 DEF RowsInv, TypeOK, Row
  <2>2. fresh(e) \in RowsOf(e)' /\ fresh(e).date = now /\ fresh(e).old = status[e]
    BY <1>1, <1>4 DEF RowsOf
  <2>3. \A r \in RowsOf(e)' : r = fresh(e) \/ r \in history
    BY <1>1 DEF RowsOf
  <2>4. now \in Nat  BY DEF TypeOK
  <2> HIDE DEF fresh
  <2>5. Newest(e)' = {fresh(e)}  BY <2>1, <2>2, <2>3, <2>4 DEF Newest
  <2>6. e \notin lost' => status[e] \in Settled  BY <1>1, <1>4
  <2> QED BY <1>1, <1>2, <1>4, <2>2, <2>5, <2>6 DEF Tells, Half
<1> QED BY <1>3, <1>4

LEMMA SetSnatchedTells ==
    ASSUME TypeOK, TellsInv, SetSnatched
    PROVE  TellsInv'
<1> SUFFICES ASSUME NEW e \in Ep  PROVE Tells(e)'  BY DEF TellsInv
<1>1. Tells(e) /\ RowsOf(e)' = RowsOf(e) /\ Newest(e)' = Newest(e)
  BY NewestSame DEF TellsInv, RowsOf, SetSnatched
<1>2. job.pc = "status" /\ lost' = lost /\ origin' = origin
  BY DEF SetSnatched
<1>3. job'.pc # "status"  BY DEF SetSnatched, AfterSnatch, NoJob, TypeOK
<1>4. CASE e \in EpsOf[job.offer]
  <2>1. status'[e] = "snatched"  BY <1>4 DEF SetSnatched
  <2> QED BY <1>1, <1>2, <1>3, <1>4, <2>1 DEF Tells, Half, Settled
<1>5. CASE e \notin EpsOf[job.offer]
  <2>1. status'[e] = status[e]  BY <1>5 DEF SetSnatched
  <2> QED BY <1>1, <1>2, <1>3, <1>5, <2>1 DEF Tells, Half
<1> QED BY <1>4, <1>5

LEMMA FindTells ==
    ASSUME TypeOK, TellsInv, NEW r \in Newest(job.ep), Keeps(r),
           job.pc = "find", status' = status, origin' = origin, lost' = lost
    PROVE  TellsInv'
<1> SUFFICES ASSUME NEW e \in Ep  PROVE Tells(e)'  BY DEF TellsInv
<1>1. /\ Tells(e) /\ r.date \in Nat /\ \A s \in history : s.date \in Nat
      /\ history' \subseteq history
  BY DEF TellsInv, Newest, RowsOf, TypeOK, Row, Keeps
<1>2. ASSUME NEW s \in history \ history', s.ep = e
      PROVE  \E t \in RowsOf(e)' : s.date < t.date
  <2>1. PICK t \in history : t.ep = s.ep /\ t.date = r.date  BY DEF Keeps
  <2>2. t \in history' /\ s.date < r.date  BY <2>1 DEF Keeps
  <2> QED BY <1>2, <2>1, <2>2 DEF RowsOf
<1>3. RowsOf(e)' \subseteq RowsOf(e)  BY <1>1 DEF RowsOf
<1>4. Newest(e) \subseteq Newest(e)'
  <2> SUFFICES ASSUME NEW s \in Newest(e)  PROVE s \in Newest(e)'
    OBVIOUS
  <2>1. s \in history /\ s.ep = e /\ \A t \in RowsOf(e) : t.date <= s.date
    BY DEF Newest, RowsOf
  <2>2. \A t \in RowsOf(e)' : t.date <= s.date /\ t.date \in Nat
    BY <1>1, <1>3, <2>1 DEF RowsOf
  <2>3. s \in history'  BY <1>1, <1>2, <2>1, <2>2
  <2> QED BY <2>1, <2>2, <2>3 DEF Newest, RowsOf
<1>5. Newest(e)' \subseteq Newest(e)
  <2> SUFFICES ASSUME NEW s \in Newest(e)'  PROVE s \in Newest(e)
    OBVIOUS
  <2>1. /\ s \in history /\ s.ep = e /\ s.date \in Nat
        /\ \A t \in RowsOf(e)' : t.date <= s.date /\ t.date \in Nat
    BY <1>1 DEF Newest, RowsOf
  <2>2. ASSUME NEW t \in RowsOf(e)  PROVE t.date <= s.date
    <3>1. t \in history /\ t.ep = e /\ t.date \in Nat  BY <1>1 DEF RowsOf
    <3>2. CASE t \in history'  BY <2>1, <3>1, <3>2 DEF RowsOf
    <3>3. CASE t \notin history'
      <4>1. PICK u \in RowsOf(e)' : t.date < u.date  BY <1>2, <3>1, <3>3
      <4> QED BY <2>1, <3>1, <4>1
    <3> QED BY <3>2, <3>3
  <2> QED BY <2>1, <2>2 DEF Newest, RowsOf
<1>6. ~Half(e) /\ ~Half(e)'  BY DEF Half, Keeps, TypeOK
<1> QED BY <1>1, <1>3, <1>4, <1>5, <1>6 DEF Tells

LEMMA RevertTells ==
    ASSUME TypeOK, JobInv, FoundInv, TellsInv, Revert
    PROVE  TellsInv'
<1> SUFFICES ASSUME NEW e \in Ep  PROVE Tells(e)'  BY DEF TellsInv
<1>1. /\ Tells(e) /\ RowsOf(e)' = RowsOf(e) /\ Newest(e)' = Newest(e)
  BY NewestSame DEF TellsInv, RowsOf, Revert, RevertFrom
<1>2. /\ job.pc = "revert" /\ job'.pc = "blame" /\ job.ep \in Ep
      /\ Newest(job.ep) \subseteq RowsOf(job.ep)
  BY DEF Revert, RevertFrom, TypeOK, JobInv, Newest
<1>3. ~Half(e) /\ ~Half(e)'  BY <1>2 DEF Half
<1>4. CASE e # job.ep
  <2>1. /\ status'[e] = status[e] /\ origin'[e] = origin[e] /\ (e \in lost' <=> e \in lost)
    BY <1>2, <1>4 DEF Revert, RevertFrom, TypeOK
  <2> QED BY <1>1, <1>3, <2>1 DEF Tells
<1>5. CASE e = job.ep
  <2>1. \/ RowsOf(e) = {} /\ status'[e] = "wanted"
        \/ \E r \in RowsOf(e) : status'[e] = r.old
    BY <1>5 DEF Revert, RevertFrom, TypeOK
  <2>2. \A r, s \in RowsOf(e) : r = s  BY <1>2, <1>5 DEF FoundInv
  <2>3. CASE status'[e] \in Settled
    <3>1. origin'[e] = status'[e] /\ e \notin lost'
      BY <1>5, <2>3 DEF Revert, RevertFrom, TypeOK
    <3>2. status'[e] # "snatched"  BY <2>3 DEF Settled
    <3> QED BY <1>1, <1>2, <1>3, <1>5, <2>1, <2>2, <3>1, <3>2 DEF Tells
  <2>4. CASE status'[e] \notin Settled
    <3>1. origin' = origin /\ lost' = lost
      BY <1>5, <2>4 DEF Revert, RevertFrom
    <3>2. PICK r \in RowsOf(e) : status'[e] = r.old  BY <2>1, <2>4 DEF Settled
    <3>3. r \in Newest(e)
      <4>1. r \in history /\ r.date \in Nat  BY DEF RowsOf, TypeOK, Row
      <4> QED BY <2>2, <4>1 DEF Newest
    <3>4. e \in lost  BY <1>1, <2>4, <3>2, <3>3 DEF Tells, TypeOK
    <3> QED BY <1>1, <1>3, <2>4, <3>1, <3>4 DEF Tells
  <2> QED BY <2>3, <2>4
<1> QED BY <1>4, <1>5

LEMMA BlameTells ==
    ASSUME TypeOK, RowsInv, JobInv, FoundInv, RevertedInv, TellsInv, Blame
    PROVE  TellsInv'
<1> SUFFICES ASSUME NEW e \in Ep  PROVE Tells(e)'  BY DEF TellsInv
<1>1. /\ history' \subseteq history /\ lost \subseteq lost'
      /\ \A r \in history \ history' : r.ep # job.ep => r.ep \in lost'
      /\ \/ history' = history
         \/ \A r \in history : Release[r.offer] \in job.found => r \notin history'
  BY BlameRows
<1>2. Tells(e) /\ status' = status /\ origin' = origin /\ job.pc = "blame"
  BY DEF TellsInv, Blame
<1>3. ~Half(e) /\ ~Half(e)'
  BY <1>2 DEF Half, Blame, TypeOK
<1>4. CASE \A r \in history : r.ep = e => r \in history'
  <2>1. RowsOf(e)' = RowsOf(e)  BY <1>1, <1>4 DEF RowsOf
  <2>2. Newest(e)' = Newest(e)  BY <2>1, NewestSame
  <2> QED BY <1>1, <1>2, <1>3, <2>1, <2>2 DEF Tells
<1>5. CASE e \in lost'  BY <1>2, <1>3, <1>5 DEF Tells
<1>6. CASE e = job.ep /\ \E r \in history : r.ep = e /\ r \notin history'
  <2>1. RowsOf(e)' = {}
    BY <1>1, <1>2, <1>6 DEF FoundInv, RowsOf
  <2>2. Newest(e)' = {}  BY <2>1 DEF Newest
  <2>3. status[e] # "snatched" \/ e \in lost
    BY <1>2, <1>6 DEF RevertedInv, Settled
  <2> QED BY <1>1, <1>2, <1>3, <2>1, <2>2, <2>3 DEF Tells
<1> QED BY <1>1, <1>4, <1>5, <1>6

LEMMA DownloadedTells ==
    ASSUME TypeOK, TellsInv, NEW d \in client, Downloaded(d)
    PROVE  TellsInv'
<1> SUFFICES ASSUME NEW e \in Ep  PROVE Tells(e)'  BY DEF TellsInv
<1>1. /\ Tells(e) /\ RowsOf(e)' = RowsOf(e) /\ Newest(e)' = Newest(e)
  BY NewestSame DEF TellsInv, RowsOf, Downloaded
<1>2. Half(e)' <=> Half(e)  BY DEF Half, Downloaded
<1>3. CASE e \in EpsOf[d.offer]
  <2>1. /\ status'[e] = "downloaded" /\ origin'[e] = "downloaded"
        /\ e \notin lost' => RowsOf(e) = {} /\ e \notin lost
    BY <1>3 DEF Downloaded
  <2>2. e \notin lost' => Newest(e) = {}  BY <2>1 DEF Newest
  <2> QED BY <1>1, <1>2, <2>1, <2>2 DEF Tells, Settled
<1>4. CASE e \notin EpsOf[d.offer]
  <2>1. /\ status'[e] = status[e] /\ origin'[e] = origin[e] /\ (e \in lost' <=> e \in lost)
    BY <1>4 DEF Downloaded
  <2> QED BY <1>1, <1>2, <2>1 DEF Tells
<1> QED BY <1>3, <1>4

LEMMA ForgetTells ==
    ASSUME TypeOK, RowsInv, TellsInv, NEW known \in BOOLEAN, Forget(known)
    PROVE  TellsInv'
<1> SUFFICES ASSUME NEW e \in Ep  PROVE Tells(e)'  BY DEF TellsInv
<1>1. /\ history' \subseteq history
      /\ \A r \in history \ history' : r.ep \in EpsOf[processed]
  BY ForgetRows
<1>2. /\ Tells(e) /\ status' = status /\ origin' = origin /\ job' = job
      /\ lost' = lost \cup {d \in EpsOf[processed] : status[d] \notin Settled \/ job.pc = "status"}
  BY DEF TellsInv, Forget
<1>3. Half(e)' <=> Half(e)  BY <1>2 DEF Half
<1>4. CASE e \notin EpsOf[processed]
  <2>1. RowsOf(e)' = RowsOf(e)  BY <1>1, <1>4 DEF RowsOf
  <2>2. Newest(e)' = Newest(e)  BY <2>1, NewestSame
  <2> QED BY <1>2, <1>3, <1>4, <2>1, <2>2 DEF Tells
<1>5. CASE e \in EpsOf[processed]
  <2>1. RowsOf(e)' \subseteq RowsOf(e) /\ Newest(e)' \subseteq RowsOf(e)'
    BY <1>1 DEF RowsOf, Newest
  <2>2. e \notin lost' => e \notin lost /\ status[e] \in Settled /\ ~Half(e)
    BY <1>2, <1>5 DEF Half
  <2>3. status[e] \in Settled => status[e] # "snatched"  BY DEF Settled
  <2> QED BY <1>2, <1>3, <2>1, <2>2, <2>3 DEF Tells
<1> QED BY <1>4, <1>5

LEMMA SetStatusTells ==
    ASSUME TypeOK, TellsInv, NEW d \in Ep, NEW s \in Settled, SetStatus(d, s)
    PROVE  TellsInv'
<1> SUFFICES ASSUME NEW e \in Ep  PROVE Tells(e)'  BY DEF TellsInv
<1>1. /\ Tells(e) /\ RowsOf(e)' = RowsOf(e) /\ Newest(e)' = Newest(e)
  BY NewestSame DEF TellsInv, RowsOf, SetStatus
<1>2. Half(e)' <=> Half(e)  BY DEF Half, SetStatus
<1>3. CASE e = d
  <2>1. /\ status'[e] = s /\ origin'[e] = s
        /\ e \notin lost' => RowsOf(e) = {} /\ e \notin lost
    BY <1>3 DEF SetStatus, TypeOK
  <2>2. e \notin lost' => Newest(e) = {}  BY <2>1 DEF Newest
  <2>3. s # "snatched"  BY DEF Settled
  <2> QED BY <1>1, <1>2, <2>1, <2>2, <2>3 DEF Tells
<1>4. CASE e # d
  <2>1. /\ status'[e] = status[e] /\ origin'[e] = origin[e] /\ (e \in lost' <=> e \in lost)
    BY <1>4 DEF SetStatus, TypeOK
  <2> QED BY <1>1, <1>2, <2>1 DEF Tells
<1> QED BY <1>3, <1>4

\* the search is given up, by an exception or with the process
LEMMA GivenUpTells ==
    ASSUME TypeOK, TellsInv, history' = history, status' = status, origin' = origin,
           lost' = lost \cup Unset, job'.pc # "status"
    PROVE  TellsInv'
<1> SUFFICES ASSUME NEW e \in Ep  PROVE Tells(e)'  BY DEF TellsInv
<1>1. /\ Tells(e) /\ RowsOf(e)' = RowsOf(e) /\ Newest(e)' = Newest(e)
  BY NewestSame DEF TellsInv, RowsOf
<1>2. ~Half(e)' /\ lost \subseteq lost' /\ (Half(e) => e \in lost')
  BY DEF Half, Unset
<1> QED BY <1>1, <1>2 DEF Tells

-----------------------------------------------------------------------------
(***************************************************************************)
(* The search, and what it makes of the statuses.                          *)
(***************************************************************************)
Search == /\ JobInv /\ FoundInv /\ RevertedInv /\ RetriedInv
          /\ BlamedIsOneSnatch /\ FailedIsRetried

\* what leaves the waiting retries is gone to them or named in abandoned
LEMMA WaitsOn ==
    ASSUME abandoned \subseteq abandoned',
           \A seg \in Segments(asking) \cup retries :
               \/ seg \in Segments(asking)' \cup retries'
               \/ seg \subseteq abandoned'
    PROVE  \A e : Waits(e) => Waits(e)'
BY DEF Waits

\* steps of others: the job stays as it is, but for its row in the table
SameJob == job' = job \/ job' = [job EXCEPT !.saved = FALSE]

LEMMA SameFields ==
    ASSUME TypeOK, SameJob
    PROVE  /\ job'.pc = job.pc /\ job'.segment = job.segment /\ job'.todo = job.todo
           /\ job'.ep = job.ep /\ job'.found = job.found /\ job'.offer = job.offer
BY DEF TypeOK, SameJob

LEMMA OthersSearch ==
    ASSUME TypeOK, Search, SameJob, history' \subseteq history,
           lost \subseteq lost',
           \A e : Waits(e) => Waits(e)',
           \A e \in Ep : \/ status'[e] = status[e]
                         \/ status'[e] \in Settled
                         \/ status'[e] = "failed" /\ Waits(e)'
    PROVE  Search'
<1>0. /\ job'.pc = job.pc /\ job'.segment = job.segment /\ job'.todo = job.todo
      /\ job'.ep = job.ep /\ job'.found = job.found /\ job'.offer = job.offer
  BY SameFields
<1>1. JobInv'  BY <1>0 DEF Search, JobInv
<1>2. FoundInv' /\ BlamedIsOneSnatch'
  BY <1>0 DEF Search, FoundInv, BlamedIsOneSnatch, RowsOf, RowsNamed
<1>3. job.pc = "blame" => job.ep \in Ep  BY DEF Search, JobInv, TypeOK
<1>4. RevertedInv' /\ RetriedInv'
  <2> SUFFICES ASSUME job.pc = "blame"  PROVE RevertedInv' /\ RetriedInv'
    BY <1>0 DEF RevertedInv, RetriedInv
  <2>1. CASE status'[job.ep] = status[job.ep]
    BY <1>0, <1>3, <2>1 DEF Search, RevertedInv, RetriedInv
  <2>2. CASE status'[job.ep] \in Settled
    BY <1>0, <1>3, <2>2 DEF RevertedInv, RetriedInv, Settled
  <2>3. ASSUME NEW e, e = job.ep, status'[e] = "failed", Waits(e)'
        PROVE  RevertedInv' /\ RetriedInv'
    BY <1>0, <1>3, <2>3 DEF RevertedInv, RetriedInv, Waits
  <2> QED BY <1>3, <2>1, <2>2, <2>3
<1>5. FailedIsRetried'
  <2> SUFFICES ASSUME NEW e \in Ep, status'[e] = "failed"
               PROVE  Kept(e)' \/ e \in lost'
    BY DEF FailedIsRetried, Kept, Waits, Pending
  <2>1. status'[e] \notin Settled  BY DEF Settled
  <2>2. CASE status'[e] = status[e]
    <3>1. Kept(e) \/ e \in lost
      BY <2>2 DEF Search, FailedIsRetried, Kept, Waits, Pending
    <3> QED BY <1>0, <3>1 DEF Kept
  <2>3. CASE Waits(e)'  BY <2>3 DEF Kept
  <2> QED BY <2>1, <2>2, <2>3
<1> QED BY <1>1, <1>2, <1>4, <1>5 DEF Search

\* a failed episode is retried, said with what the proofs keep
LEMMA FailedKept ==
    FailedIsRetried <=> \A e \in Ep : status[e] = "failed" => Kept(e) \/ e \in lost
BY DEF FailedIsRetried, Kept, Waits, Pending

\* steps of the search between two episodes of a segment, or of no segment
LEMMA SnatchSearch ==
    ASSUME TypeOK, Search,
           (\E o \in Offer : Send(o)) \/ Record \/ SetSnatched \/ EndRetry
    PROVE  Search'
<1> DEFINE Quiet == /\ job.todo = {} /\ job'.todo = {} /\ UNCHANGED queueVars
                    /\ job'.pc \in {"record", "status", "search", "idle"}
                    /\ job'.pc \in {"record", "status"} => job'.offer \in Offer
<1>a. ASSUME NEW o \in Offer, Send(o)  PROVE Quiet
  BY <1>a DEF Search, JobInv, Send, TypeOK
<1>b. ASSUME Record  PROVE Quiet
  BY <1>b DEF Search, JobInv, Record, RecordWith, TypeOK
<1>c. ASSUME SetSnatched  PROVE Quiet
  BY <1>c DEF Search, JobInv, SetSnatched, AfterSnatch, NoJob, TypeOK
<1>d. ASSUME EndRetry  PROVE Quiet
  BY <1>d DEF Search, JobInv, EndRetry, NoJob, TypeOK
<1>1. Quiet  BY <1>a, <1>b, <1>c, <1>d
<1>2. JobInv'  BY <1>1 DEF JobInv
<1>3. FoundInv' /\ BlamedIsOneSnatch' /\ RevertedInv' /\ RetriedInv'
  BY <1>1 DEF FoundInv, BlamedIsOneSnatch, RevertedInv, RetriedInv
<1>4. ASSUME NEW e \in Ep, status'[e] = "failed"  PROVE Kept(e)' \/ e \in lost'
  <2>1. status[e] = "failed"  BY <1>4 DEF Send, Record, RecordWith, SetSnatched, EndRetry
  <2>2. Kept(e) <=> Kept(e)'  BY <1>1 DEF Kept, Waits, queueVars, Segments
  <2>3. e \in lost => e \in lost'
    BY <2>1 DEF Send, Record, RecordWith, SetSnatched, EndRetry, Settled
  <2> QED BY <2>1, <2>2, <2>3, FailedKept DEF Search
<1>5. FailedIsRetried'
  BY <1>4 DEF FailedIsRetried, Kept, Waits, Pending
<1> QED BY <1>2, <1>3, <1>5 DEF Search

LEMMA TakeRetrySearch ==
    ASSUME TypeOK, Search, NEW seg \in retries, TakeRetry(seg)
    PROVE  Search'
<1>1. /\ job'.pc = "mark" /\ job'.todo = seg /\ job'.segment = seg
      /\ job.pc = "idle" /\ job.todo = {} /\ retries' = retries \ {seg}
      /\ status' = status /\ lost' = lost /\ asking' = asking /\ abandoned' = abandoned
  BY DEF Search, JobInv, TakeRetry, NoJob
<1>2. JobInv' /\ FoundInv' /\ BlamedIsOneSnatch' /\ RevertedInv' /\ RetriedInv'
  BY <1>1 DEF JobInv, FoundInv, BlamedIsOneSnatch, RevertedInv, RetriedInv
<1>3. \A e : Kept(e) => Kept(e)'  BY <1>1 DEF Kept, Waits, Segments
<1>4. ASSUME NEW e \in Ep, status'[e] = "failed"  PROVE Kept(e)' \/ e \in lost'
  BY <1>1, <1>3, <1>4, FailedKept DEF Search
<1>5. FailedIsRetried'  BY <1>4 DEF FailedIsRetried, Kept, Waits, Pending
<1> QED BY <1>2, <1>5 DEF Search

LEMMA MarkFailedSearch ==
    ASSUME TypeOK, Search, NEW e \in Ep, MarkFailed(e)
    PROVE  Search'
<1>1. /\ job'.pc = "find" /\ job'.todo = job.todo /\ job'.segment = job.segment
      /\ job'.ep = e /\ e \in job.todo /\ lost' = lost
      /\ retries' = retries /\ asking' = asking /\ abandoned' = abandoned \ {e}
      /\ \A d \in Ep : d # e => status'[d] = status[d]
  BY DEF MarkFailed, TypeOK
<1>2. JobInv' /\ FoundInv' /\ BlamedIsOneSnatch' /\ RevertedInv' /\ RetriedInv'
  BY <1>1 DEF Search, JobInv, FoundInv, BlamedIsOneSnatch, RevertedInv, RetriedInv
<1>3. \A d : Kept(d) => Kept(d)'  BY <1>1 DEF Kept, Waits, Segments
<1>4. Kept(e)'  BY <1>1 DEF Kept
<1>5. ASSUME NEW d \in Ep, status'[d] = "failed"  PROVE Kept(d)' \/ d \in lost'
  BY <1>1, <1>3, <1>4, <1>5, FailedKept DEF Search
<1>6. FailedIsRetried'  BY <1>5 DEF FailedIsRetried, Kept, Waits, Pending
<1> QED BY <1>2, <1>6 DEF Search

LEMMA FindReleaseSearch ==
    ASSUME TypeOK, RowsInv, Search, FindRelease
    PROVE  Search'
<1>1. /\ job'.pc = "revert" /\ job'.todo = job.todo /\ job'.segment = job.segment
      /\ job'.ep = job.ep /\ lost' = lost /\ status' = status
      /\ retries' = retries /\ asking' = asking /\ abandoned' = abandoned
      /\ job.pc = "find"
  BY DEF FindRelease, FindClearing, queueVars, TypeOK
<1>2. JobInv' /\ RevertedInv' /\ RetriedInv'
  BY <1>1 DEF Search, JobInv, RevertedInv, RetriedInv
<1>3. FailedIsRetried'  BY <1>1 DEF Search, FailedIsRetried, Pending, Segments
<1>4. FoundInv' /\ BlamedIsOneSnatch'
  <2>1. CASE RowsOf(job.ep) = {} /\ history' = history /\ job'.found = {}
    BY <1>1, <2>1 DEF FoundInv, BlamedIsOneSnatch, RowsOf
  <2>2. ASSUME NEW r \in Newest(job.ep), Keeps(r)  PROVE FoundInv' /\ BlamedIsOneSnatch'
    <3>1. /\ history' \subseteq history /\ job'.found = {Release[r.offer]} /\ r \in history
          /\ r.ep = job.ep
          /\ \A t \in history' : t.ep = job.ep => t.date = r.date
          /\ \A s \in history' : Release[s.offer] = Release[r.offer] => s.date = r.date
      BY <2>2 DEF Keeps, Newest, RowsOf, TypeOK
    <3>2. FoundInv'  BY <1>1, <3>1 DEF FoundInv, RowsOf, RowsInv
    <3>3. BlamedIsOneSnatch'  BY <3>1 DEF BlamedIsOneSnatch, RowsNamed, RowsInv
    <3> QED BY <3>2, <3>3
  <2>3. JobInv  BY DEF Search
  <2>4. RowsOf(job.ep) = {} /\ job' = [job EXCEPT !.pc = "revert", !.found = {}] => job'.found = {}
    BY DEF TypeOK
  <2> QED BY <2>1, <2>2, <2>3, <2>4, FindKeeps
<1> QED BY <1>2, <1>3, <1>4 DEF Search

LEMMA RevertSearch ==
    ASSUME TypeOK, TellsInv, Search, Revert
    PROVE  Search'
<1>1. /\ job'.pc = "blame" /\ job'.todo = job.todo /\ job'.segment = job.segment
      /\ job'.ep = job.ep /\ job'.found = job.found
      /\ retries' = retries /\ asking' = asking /\ abandoned' = abandoned
      /\ history' = history /\ job.pc = "revert" /\ job.ep \in Ep
      /\ \A e \in Ep : e # job.ep => status'[e] = status[e] /\ (e \in lost <=> e \in lost')
  BY DEF Revert, RevertFrom, queueVars, TypeOK, Search, JobInv
<1>2. JobInv' /\ FoundInv' /\ BlamedIsOneSnatch'
  BY <1>1 DEF Search, JobInv, FoundInv, BlamedIsOneSnatch, RowsOf, RowsNamed
<1>3. FailedIsRetried'
  BY <1>1 DEF Search, JobInv, FailedIsRetried, Pending, Segments
\* a status that is not settled was recorded on top of a snatch or a failure
<1>4. status'[job.ep] \in Settled \/ job.ep \in lost'
  <2> SUFFICES ASSUME status'[job.ep] \notin Settled  PROVE job.ep \in lost'
    OBVIOUS
  <2>1. PICK r \in RowsOf(job.ep) : status'[job.ep] = r.old
    BY <1>1 DEF Revert, RevertFrom, TypeOK, Settled
  <2>2. r \in history /\ r.date \in Nat  BY DEF RowsOf, TypeOK, Row
  <2>3. \A s \in RowsOf(job.ep) : s = r  BY <1>1 DEF Search, FoundInv
  <2>4. r \in Newest(job.ep)  BY <2>2, <2>3 DEF Newest
  <2>5. job.ep \in lost  BY <1>1, <2>1, <2>4 DEF TellsInv, Tells, TypeOK
  <2> QED BY <2>5 DEF Revert, RevertFrom
<1>5. RevertedInv' /\ RetriedInv'
  BY <1>1, <1>4 DEF RevertedInv, RetriedInv, Settled
<1> QED BY <1>2, <1>3, <1>5 DEF Search

LEMMA BlameSearch ==
    ASSUME TypeOK, RowsInv, Search, Blame
    PROVE  Search'
<1>1. /\ job.pc = "blame" /\ job'.todo = job.todo \ {job.ep} /\ job'.segment = job.segment
      /\ job'.pc = IF job.todo \ {job.ep} = {} THEN "search" ELSE "mark"
      /\ retries' = retries /\ asking' = asking /\ abandoned' = abandoned
      /\ status' = status
  BY DEF Blame, queueVars, TypeOK
<1>2. lost \subseteq lost'  BY BlameRows
<1>3. JobInv'  BY <1>1 DEF Search, JobInv
<1>4. FoundInv' /\ BlamedIsOneSnatch' /\ RevertedInv' /\ RetriedInv'
  BY <1>1 DEF FoundInv, BlamedIsOneSnatch, RevertedInv, RetriedInv
<1>5. ASSUME NEW e \in Ep, status[e] = "failed"  PROVE Kept(e)' \/ e \in lost'
  <2>1. Waits(e) <=> Waits(e)'  BY <1>1 DEF Waits, Segments
  <2>2. CASE e = job.ep
    BY <1>1, <1>2, <1>5, <2>1, <2>2 DEF Search, RetriedInv, Kept
  <2>3. CASE e # job.ep
    BY <1>1, <1>2, <1>5, <2>1, <2>3, FailedKept DEF Search, Kept
  <2> QED BY <2>2, <2>3
<1>6. FailedIsRetried'
  BY <1>1, <1>5 DEF FailedIsRetried, Kept, Waits, Pending
<1> QED BY <1>3, <1>4, <1>6 DEF Search

\* the search is given up: what it had still to do is run again or abandoned
LEMMA GivenUpKeeps ==
    ASSUME JobInv, Raises \/ Crash
    PROVE  \A e : Kept(e) => Waits(e)'
<1>1. CASE Raises
  BY <1>1 DEF Raises, Kept, Waits, Segments
<1>2. CASE Crash
  <2> DEFINE gone == UNION (Segments(asking) \cup (retries \ saved))
             halted == IF job.saved THEN {} ELSE job.todo
  <2>1. \A e : \A seg \in Segments(asking) \cup (retries \ saved) : e \in seg => e \in gone
    OBVIOUS
  <2>2. abandoned' = abandoned \cup halted \cup gone /\ retries' = saved \cup Redo
    BY <1>2 DEF Crash
  <2>3. \A e \in job.todo : e \in halted \/ \E seg \in Redo : e \in seg
    BY DEF JobInv, Redo
  <2> HIDE DEF gone, halted
  <2> QED BY <2>1, <2>2, <2>3 DEF Kept, Waits
<1> QED BY <1>1, <1>2

LEMMA GivenUpSearch ==
    ASSUME TypeOK, Search, status' = status, lost \subseteq lost',
           job'.pc \in {"idle", "over"}, job'.todo = {},
           \A e : Kept(e) => Waits(e)'
    PROVE  Search'
<1>1. JobInv' /\ FoundInv' /\ BlamedIsOneSnatch' /\ RevertedInv' /\ RetriedInv'
  BY DEF JobInv, FoundInv, BlamedIsOneSnatch, RevertedInv, RetriedInv
<1>2. ASSUME NEW e \in Ep, status'[e] = "failed"  PROVE Kept(e)' \/ e \in lost'
  BY <1>2, FailedKept DEF Search, Kept
<1>3. FailedIsRetried'  BY <1>2 DEF FailedIsRetried, Kept, Waits, Pending
<1> QED BY <1>1, <1>3 DEF Search

-----------------------------------------------------------------------------
(***************************************************************************)
(* Reported offers.                                                        *)
(***************************************************************************)
LEMMA NewestStays ==
    ASSUME NEW e, NEW r \in Newest(e), history' \subseteq history, r \in history'
    PROVE  r \in Newest(e)'
BY DEF Newest, RowsOf

LEMMA FindNewest ==
    ASSUME TypeOK, NEW r \in Newest(job.ep), Keeps(r), NEW e, NEW s \in Newest(e)
    PROVE  s \in Newest(e)'
<1>1. /\ s \in history /\ s.ep = e /\ s.date \in Nat /\ history' \subseteq history
      /\ \A t \in RowsOf(e) : t.date <= s.date
      /\ \A t \in history : t.date \in Nat
  BY DEF Newest, RowsOf, TypeOK, Row, Keeps
<1>2. s \in history'
  <2> SUFFICES ASSUME s \notin history'  PROVE FALSE  OBVIOUS
  <2>1. PICK t \in history : t.ep = e /\ t.date = r.date  BY <1>1 DEF Keeps
  <2>2. s.date < r.date  BY <1>1 DEF Keeps
  <2> QED BY <1>1, <2>1, <2>2 DEF RowsOf
<1> QED BY <1>1, <1>2, NewestStays

LEMMA ReportedQuiet ==
    ASSUME ReportedInv, history' = history, reported' = reported,
           failed \subseteq failed', missed \subseteq missed',
           \A e : Kept(e) => Kept(e)'
    PROVE  ReportedInv'
<1>1. \A e : Newest(e)' = Newest(e)  BY DEF Newest, RowsOf
<1> QED BY <1>1 DEF ReportedInv

LEMMA FailsReported ==
    ASSUME TypeOK, ReportedInv, NEW d \in client, Fails(d)
    PROVE  ReportedInv'
<1>1. \A e : Newest(e)' = Newest(e)  BY DEF Newest, RowsOf, Fails
<1>2. d.offer \in Offer  BY DEF TypeOK
<1>3. PICK e \in EpsOf[d.offer] : TRUE  BY <1>2, FailedAssumption
<1>4. Kept(e)'
  <2> DEFINE a == [by |-> "client", at |-> d.date, segment |-> {e}]
  <2>a. a \in asking' /\ a.segment = {e}  BY DEF Fails
  <2> HIDE DEF a
  <2>1. {e} \in Segments(asking)'  BY <2>a DEF Segments
  <2> QED BY <2>1 DEF Kept, Waits
<1>5. \A x : Kept(x) => Kept(x)'  BY DEF Kept, Waits, Segments, Fails
<1>6. /\ reported' = reported \cup {d.offer} /\ failed' = failed
      /\ missed \subseteq missed'
      /\ d.offer \notin missed' => \A x \in EpsOf[d.offer] : \E r \in Newest(x) : r.offer = d.offer
  BY DEF Fails
<1>7. ASSUME NEW o \in reported'
      PROVE  \/ o \in failed' \cup missed'
             \/ /\ \A x \in EpsOf[o] : \E r \in Newest(x) : r.offer = o
                /\ \E x \in EpsOf[o] : Kept(x)'
  <2>1. CASE o = d.offer  BY <1>3, <1>4, <1>6, <2>1
  <2>2. CASE o \in reported  BY <1>5, <1>6, <2>2 DEF ReportedInv
  <2> QED BY <1>6, <2>1, <2>2
<1> QED BY <1>1, <1>7 DEF ReportedInv

\* what takes rows of an offer's episodes away, or adds them, is named in missed
LEMMA ReportedMissed ==
    ASSUME ReportedInv, reported' = reported, failed' = failed, NEW eps,
           missed' = missed \cup {o \in reported : EpsOf[o] \cap eps # {}},
           \A e : e \notin eps => RowsOf(e)' = RowsOf(e),
           job'.todo = job.todo, UNCHANGED queueVars
    PROVE  ReportedInv'
<1>1. \A e : e \notin eps => Newest(e)' = Newest(e)  BY NewestSame
<1>2. \A e : Kept(e)' <=> Kept(e)  BY DEF Kept, Waits, Segments, queueVars
<1> QED BY <1>1, <1>2 DEF ReportedInv

LEMMA RecordReported ==
    ASSUME TypeOK, ReportedInv, Record
    PROVE  ReportedInv'
<1> DEFINE eps == EpsOf[job.offer]
           fresh(d) == [date |-> now, offer |-> job.offer, ep |-> d, old |-> status[d]]
<1>1. /\ history' = history \cup {fresh(d) : d \in eps}
      /\ missed' = missed \cup {o \in reported : EpsOf[o] \cap eps # {}}
      /\ reported' = reported /\ failed' = failed /\ UNCHANGED queueVars
      /\ job'.todo = job.todo
  BY DEF Record, RecordWith, TypeOK
<1>2. \A e : e \notin eps => RowsOf(e)' = RowsOf(e)
  BY <1>1 DEF RowsOf
<1> QED BY <1>1, <1>2, ReportedMissed

LEMMA ForgetReported ==
    ASSUME TypeOK, RowsInv, ReportedInv, NEW known \in BOOLEAN, Forget(known)
    PROVE  ReportedInv'
<1>1. /\ history' \subseteq history
      /\ \A r \in history \ history' : r.ep \in EpsOf[processed]
  BY ForgetRows
<1>2. \A e : e \notin EpsOf[processed] => RowsOf(e)' = RowsOf(e)  BY <1>1 DEF RowsOf
<1>3. /\ missed' = missed \cup {o \in reported : EpsOf[o] \cap EpsOf[processed] # {}}
      /\ reported' = reported /\ failed' = failed /\ job' = job /\ UNCHANGED queueVars
  BY DEF Forget
<1> QED BY <1>2, <1>3, ReportedMissed

LEMMA FindReleaseReported ==
    ASSUME TypeOK, RowsInv, JobInv, ReportedInv, FindRelease
    PROVE  ReportedInv'
<1>1. \A e : \A s \in Newest(e) : s \in Newest(e)'
  <2>1. CASE history' = history  BY <2>1 DEF Newest, RowsOf
  <2>2. ASSUME NEW r \in Newest(job.ep), Keeps(r)
        PROVE  \A e : \A s \in Newest(e) : s \in Newest(e)'
    BY <2>2, FindNewest
  <2> QED BY <2>1, <2>2, FindKeeps
<1>2. /\ reported' = reported /\ failed' = failed /\ missed' = missed /\ UNCHANGED queueVars
      /\ job'.todo = job.todo
  BY DEF FindRelease, FindClearing, TypeOK
<1>3. \A e : Kept(e)' <=> Kept(e)  BY <1>2 DEF Kept, Waits, Segments, queueVars
<1> QED BY <1>1, <1>2, <1>3 DEF ReportedInv

\* the offer of the rows that add_failed looks at is blocked
LEMMA BlameBlocks ==
    ASSUME TypeOK, FoundInv, BlamedIsOneSnatch, Blame, NEW r \in history,
           Release[r.offer] \in job.found
    PROVE  r.offer \in failed'
<1> DEFINE rows == UNION {RowsNamed(rel) : rel \in job.found}
<1>1. job.pc = "blame" /\ failed' = failed \cup Blocked(rows)  BY DEF Blame
<1>2. rows = {s \in history : Release[s.offer] = Release[r.offer]}
  BY <1>1 DEF RowsNamed, FoundInv
<1>3. \A s \in rows : s.offer = r.offer
  BY <1>1, <1>2 DEF BlamedIsOneSnatch, RowsNamed
<1>4. Offers(rows) = {r.offer}  BY <1>2, <1>3 DEF Offers
<1>5. Cardinality({r.offer}) = 1  BY FS_Singleton
<1>6. Blocked(rows) = {r.offer}  BY <1>4, <1>5 DEF Blocked
<1> QED BY <1>1, <1>6

LEMMA BlameReported ==
    ASSUME TypeOK, RowsInv, FoundInv, BlamedIsOneSnatch, ReportedInv, Blame
    PROVE  ReportedInv'
<1>1. /\ job.pc = "blame" /\ reported' = reported /\ missed' = missed /\ UNCHANGED queueVars
      /\ job'.todo = job.todo \ {job.ep} /\ failed \subseteq failed'
  BY DEF Blame, TypeOK
<1>2. history' \subseteq history  BY BlameRows
<1>3. \A r \in history \ history' : Release[r.offer] \in job.found
  <2> DEFINE rows == UNION {RowsNamed(rel) : rel \in job.found}
  <2>1. history' = history \ Removed(rows)  BY DEF Blame
  <2>2. Removed(rows) \in {{}, rows}  BY RemovedAllOrNone
  <2>3. rows = {r \in history : Release[r.offer] \in job.found}  BY DEF RowsNamed
  <2> QED BY <2>1, <2>2, <2>3
<1> SUFFICES ASSUME NEW o \in reported, o \notin failed', o \notin missed,
                    \A e \in EpsOf[o] : \E r \in Newest(e) : r.offer = o,
                    NEW e0 \in EpsOf[o], Kept(e0)
             PROVE  /\ \A e \in EpsOf[o] : \E r \in Newest(e)' : r.offer = o
                    /\ \E e \in EpsOf[o] : Kept(e)'
  BY <1>1 DEF ReportedInv
<1>4. ASSUME NEW e \in EpsOf[o]  PROVE \E r \in Newest(e)' : r.offer = o
  <2>1. PICK r \in Newest(e) : r.offer = o  OBVIOUS
  <2>2. r \in history  BY DEF Newest, RowsOf
  <2>3. r \in history'  BY <1>3, <2>1, <2>2, BlameBlocks
  <2> QED BY <1>2, <2>1, <2>3, NewestStays
<1>5. e0 # job.ep
  <2> SUFFICES ASSUME e0 = job.ep  PROVE FALSE  OBVIOUS
  <2>1. PICK r \in Newest(e0) : r.offer = o  OBVIOUS
  <2>2. r \in RowsOf(job.ep) /\ r \in history  BY <2>1 DEF Newest, RowsOf
  <2>3. Release[r.offer] \in job.found  BY <1>1, <2>2 DEF FoundInv
  <2> QED BY <2>1, <2>2, <2>3, BlameBlocks
<1>6. Kept(e0)'  BY <1>1, <1>5 DEF Kept, Waits, Segments, queueVars
<1> QED BY <1>4, <1>6

\* an offer that is unblocked is not held against the retry any more
LEMMA UnblockReported ==
    ASSUME ReportedInv, NEW rel, Unblock(rel)
    PROVE  ReportedInv'
<1>1. \A e : Newest(e)' = Newest(e) /\ (Kept(e)' <=> Kept(e))
  BY DEF Unblock, Newest, RowsOf, Kept, Waits, Segments, queueVars
<1>2. \A o \in reported' : o \in reported /\ (o \in failed \cup missed => o \in failed' \cup missed')
  BY DEF Unblock
<1> QED BY <1>1, <1>2 DEF ReportedInv

-----------------------------------------------------------------------------
(***************************************************************************)
(* The theorems.                                                           *)
(***************************************************************************)
IInv == TypeOK /\ RowsInv /\ TellsInv /\ Search /\ ReportedInv

LEMMA InitInv == Init => IInv
<1> SUFFICES ASSUME Init  PROVE IInv  OBVIOUS
<1>1. status \in [Ep -> Settled] /\ Settled \subseteq Status
  BY FailedAssumption DEF Init, Status
<1>2. TypeOK  BY <1>1, NoJobTyped DEF Init, TypeOK, Jobs, Releases
<1>3. RowsInv  BY DEF Init, RowsInv, NoJob
<1>4. ASSUME NEW e \in Ep  PROVE Tells(e)
  BY <1>1 DEF Init, Tells, Half, NoJob, RowsOf, Newest, Settled
<1>5. \A e \in Ep : status[e] # "failed"  BY <1>1 DEF Settled
<1>6. Search
  BY <1>5 DEF Init, Search, NoJob, JobInv, FoundInv, RevertedInv, RetriedInv,
              BlamedIsOneSnatch, FailedIsRetried
<1>7. ReportedInv  BY DEF Init, ReportedInv
<1> QED BY <1>2, <1>3, <1>4, <1>6, <1>7 DEF IInv, TellsInv

\* requests and reports, and what becomes of their retries in the queue
AskOrQueue ==
    \/ \E d \in client : Fails(d)
    \/ \E e \in Ep : AskRetry(e)
    \/ \E seg \in SUBSET Ep : SetFailed(seg)
    \/ \E a \in asking : QueueRetry(a)
    \/ \E segs \in SUBSET retries : RemoveRetries(segs)
    \/ ClearRetries

LEMMA AskTyped ==
    ASSUME TypeOK, AskOrQueue  PROVE TypeOK'
BY FailsTyped, AskRetryTyped, SetFailedTyped, QueueRetryTyped, RemoveRetriesTyped,
   ClearRetriesTyped DEF AskOrQueue

LEMMA AskWaits ==
    ASSUME AskOrQueue  PROVE \A e : Waits(e) => Waits(e)'
<1> DEFINE On == /\ abandoned \subseteq abandoned'
                 /\ \A seg \in Segments(asking) \cup retries :
                        \/ seg \in Segments(asking)' \cup retries'
                        \/ seg \subseteq abandoned'
<1>1. On
  <2>1. CASE \/ \E d \in client : Fails(d)
             \/ \E e \in Ep : AskRetry(e)
             \/ \E seg \in SUBSET Ep : SetFailed(seg)
    BY <2>1 DEF Fails, AskRetry, SetFailed, Appended, Segments
  <2>2. ASSUME NEW a \in asking, QueueRetry(a)
        PROVE  On
    BY <2>2 DEF QueueRetry, Appended, Segments
  <2>3. ASSUME NEW segs \in SUBSET retries, RemoveRetries(segs)
        PROVE  On
    BY <2>3 DEF RemoveRetries, Segments
  <2>4. CASE ClearRetries  BY <2>4 DEF ClearRetries, Segments
  <2>5. (\E a \in asking : QueueRetry(a)) => On  BY <2>2
  <2>6. (\E segs \in SUBSET retries : RemoveRetries(segs)) => On  BY <2>3
  <2> HIDE DEF On
  <2> QED BY <2>1, <2>4, <2>5, <2>6 DEF AskOrQueue
<1> QED BY <1>1, WaitsOn

LEMMA AskStep ==
    ASSUME IInv, AskOrQueue  PROVE IInv'
<1>1. TypeOK' /\ \A e : Waits(e) => Waits(e)'  BY AskTyped, AskWaits DEF IInv
<1>2. /\ history' = history /\ now' = now /\ SameJob /\ origin' = origin /\ lost' = lost
  BY DEF AskOrQueue, Fails, AskRetry, SetFailed, QueueRetry, RemoveRetries, ClearRetries, SameJob
<1>3. ASSUME NEW e \in Ep
      PROVE  status'[e] = status[e] \/ (status'[e] = "failed" /\ Waits(e)')
  <2>1. CASE status' = status  BY <2>1
  <2>2. ASSUME NEW seg \in SUBSET Ep, SetFailed(seg)
        PROVE  status'[e] = status[e] \/ (status'[e] = "failed" /\ Waits(e)')
    <3> DEFINE a == [by |-> "user", at |-> asked', segment |-> seg]
    <3>a. a \in asking' /\ a.segment = seg  BY <2>2 DEF SetFailed
    <3> HIDE DEF a
    <3>1. seg \in Segments(asking)'  BY <3>a DEF Segments
    <3>2. status'[e] = status[e] \/ (e \in seg /\ status'[e] = "failed")
      BY <2>2 DEF SetFailed
    <3> QED BY <3>1, <3>2 DEF Waits
  <2> QED BY <2>1, <2>2
       DEF AskOrQueue, Fails, AskRetry, QueueRetry, RemoveRetries, ClearRetries
<1>4. job'.pc = job.pc /\ job'.todo = job.todo /\ job'.offer = job.offer
  BY <1>2, SameFields DEF IInv
<1>5. RowsInv'  BY <1>2, <1>4, RowsKept DEF IInv
<1>6. TellsInv'  BY <1>2, <1>3, <1>4, TellsQuiet DEF IInv, Half
<1>7. Search'  BY <1>1, <1>2, <1>3, OthersSearch DEF IInv
<1>8. ReportedInv'
  <2>1. CASE \E d \in client : Fails(d)  BY <2>1, FailsReported DEF IInv
  <2>2. CASE \/ \E e \in Ep : AskRetry(e)
             \/ \E seg \in SUBSET Ep : SetFailed(seg)
             \/ \E a \in asking : QueueRetry(a)
             \/ \E segs \in SUBSET retries : RemoveRetries(segs)
             \/ ClearRetries
    <3>1. reported' = reported /\ failed' = failed /\ missed' = missed
      BY <2>2 DEF AskRetry, SetFailed, QueueRetry, RemoveRetries, ClearRetries
    <3>2. \A e : Kept(e) => Kept(e)'  BY <1>1, <1>4 DEF Kept
    <3> QED BY <1>2, <3>1, <3>2, ReportedQuiet DEF IInv
  <2> QED BY <2>1, <2>2 DEF AskOrQueue
<1> QED BY <1>1, <1>5, <1>6, <1>7, <1>8 DEF IInv

LEMMA UnblockStep ==
    ASSUME IInv, NEW rel, Unblock(rel)  PROVE IInv'
<1>1. /\ history' = history /\ now' = now /\ job' = job /\ lost' = lost
      /\ status' = status /\ origin' = origin /\ UNCHANGED queueVars
  BY DEF Unblock
<1>2. \A e : Waits(e) => Waits(e)'  BY <1>1 DEF Waits, Segments, queueVars
<1>3. RowsInv' /\ TellsInv'  BY <1>1, RowsKept, TellsQuiet DEF IInv, Half
<1>4. Search'  BY <1>1, <1>2, OthersSearch DEF IInv, SameJob
<1> QED BY <1>3, <1>4, UnblockTyped, UnblockReported DEF IInv

LEMMA DownloadedStep ==
    ASSUME IInv, NEW d \in client, Downloaded(d)  PROVE IInv'
<1>1. /\ history' = history /\ now' = now /\ job' = job /\ lost \subseteq lost'
      /\ UNCHANGED queueVars
      /\ \A e \in Ep : status'[e] = status[e] \/ status'[e] \in Settled
  BY DEF Downloaded, Settled
<1>a. \A e : (Waits(e) => Waits(e)') /\ (Kept(e) => Kept(e)')
  BY <1>1 DEF Kept, Waits, Segments, queueVars
<1>2. RowsInv'  BY <1>1, RowsKept DEF IInv
<1>3. Search'  BY <1>1, <1>a, OthersSearch DEF IInv, SameJob
<1>4. reported' = reported /\ failed' = failed /\ missed' = missed  BY DEF Downloaded
<1>5. ReportedInv'  BY <1>1, <1>4, <1>a, ReportedQuiet DEF IInv
<1> QED BY <1>2, <1>3, <1>5, DownloadedTyped, DownloadedTells DEF IInv

LEMMA ForgetStep ==
    ASSUME IInv, NEW known \in BOOLEAN, Forget(known)  PROVE IInv'
<1>1. /\ now' = now /\ job' = job /\ lost \subseteq lost' /\ UNCHANGED queueVars
      /\ status' = status
  BY DEF Forget
<1>2. /\ history' \subseteq history
      /\ \A s \in history', t \in history :
             Release[s.offer] = Release[t.offer] => t \in history'
  BY ForgetRows DEF IInv
<1>3. \A s \in history', t \in history : s.date = t.date => t \in history'
  BY <1>2 DEF IInv, RowsInv
<1>4. RowsInv'  BY <1>1, <1>2, <1>3, RowsShrink DEF IInv
<1>a. \A e : Waits(e) => Waits(e)'  BY <1>1 DEF Waits, Segments, queueVars
<1>5. Search'  BY <1>1, <1>2, <1>a, OthersSearch DEF IInv, SameJob
<1> QED BY <1>4, <1>5, ForgetTyped, ForgetTells, ForgetReported DEF IInv

LEMMA SetStatusStep ==
    ASSUME IInv, NEW e \in Ep, NEW s \in Settled, SetStatus(e, s)  PROVE IInv'
<1>1. /\ history' = history /\ now' = now /\ job' = job /\ lost \subseteq lost'
      /\ UNCHANGED queueVars
      /\ \A d \in Ep : status'[d] = status[d] \/ status'[d] \in Settled
  BY DEF SetStatus, IInv, TypeOK
<1>a. \A d : (Waits(d) => Waits(d)') /\ (Kept(d) => Kept(d)')
  BY <1>1 DEF Kept, Waits, Segments, queueVars
<1>2. RowsInv'  BY <1>1, RowsKept DEF IInv
<1>3. Search'  BY <1>1, <1>a, OthersSearch DEF IInv, SameJob
<1>4. reported' = reported /\ failed' = failed /\ missed' = missed  BY DEF SetStatus
<1>5. ReportedInv'  BY <1>1, <1>4, <1>a, ReportedQuiet DEF IInv
<1> QED BY <1>2, <1>3, <1>5, SetStatusTyped, SetStatusTells DEF IInv

\* the thread of the searches
LEMMA SnatchStep ==
    ASSUME IInv, (\E o \in Offer : Send(o)) \/ Record \/ SetSnatched \/ EndRetry
    PROVE  IInv'
<1> USE DEF IInv
<1>1. Search'  BY SnatchSearch
<1>a. ReportedInv'
  <2>1. CASE Record  BY <2>1, RecordReported
  <2>2. CASE (\E o \in Offer : Send(o)) \/ SetSnatched \/ EndRetry
    <3>1. /\ history' = history /\ reported' = reported /\ failed' = failed
          /\ missed' = missed /\ UNCHANGED queueVars
      BY <2>2 DEF Send, SetSnatched, EndRetry
    <3>2. job.todo = {}
      BY <2>2 DEF Search, JobInv, Send, SetSnatched, EndRetry
    <3>3. \A e : Kept(e) => Kept(e)'  BY <3>1, <3>2 DEF Kept, Waits, Segments, queueVars
    <3> QED BY <3>1, <3>3, ReportedQuiet
  <2> QED BY <2>1, <2>2
<1>2. CASE \E o \in Offer : Send(o)
  <2>1. TypeOK' /\ RowsInv'  BY <1>2, SendTyped, SendRows
  <2>2. history' = history /\ origin' = origin /\ lost' = lost /\ status' = status
    BY <1>2 DEF Send
  <2>3. job.pc # "status" /\ job'.pc # "status"  BY <1>2 DEF Send, TypeOK
  <2>4. TellsInv'  BY <2>2, <2>3, TellsQuiet DEF Half
  <2> QED BY <1>a, <1>1, <2>1, <2>4
<1>3. CASE Record
  BY <1>a, <1>1, <1>3, RecordTyped, RecordRows, RecordTells DEF Search
<1>4. CASE SetSnatched
  <2>1. history' = history /\ now' = now /\ job'.pc # "record"
    BY <1>4 DEF SetSnatched, AfterSnatch, NoJob, TypeOK
  <2>2. RowsInv'  BY <2>1, RowsKept
  <2> QED BY <1>a, <1>1, <1>4, <2>2, SetSnatchedTyped, SetSnatchedTells
<1>5. CASE EndRetry
  <2>1. /\ history' = history /\ now' = now /\ job'.pc = "idle" /\ job.pc \in {"search", "over"}
        /\ origin' = origin /\ lost' = lost /\ status' = status
    BY <1>5 DEF EndRetry, NoJob
  <2>2. RowsInv'  BY <2>1, RowsKept
  <2>3. TellsInv'  BY <2>1, TellsQuiet DEF Half
  <2> QED BY <1>a, <1>1, <1>5, <2>2, <2>3, EndRetryTyped
<1> QED BY <1>2, <1>3, <1>4, <1>5

LEMMA RetryStep ==
    ASSUME IInv,
           \/ \E seg \in retries : TakeRetry(seg)
           \/ \E e \in Ep : MarkFailed(e)
           \/ Revert
    PROVE  IInv'
<1> USE DEF IInv
<1>1. TypeOK' /\ Search'
  <2>1. JobInv  BY DEF Search
  <2> QED BY <2>1, TakeRetryTyped, MarkFailedTyped, RevertTyped,
             TakeRetrySearch, MarkFailedSearch, RevertSearch
<1>2. history' = history /\ now' = now /\ job'.pc \in {"mark", "find", "blame"}
  <2>1. ASSUME NEW seg \in retries, TakeRetry(seg)
        PROVE  history' = history /\ now' = now /\ job'.pc = "mark"
    BY <2>1 DEF TakeRetry, NoJob
  <2>2. ASSUME NEW e \in Ep, MarkFailed(e)
        PROVE  history' = history /\ now' = now /\ job'.pc = "find"
    BY <2>2 DEF MarkFailed, TypeOK
  <2>3. CASE Revert  BY <2>3 DEF Revert, RevertFrom, TypeOK
  <2> QED BY <2>1, <2>2, <2>3
<1>3. RowsInv'  BY <1>2, RowsKept
<1>a. ReportedInv'
  <2>1. reported' = reported /\ failed' = failed /\ missed' = missed
    BY DEF TakeRetry, MarkFailed, Revert, RevertFrom
  <2>2. \A e : Kept(e) => Kept(e)'
    <3>1. ASSUME NEW seg \in retries, TakeRetry(seg)
          PROVE  \A e : Kept(e) => Kept(e)'
      <4>1. /\ job.todo = {} /\ job'.todo = seg /\ retries' = retries \ {seg}
            /\ asking' = asking /\ abandoned' = abandoned
        BY <3>1 DEF TakeRetry, NoJob, Search, JobInv
      <4> QED BY <4>1 DEF Kept, Waits, Segments
    <3>2. ASSUME NEW e \in Ep, MarkFailed(e)
          PROVE  \A d : Kept(d) => Kept(d)'
      <4>1. /\ job'.todo = job.todo /\ retries' = retries /\ asking' = asking
            /\ abandoned' = abandoned \ {e} /\ e \in job.todo
        BY <3>2 DEF MarkFailed, TypeOK
      <4> QED BY <4>1 DEF Kept, Waits, Segments
    <3>3. CASE Revert
      <4>1. job'.todo = job.todo /\ UNCHANGED queueVars
        BY <3>3 DEF Revert, RevertFrom, TypeOK
      <4> QED BY <4>1 DEF Kept, Waits, Segments, queueVars
    <3> QED BY <3>1, <3>2, <3>3
  <2> QED BY <1>2, <2>1, <2>2, ReportedQuiet
<1>4. CASE \E seg \in retries : TakeRetry(seg)
  <2>1. job.pc # "status" /\ job'.pc # "status" /\ origin' = origin /\ lost' = lost
        /\ status' = status
    BY <1>4 DEF TakeRetry, NoJob
  <2> QED BY <1>a, <1>1, <1>2, <1>3, <2>1, TellsQuiet DEF Half
<1>5. CASE \E e \in Ep : MarkFailed(e)
  <2>1. /\ job.pc # "status" /\ job'.pc # "status" /\ origin' = origin /\ lost' = lost
        /\ \A e \in Ep : status'[e] = status[e] \/ status'[e] = "failed"
    BY <1>5 DEF MarkFailed, TypeOK
  <2> QED BY <1>a, <1>1, <1>2, <1>3, <2>1, TellsQuiet DEF Half
<1>6. CASE Revert
  BY <1>a, <1>1, <1>3, <1>6, RevertTells DEF Search
<1> QED BY <1>4, <1>5, <1>6

\* an exception, or the end of the process
LEMMA GivenUpStep ==
    ASSUME IInv, Raises \/ Crash  PROVE IInv'
<1> USE DEF IInv
<1>1. TypeOK' /\ \A e : Kept(e) => Waits(e)'
  BY RaisesTyped, CrashTyped, GivenUpKeeps DEF Search
<1>2. /\ history' = history /\ now' = now /\ status' = status /\ origin' = origin
      /\ lost' = lost \cup Unset
      /\ reported' = reported /\ failed' = failed /\ missed' = missed
  BY DEF Raises, Crash
<1>3. job'.pc \in {"idle", "over"} /\ job'.todo = {}
  <2>1. CASE Raises  BY <2>1 DEF Raises, NoJob
  <2>2. CASE Crash  BY <2>2 DEF Crash, NoJob
  <2> QED BY <2>1, <2>2
<1>4. RowsInv' /\ TellsInv'  BY <1>2, <1>3, RowsKept, GivenUpTells
<1>5. Search'  BY <1>1, <1>2, <1>3, GivenUpSearch
<1>6. ReportedInv'  BY <1>1, <1>2, ReportedQuiet DEF Kept
<1> QED BY <1>1, <1>4, <1>5, <1>6

LEMMA FindReleaseStep ==
    ASSUME IInv, FindRelease  PROVE IInv'
<1> USE DEF IInv
<1>1. TypeOK' /\ Search' /\ ReportedInv'
  BY FindReleaseTyped, FindReleaseSearch, FindReleaseReported DEF Search
<1>2. /\ job.pc = "find" /\ job'.pc = "revert" /\ now' = now /\ status' = status
      /\ origin' = origin /\ lost' = lost
  BY DEF FindRelease, FindClearing, TypeOK
<1>3. CASE history' = history
  BY <1>1, <1>2, <1>3, RowsKept, TellsQuiet DEF Half
<1>4. ASSUME NEW r \in Newest(job.ep), Keeps(r)  PROVE IInv'
  BY <1>1, <1>2, <1>4, FindRows, FindTells
<1> QED BY <1>3, <1>4, FindKeeps DEF Search

LEMMA BlameStep ==
    ASSUME IInv, Blame  PROVE IInv'
<1> USE DEF IInv
<1>1. TypeOK' /\ Search' /\ TellsInv' /\ ReportedInv'
  BY BlameTyped, BlameSearch, BlameTells, BlameReported DEF Search
<1>2. /\ history' \subseteq history
      /\ \A s \in history', t \in history :
             Release[s.offer] = Release[t.offer] => t \in history'
  BY BlameRows
<1>3. \A s \in history', t \in history : s.date = t.date => t \in history'
  BY <1>2 DEF RowsInv
<1>4. now' = now /\ job'.pc # "record"  BY DEF Blame, TypeOK
<1>5. RowsInv'  BY <1>2, <1>3, <1>4, RowsShrink
<1> QED BY <1>1, <1>5

LEMMA NextInv == IInv /\ [Next]_vars => IInv'
<1> SUFFICES ASSUME IInv, [Next]_vars  PROVE IInv'  OBVIOUS
<1>1. CASE Next
  <2>1. {"wanted", "ignored"} \subseteq Settled  BY DEF Settled
  <2>2. Chosen \subseteq SUBSET Ep  BY FailedAssumption
  <2> QED BY <1>1, <2>1, <2>2, AskStep, UnblockStep, DownloadedStep, ForgetStep, SetStatusStep,
             SnatchStep, RetryStep, GivenUpStep, FindReleaseStep, BlameStep
          DEF Next, Worker, AskOrQueue
<1>2. CASE UNCHANGED vars
  BY <1>2 DEF vars, IInv, TypeOK, RowsInv, Companion, TellsInv, Tells, Half, Newest, RowsOf,
              Search, JobInv, FoundInv, RevertedInv, RetriedInv, BlamedIsOneSnatch,
              RowsNamed, FailedIsRetried, Pending, ReportedInv, Kept, Waits, Segments, queueVars
<1> QED BY <1>1, <1>2

LEMMA Invariant == Spec => []IInv
BY InitInv, NextInv, PTL DEF Spec

\* The tables, the statuses and the running search keep their types: what add_snatched
\* records is a status, and what add_failed blocks an offer.
THEOREM TypeCorrect == Spec => []TypeOK
BY Invariant, PTL DEF IInv

\* A snatched episode that is not lost has a newest row in failed.db, and it holds the
\* status from before the snatch.
THEOREM SnatchesUndone == Spec => []SnatchCanBeUndone
<1>1. IInv => SnatchCanBeUndone
  BY DEF IInv, TellsInv, Tells, SnatchCanBeUndone
<1> QED BY <1>1, Invariant, PTL

\* Once nothing is left to retry, what the client reported as failed is blocked or was
\* unblocked, but for the offers in missed and those whose retry is in abandoned.
THEOREM ReportsBlock == Spec => []ReportedIsBlocked
<1>1. IInv => ReportedIsBlocked
  BY DEF IInv, ReportedInv, ReportedIsBlocked, Kept, Waits, Pending
<1> QED BY <1>1, Invariant, PTL

\* Nothing stays failed for good: a retry is to come, waits or runs, or its loss is named
\* in abandoned, or the episode is lost.
THEOREM FailedRetried == Spec => []FailedIsRetried
BY Invariant, PTL DEF IInv, Search

\* add_failed never meets rows of two snatches.
THEOREM OneSnatchBlamed == Spec => []BlamedIsOneSnatch
BY Invariant, PTL DEF IInv, Search

\* revert_episode gives an episode that is not lost the status from before its snatch.
THEOREM RevertsRestore == Spec => RevertRestores
<1>1. IInv /\ [Next]_vars =>
        [(Revert /\ RowsOf(job.ep) # {} /\ job.ep \notin lost)
           => status'[job.ep] = origin[job.ep]]_vars
  <2> SUFFICES ASSUME IInv, Revert, RowsOf(job.ep) # {}, job.ep \notin lost
               PROVE  status'[job.ep] = origin[job.ep]
    OBVIOUS
  <2>1. job.ep \in Ep /\ job.pc = "revert"
    BY DEF IInv, Search, JobInv, TypeOK, Revert, RevertFrom
  <2>2. PICK r \in RowsOf(job.ep) : status'[job.ep] = r.old
    BY <2>1 DEF Revert, RevertFrom, IInv, TypeOK
  <2>3. r \in history /\ r.date \in Nat  BY DEF RowsOf, IInv, TypeOK, Row
  <2>4. \A s \in RowsOf(job.ep) : s = r  BY <2>1 DEF IInv, Search, FoundInv
  <2>5. r \in Newest(job.ep)  BY <2>3, <2>4 DEF Newest
  <2> QED BY <2>1, <2>2, <2>5 DEF IInv, TellsInv, Tells
<1> QED BY <1>1, Invariant, PTL DEF Spec, RevertRestores
-----------------------------------------------------------------------------
(***************************************************************************)
(* What the exceptions cost.  `lost', `missed' and `abandoned' name what   *)
(* can go wrong; here is shown that nothing else does: they stay without   *)
(* effect when releases are of one episode each, nothing is snatched on top*)
(* of a snatch, a failure or a success that are not settled, no user       *)
(* interferes, no search raises and no process dies.  Failures, successes, *)
(* retries, their searches and reports come in any order all the same.     *)
(***************************************************************************)
Singles == \A o \in Offer : \E e \in Ep : EpsOf[o] = {e}

Apart(o) == processed = None \/ Release[o] # Release[processed]

Orderly ==
    /\ \A o \in Offer : Send(o) => Apart(o) /\ \A e \in EpsOf[o] : status[e] \in Settled
    /\ ~Crash
    /\ UNCHANGED asked

\* what happens to an episode: its release is handed over, its retry runs, it
\* has its status back; its last snatch; the client's downloads of it
Sent(e)    == job.pc \in {"record", "status"} /\ e \in EpsOf[job.offer]
Tried(e)   == job.pc \in {"find", "revert"} /\ e = job.ep
Given(e)   == job.pc = "blame" /\ e = job.ep
Last(e, o) == \E r \in Newest(e) : r.offer = o /\ r.old = origin[e]
Ours(e)    == {d \in client : e \in EpsOf[d.offer]}
Sending    == [date |-> now, offer |-> job.offer]

InOrder(e) ==
    /\ \A c, d \in Ours(e) : c = d
    /\ Ours(e) # {} => ~Pending(e)
    /\ \A d \in Ours(e) : \/ Sent(e) /\ d = Sending
                          \/ status[e] = "snatched" /\ Last(e, d.offer)
    /\ Sent(e) => Sending \in client /\ Apart(job.offer) /\ status[e] \in Settled
    /\ Half(e) => Last(e, job.offer)
    /\ Pending(e) => status[e] \in {"snatched", "failed"} \/ Given(e)
    /\ status[e] = "failed" <=> Tried(e)
    /\ Given(e) => status[e] \in Settled
    /\ status[e] \in {"snatched", "failed"} \/ Given(e) => \E o \in Offer : Last(e, o) /\ Apart(o)
    /\ \A o \in reported \ failed : e \in EpsOf[o] => Pending(e) /\ Last(e, o)

\* a retry is of one episode, and an episode has one
OneRetry ==
    /\ \A seg \in Segments(asking) \cup retries :
           (\E e \in Ep : seg = {e}) /\ seg \cap job.todo = {}
    /\ \A a, b \in asking : a.segment = b.segment => a = b
    /\ Segments(asking) \cap retries = {}
    /\ job.pc \in {"mark", "find", "revert", "blame"} => \E e \in Ep : job.todo = {e}

OrderInv == OneRetry /\ \A e \in Ep : InOrder(e)

\* a step that is about other episodes
Untouched(e) ==
    /\ status'[e] = status[e] /\ origin'[e] = origin[e]
    /\ Newest(e)' = Newest(e) /\ Ours(e)' = Ours(e)
    /\ Pending(e)' <=> Pending(e)
    /\ Sent(e)' <=> Sent(e)
    /\ Half(e)' <=> Half(e)
    /\ Tried(e)' <=> Tried(e)
    /\ Given(e)' <=> Given(e)
    /\ Sent(e) => now' = now /\ job'.offer = job.offer
    /\ \A o \in reported' : e \in EpsOf[o] => o \in reported
    /\ failed \subseteq failed'
    /\ \A o \in Offer : e \in EpsOf[o] /\ Apart(o) => Apart(o)'

LEMMA LastIsOf ==
    ASSUME IInv, NEW e \in Ep, NEW o, Last(e, o)
    PROVE  o \in Offer /\ e \in EpsOf[o]
BY DEF IInv, Last, Newest, RowsOf, TypeOK, Row, RowsInv

LEMMA UntouchedStays ==
    ASSUME IInv, NEW e \in Ep, InOrder(e), Untouched(e)
    PROVE  InOrder(e)'
<1>1. \A o : Last(e, o)' <=> Last(e, o)
  BY DEF Untouched, Last
<1>2. Half(e) => Sent(e)
  BY DEF Half, Sent
<1>3. /\ \A c, d \in Ours(e)' : c = d
      /\ Ours(e)' # {} => ~Pending(e)'
      /\ Pending(e)' => status'[e] \in {"snatched", "failed"} \/ Given(e)'
      /\ status'[e] = "failed" <=> Tried(e)'
      /\ Given(e)' => status'[e] \in Settled
  BY DEF InOrder, Untouched
<1>4. Sent(e) => Sending' = Sending
  BY DEF Untouched, Sending
<1>5. \A d \in Ours(e)' : \/ Sent(e)' /\ d = Sending'
                          \/ status'[e] = "snatched" /\ Last(e, d.offer)'
  <2> SUFFICES ASSUME NEW d \in Ours(e)
               PROVE  (Sent(e)' /\ d = Sending') \/ (status'[e] = "snatched" /\ Last(e, d.offer)')
    BY DEF Untouched
  <2>1. (Sent(e) /\ d = Sending) \/ (status[e] = "snatched" /\ Last(e, d.offer))
    BY DEF InOrder
  <2>2. Last(e, d.offer)' <=> Last(e, d.offer)
    BY <1>1
  <2> QED BY <2>1, <2>2, <1>4 DEF Untouched
<1>6. Sent(e)' => Sending' \in client' /\ Apart(job.offer)' /\ status'[e] \in Settled
  <2> SUFFICES ASSUME Sent(e)  PROVE Sending' \in client' /\ Apart(job.offer)' /\ status'[e] \in Settled
    BY DEF Untouched
  <2>1. job.offer \in Offer /\ e \in EpsOf[job.offer]
    BY DEF Sent, IInv, Search, JobInv
  <2>2. Sending \in Ours(e)
    BY <2>1 DEF InOrder, Ours, Sending
  <2>3. Sending' \in Ours(e)'
    BY <2>2, <1>4 DEF Untouched
  <2> QED BY <2>1, <2>3 DEF InOrder, Untouched, Ours
<1>7. Half(e)' => Last(e, job.offer)'
  BY <1>1, <1>2 DEF InOrder, Untouched
<1>8. status'[e] \in {"snatched", "failed"} \/ Given(e)' => \E o \in Offer : Last(e, o)' /\ Apart(o)'
  BY <1>1, LastIsOf DEF InOrder, Untouched
<1>9. \A o \in reported' \ failed' : e \in EpsOf[o] => Pending(e)' /\ Last(e, o)'
  BY <1>1 DEF InOrder, Untouched
<1> QED BY <1>3, <1>5, <1>6, <1>7, <1>8, <1>9 DEF InOrder

LEMMA SendOrder ==
    ASSUME IInv, OrderInv, Singles, Orderly, NEW o \in Offer, Send(o)
    PROVE  OrderInv'
<1>1. PICK x \in Ep : EpsOf[o] = {x}
  BY DEF Singles
<1>2. status[x] \in Settled /\ Apart(o)
  BY <1>1 DEF Orderly
<1>3. /\ job.pc \in {"idle", "search"} /\ o \notin failed /\ now' = now + 1
      /\ client' = client \cup {Sending'}
      /\ job'.pc = "record" /\ job'.offer = o /\ job'.todo = job.todo /\ job'.ep = job.ep
      /\ job.todo = {}
      /\ UNCHANGED <<status, history, failed, asking, retries, processed, origin, reported>>
  BY DEF queueVars, Send, Sending, IInv, TypeOK, Search, JobInv
<1>4. OneRetry'
  BY <1>3 DEF OrderInv, OneRetry, Segments
<1>5. /\ \A e : Newest(e)' = Newest(e) /\ (Pending(e)' <=> Pending(e))
      /\ \A q : Apart(q)' <=> Apart(q)
      /\ \A e : ~Sent(e) /\ ~Half(e) /\ ~Half(e)' /\ ~Tried(e) /\ ~Tried(e)' /\ ~Given(e) /\ ~Given(e)'
      /\ \A e : Sent(e)' <=> e = x
  BY <1>1, <1>3 DEF Newest, RowsOf, Pending, Segments, Apart, Sent, Half, Tried, Given
<1>6. Sending'.offer = o
  BY <1>3 DEF Sending
<1>7. \A e : e # x => Ours(e)' = Ours(e)
  BY <1>1, <1>3, <1>6 DEF Ours
<1>8. ASSUME NEW e \in Ep, e # x PROVE InOrder(e)'
  <2>1. Untouched(e)
    BY <1>3, <1>5, <1>7, <1>8 DEF Untouched
  <2> QED BY <2>1, UntouchedStays DEF OrderInv
<1>9. InOrder(x)'
  <2>1. InOrder(x) /\ status[x] \notin {"snatched", "failed"}
    BY <1>2 DEF OrderInv, Settled
  <2>2. Ours(x) = {} /\ ~Pending(x)
    BY <1>5, <2>1 DEF InOrder
  <2>3. Ours(x)' = {Sending'}
    <3>1. Ours(x)' = Ours(x) \cup {Sending'}
      BY <1>1, <1>3, <1>6 DEF Ours
    <3> QED BY <2>2, <3>1
  <2>4. Sending' \in client' /\ Apart(job.offer)'
    BY <1>2, <1>3, <1>5
  <2>5. \A q \in reported' \ failed' : x \notin EpsOf[q]
    BY <1>3, <2>1, <2>2 DEF InOrder
  <2> QED BY <1>2, <1>3, <1>5, <2>1, <2>2, <2>3, <2>4, <2>5 DEF InOrder
<1> QED BY <1>4, <1>8, <1>9 DEF OrderInv

LEMMA RecordOrder ==
    ASSUME IInv, OrderInv, Singles, Record
    PROVE  OrderInv'
<1>1. job.offer \in Offer
  BY DEF IInv, Search, JobInv, Record, RecordWith
<1>2. PICK x \in Ep : EpsOf[job.offer] = {x}
  BY <1>1 DEF Singles
<1> DEFINE row == [date |-> now, offer |-> job.offer, ep |-> x, old |-> status[x]]
<1>3. /\ job.pc = "record" /\ history' = history \cup {row}
      /\ job'.pc = "status" /\ job'.offer = job.offer /\ job'.todo = job.todo
      /\ UNCHANGED <<status, failed, client, asking, retries, processed, now, origin, reported>>
  BY <1>2 DEF queueVars, Record, RecordWith, IInv, TypeOK
<1>4. row.date = now /\ row.offer = job.offer /\ row.ep = x /\ row.old = status[x]
  OBVIOUS
<1> HIDE DEF row
<1>5. \A r \in history : r.date < now /\ r.date \in Nat
  BY <1>3 DEF IInv, RowsInv, TypeOK, Row
<1>6. \A e : e # x => RowsOf(e)' = RowsOf(e)
  BY <1>3, <1>4 DEF RowsOf
<1>7. \A e : e # x => Newest(e)' = Newest(e)
  BY <1>6, NewestSame
<1>8. row \in Newest(x)'
  <2>1. now \in Nat
    BY DEF IInv, TypeOK
  <2> QED BY <2>1, <1>3, <1>4, <1>5 DEF Newest, RowsOf
<1>9. OneRetry'
  BY <1>3 DEF OrderInv, OneRetry, Segments
<1>10. /\ \A e : Ours(e)' = Ours(e) /\ (Pending(e)' <=> Pending(e))
       /\ \A o : Apart(o)' <=> Apart(o)
       /\ \A e : ~Half(e) /\ ~Tried(e) /\ ~Tried(e)' /\ ~Given(e) /\ ~Given(e)'
       /\ \A e : (Sent(e)' <=> e = x) /\ (Sent(e) <=> e = x) /\ (Half(e)' <=> e = x)
       /\ Sending' = Sending
  BY <1>2, <1>3 DEF Ours, Pending, Segments, Apart, Half, Tried, Given, Sent, Sending
<1>11. ASSUME NEW e \in Ep, e # x PROVE InOrder(e)'
  <2>1. Untouched(e)
    BY <1>3, <1>7, <1>10, <1>11 DEF Untouched
  <2> QED BY <2>1, UntouchedStays DEF OrderInv
<1>12. InOrder(x)'
  <2>1. InOrder(x)
    BY DEF OrderInv
  <2>2. /\ Sending \in client /\ Apart(job.offer) /\ status[x] \in Settled
        /\ status[x] \notin {"snatched", "failed"}
    BY <1>10, <2>1 DEF InOrder, Settled
  <2>3. Sending \in Ours(x)
    BY <1>2, <2>2 DEF Ours, Sending
  <2>4. ~Pending(x) /\ \A d \in Ours(x) : d = Sending
    BY <2>1, <2>3 DEF InOrder
  <2>5. Last(x, job.offer)'
    <3>1. status[x] = origin[x]
      BY <2>2 DEF IInv, TellsInv, Tells
    <3> QED BY <1>3, <1>4, <1>8, <3>1 DEF Last
  <2>6. \A o \in reported' \ failed' : x \notin EpsOf[o]
    BY <1>3, <2>1, <2>4 DEF InOrder
  <2>7. Apart(job.offer)'
    BY <1>3, <1>10, <2>2
  <2> QED BY <1>3, <1>10, <2>1, <2>2, <2>4, <2>5, <2>6, <2>7 DEF InOrder
<1> QED BY <1>9, <1>11, <1>12 DEF OrderInv

LEMMA SetSnatchedOrder ==
    ASSUME IInv, OrderInv, Singles, SetSnatched
    PROVE  OrderInv'
<1>1. job.offer \in Offer /\ job.pc = "status" /\ job.todo = {}
  BY DEF IInv, Search, JobInv, SetSnatched
<1>2. PICK x \in Ep : EpsOf[job.offer] = {x}
  BY <1>1 DEF Singles
<1>3. /\ job'.pc \in {"idle", "search"} /\ job'.todo = {}
      /\ status' = [e \in Ep |-> IF e \in EpsOf[job.offer] THEN "snatched" ELSE status[e]]
      /\ UNCHANGED <<history, failed, client, asking, retries, processed, now, origin, reported>>
  <2>1. NoJob.pc = "idle" /\ NoJob.todo = {}
    BY DEF NoJob
  <2>2. [job EXCEPT !.pc = "search", !.offer = None].pc = "search"
        /\ [job EXCEPT !.pc = "search", !.offer = None].todo = job.todo
    BY DEF IInv, TypeOK
  <2> QED BY <1>1, <2>1, <2>2 DEF queueVars, SetSnatched, AfterSnatch
<1>4. OneRetry'
  BY <1>1, <1>3 DEF OrderInv, OneRetry, Segments
<1>5. /\ \A e : Newest(e)' = Newest(e) /\ Ours(e)' = Ours(e) /\ (Pending(e)' <=> Pending(e))
      /\ \A o : Apart(o)' <=> Apart(o)
      /\ \A e : ~Sent(e)' /\ ~Half(e)' /\ ~Tried(e) /\ ~Tried(e)' /\ ~Given(e) /\ ~Given(e)'
      /\ \A e : (Sent(e) <=> e = x) /\ (Half(e) <=> e = x)
  BY <1>1, <1>2, <1>3 DEF Newest, RowsOf, Ours, Pending, Segments, Apart, Sent, Half, Tried, Given
<1>6. ASSUME NEW e \in Ep, e # x PROVE InOrder(e)'
  <2>1. Untouched(e)
    BY <1>2, <1>3, <1>5, <1>6 DEF Untouched
  <2> QED BY <2>1, UntouchedStays DEF OrderInv
<1>7. InOrder(x)'
  <2>1. InOrder(x)
    BY DEF OrderInv
  <2>2. Sending \in Ours(x) /\ Apart(job.offer) /\ Last(x, job.offer)
    BY <1>2, <1>5, <2>1 DEF InOrder, Ours, Sending
  <2>3. ~Pending(x) /\ \A d \in Ours(x) : d.offer = job.offer
    BY <2>1, <2>2 DEF InOrder, Sending
  <2>4. \A o : Last(x, o)' <=> Last(x, o)
    BY <1>3, <1>5 DEF Last
  <2>5. status'[x] = "snatched"
    BY <1>2, <1>3
  <2>6. \A d \in Ours(x)' : status'[x] = "snatched" /\ Last(x, d.offer)'
    BY <1>5, <2>2, <2>3, <2>4, <2>5
  <2>7. \E o \in Offer : Last(x, o)' /\ Apart(o)'
    BY <1>1, <1>5, <2>2, <2>4
  <2>8. \A o \in reported' \ failed' : x \notin EpsOf[o]
    BY <1>3, <2>1, <2>3 DEF InOrder
  <2> QED BY <1>5, <2>1, <2>3, <2>5, <2>6, <2>7, <2>8 DEF InOrder
<1> QED BY <1>4, <1>6, <1>7 DEF OrderInv

LEMMA TakeRetryOrder ==
    ASSUME IInv, OrderInv, NEW seg \in retries, TakeRetry(seg)
    PROVE  OrderInv'
<1>1. /\ job.pc = "idle" /\ job.todo = {} /\ job'.pc = "mark" /\ job'.todo = seg
      /\ retries' = retries \ {seg} /\ asking' = asking
      /\ UNCHANGED <<status, history, failed, client, processed, now, origin, reported>>
  BY DEF IInv, Search, JobInv, TakeRetry, NoJob
<1>2. OneRetry'
  <2>1. PICK x \in Ep : seg = {x}
    BY DEF OrderInv, OneRetry, Segments
  <2>2. /\ Segments(asking)' = Segments(asking)
        /\ \A g \in Segments(asking) \cup retries' : g \in Segments(asking) \cup retries /\ g # seg
    BY <1>1 DEF OrderInv, OneRetry, Segments
  <2>3. \A g \in Segments(asking) \cup retries' : (\E e \in Ep : g = {e}) /\ g \cap seg = {}
    BY <2>1, <2>2 DEF OrderInv, OneRetry
  <2> QED BY <1>1, <2>1, <2>2, <2>3 DEF OrderInv, OneRetry
<1>3. /\ \A e : Newest(e)' = Newest(e) /\ Ours(e)' = Ours(e)
      /\ \A o : Apart(o)' <=> Apart(o)
      /\ \A e : ~Sent(e) /\ ~Half(e) /\ ~Tried(e) /\ ~Given(e)
      /\ \A e : ~Sent(e)' /\ ~Half(e)' /\ ~Tried(e)' /\ ~Given(e)'
  BY <1>1 DEF Newest, RowsOf, Ours, Apart, Sent, Half, Tried, Given
<1>4. \A e : Pending(e)' <=> Pending(e)
  BY <1>1 DEF Pending, Segments
<1>5. ASSUME NEW e \in Ep PROVE InOrder(e)'
  <2>1. Untouched(e)
    BY <1>1, <1>3, <1>4 DEF Untouched
  <2> QED BY <2>1, UntouchedStays DEF OrderInv
<1> QED BY <1>2, <1>5 DEF OrderInv

LEMMA MarkFailedOrder ==
    ASSUME IInv, OrderInv, NEW x \in Ep, MarkFailed(x)
    PROVE  OrderInv'
<1>1. /\ job.pc = "mark" /\ x \in job.todo
      /\ job'.pc = "find" /\ job'.ep = x /\ job'.todo = job.todo
      /\ status' = [status EXCEPT ![x] = "failed"] /\ status'[x] = "failed"
      /\ UNCHANGED <<history, failed, client, asking, retries, processed, now, origin, reported>>
  BY DEF MarkFailed, IInv, TypeOK
<1>2. OneRetry'
  BY <1>1 DEF OrderInv, OneRetry, Segments
<1>3. /\ \A e : Newest(e)' = Newest(e) /\ Ours(e)' = Ours(e) /\ (Pending(e)' <=> Pending(e))
      /\ \A o : Apart(o)' <=> Apart(o)
      /\ \A e : ~Sent(e) /\ ~Half(e) /\ ~Tried(e) /\ ~Given(e)
      /\ \A e : ~Sent(e)' /\ ~Half(e)' /\ (Tried(e)' <=> e = x) /\ ~Given(e)'
  BY <1>1 DEF Newest, RowsOf, Ours, Pending, Segments, Apart, Sent, Half, Tried, Given
<1>4. ASSUME NEW e \in Ep, e # x PROVE InOrder(e)'
  <2>1. status'[e] = status[e]
    BY <1>1, <1>4
  <2>2. Untouched(e)
    BY <1>1, <1>3, <1>4, <2>1 DEF Untouched
  <2> QED BY <2>2, UntouchedStays DEF OrderInv
<1>5. InOrder(x)'
  <2>1. InOrder(x) /\ Pending(x)
    BY <1>1 DEF OrderInv, Pending, Segments
  <2>2. Ours(x) = {} /\ \E o \in Offer : Last(x, o) /\ Apart(o)
    BY <1>3, <2>1 DEF InOrder
  <2>3. \A o : Last(x, o)' <=> Last(x, o)
    BY <1>1, <1>3 DEF Last
  <2>4. \A o \in reported' \ failed' : x \in EpsOf[o] => Pending(x)' /\ Last(x, o)'
    BY <1>1, <1>3, <2>1, <2>3 DEF InOrder
  <2> QED BY <1>1, <1>3, <2>1, <2>2, <2>3, <2>4 DEF InOrder
<1> QED BY <1>2, <1>4, <1>5 DEF OrderInv

\* of single episodes, find_release removes older rows of the episode alone
LEMMA FindOrder ==
    ASSUME IInv, OrderInv, Singles, FindRelease
    PROVE  OrderInv'
<1>1. /\ job.pc = "find" /\ job'.pc = "revert" /\ job'.ep = job.ep /\ job'.todo = job.todo
      /\ UNCHANGED <<status, failed, client, asking, retries, processed, now, origin, reported>>
  BY DEF queueVars, FindRelease, FindClearing, IInv, TypeOK
<1>2. ASSUME NEW e PROVE Newest(e)' = Newest(e)
  <2>1. CASE history' = history
    BY <2>1 DEF Newest, RowsOf
  <2>2. ASSUME NEW r \in Newest(job.ep),
               history' = history \ ({s \in RowsOf(job.ep) : s.date < r.date} \cup
                                     {s \in RowsNamed(Release[r.offer]) :
                                          r.offer \in Offer /\ s.date # r.date})
        PROVE  Newest(e)' = Newest(e)
    <3>1. /\ r \in history /\ r.ep = job.ep /\ r.offer \in Offer /\ r.date \in Nat
          /\ \A s \in history : s.date \in Nat /\ s.offer \in Offer
          /\ \A s \in history : s.ep = job.ep => s.date <= r.date
      BY DEF Newest, RowsOf, IInv, TypeOK, Row
    <3>2. ASSUME NEW s \in history, Release[s.offer] = Release[r.offer]
          PROVE  s.ep = job.ep
      <4>1. EpsOf[s.offer] = EpsOf[r.offer]
        BY <3>1, <3>2, SameRelease DEF IInv
      <4>2. s.ep \in EpsOf[s.offer] /\ r.ep \in EpsOf[r.offer]
        BY <3>1 DEF IInv, RowsInv
      <4> QED BY <3>1, <4>1, <4>2 DEF Singles
    <3>3. CASE e # job.ep
      <4>1. RowsOf(e)' = RowsOf(e)
        BY <2>2, <3>2, <3>3 DEF RowsOf, RowsNamed
      <4> QED BY <4>1, NewestSame
    <3>4. CASE e = job.ep
      <4>1. r \in history' /\ history' \subseteq history
        BY <2>2, <3>1 DEF RowsOf, RowsNamed
      <4>2. \A s \in history' : s.ep = job.ep => s.date = r.date
        BY <2>2, <3>1 DEF RowsOf
      <4>3. \A s \in history : s.ep = job.ep /\ s.date = r.date => s = r
        BY <3>1 DEF IInv, RowsInv
      <4>4. RowsOf(e)' = {r}
        BY <3>1, <3>4, <4>1, <4>2, <4>3 DEF RowsOf
      <4>5. Newest(e)' = {r}
        BY <3>1, <4>4 DEF Newest
      <4>6. \A s \in Newest(e) : s \in history /\ s.ep = job.ep /\ s.date = r.date
        BY <3>1, <3>4 DEF Newest, RowsOf
      <4>7. Newest(e) = {r}
        BY <3>4, <4>3, <4>6
      <4> QED BY <4>5, <4>7
    <3> QED BY <3>3, <3>4
  <2> QED BY <2>1, <2>2 DEF FindRelease, FindClearing
<1>3. OneRetry'
  BY <1>1 DEF OrderInv, OneRetry, Segments
<1>4. /\ \A e : Ours(e)' = Ours(e) /\ (Pending(e)' <=> Pending(e))
      /\ \A o : Apart(o)' <=> Apart(o)
      /\ \A e : ~Sent(e) /\ ~Half(e) /\ ~Given(e) /\ ~Sent(e)' /\ ~Half(e)' /\ ~Given(e)'
      /\ \A e : Tried(e)' <=> Tried(e)
  BY <1>1 DEF Ours, Pending, Segments, Apart, Sent, Half, Tried, Given
<1>5. ASSUME NEW e \in Ep PROVE InOrder(e)'
  <2>1. Untouched(e)
    BY <1>1, <1>2, <1>4 DEF Untouched
  <2> QED BY <2>1, UntouchedStays DEF OrderInv
<1> QED BY <1>3, <1>5 DEF OrderInv

LEMMA RevertOrder ==
    ASSUME IInv, OrderInv, Revert
    PROVE  OrderInv'
<1>0. PICK x \in Ep : x = job.ep
  BY DEF Revert, RevertFrom, IInv, TypeOK, Search, JobInv
<1>1. /\ job.pc = "revert" /\ x \in Ep /\ x \in job.todo
      /\ job'.pc = "blame" /\ job'.ep = x /\ job'.todo = job.todo
      /\ UNCHANGED <<history, failed, client, asking, retries, processed, now, reported>>
  BY <1>0 DEF queueVars, Revert, RevertFrom, IInv, TypeOK, Search, JobInv
<1>2. InOrder(x) /\ Pending(x) /\ Tried(x)
  BY <1>0, <1>1 DEF OrderInv, Pending, Segments, Tried
<1>3. Ours(x) = {} /\ \E o \in Offer : Last(x, o) /\ Apart(o)
  BY <1>2 DEF InOrder
<1>4. PICK r \in Newest(x) : r.old = origin[x]
  BY <1>3 DEF Last
<1>5. RowsOf(x) = {r} /\ origin[x] \in Settled
  <2>1. r \in RowsOf(x)
    BY DEF Newest
  <2> QED BY <1>0, <1>1, <2>1 DEF IInv, Search, FoundInv, TypeOK
<1>6. status' = [status EXCEPT ![x] = r.old]
  BY <1>0, <1>5 DEF Revert, RevertFrom
<1>7. status'[x] = origin[x] /\ \A e \in Ep : e # x => status'[e] = status[e]
  BY <1>0, <1>1, <1>4, <1>6 DEF IInv, TypeOK
<1>8. \A e \in Ep : origin'[e] = origin[e]
  BY <1>0, <1>1, <1>7, <1>5 DEF Revert, RevertFrom, IInv, TypeOK
<1>9. OneRetry'
  BY <1>0, <1>1 DEF OrderInv, OneRetry, Segments
<1>10. /\ \A e : Newest(e)' = Newest(e) /\ Ours(e)' = Ours(e) /\ (Pending(e)' <=> Pending(e))
       /\ \A o : Apart(o)' <=> Apart(o)
       /\ \A e : ~Sent(e) /\ ~Half(e) /\ ~Given(e) /\ (Tried(e) <=> e = x)
       /\ \A e : ~Sent(e)' /\ ~Half(e)' /\ ~Tried(e)' /\ (Given(e)' <=> e = x)
  BY <1>0, <1>1 DEF Newest, RowsOf, Ours, Pending, Segments, Apart, Sent, Half, Tried, Given
<1>11. ASSUME NEW e \in Ep, e # x PROVE InOrder(e)'
  <2>1. Untouched(e)
    BY <1>0, <1>1, <1>7, <1>8, <1>10, <1>11 DEF Untouched
  <2> QED BY <2>1, UntouchedStays DEF OrderInv
<1>12. InOrder(x)'
  <2>1. \A o : Last(x, o)' <=> Last(x, o)
    BY <1>0, <1>1, <1>8, <1>10 DEF Last
  <2>2. status'[x] \in Settled /\ status'[x] # "failed"
    BY <1>5, <1>7 DEF Settled
  <2>3. \A o \in reported' \ failed' : x \in EpsOf[o] => Pending(x)' /\ Last(x, o)'
    BY <1>0, <1>1, <1>2, <1>10, <2>1 DEF InOrder
  <2>4. \E o \in Offer : Last(x, o)' /\ Apart(o)'
    BY <1>3, <1>10, <2>1
  <2> QED BY <1>3, <1>10, <2>2, <2>3, <2>4 DEF InOrder
<1> QED BY <1>0, <1>1, <1>9, <1>11, <1>12 DEF OrderInv

LEMMA BlameOrder ==
    ASSUME IInv, OrderInv, Singles, Blame
    PROVE  OrderInv'
<1>0. PICK x \in Ep : x = job.ep
  BY DEF Blame, IInv, TypeOK, Search, JobInv
<1> DEFINE rows == UNION {RowsNamed(rel) : rel \in job.found}
<1>1. /\ job.pc = "blame" /\ x \in Ep /\ x \in job.todo
      /\ UNCHANGED <<status, client, asking, retries, processed, now, origin, reported>>
      /\ failed \subseteq failed' /\ history' = history \ Removed(rows)
  BY <1>0 DEF queueVars, Blame, IInv, TypeOK, Search, JobInv
<1>2. /\ job.todo = {x}
      /\ \A seg \in Segments(asking) \cup retries : x \notin seg
  BY <1>0, <1>1 DEF OrderInv, OneRetry, Segments
<1>3. job'.pc = "search" /\ job'.todo = {}
  BY <1>0, <1>2 DEF Blame, IInv, TypeOK
<1>4. InOrder(x) /\ Given(x) /\ Pending(x)
  BY <1>0, <1>1 DEF OrderInv, Given, Pending, Segments
<1>5. PICK r \in Newest(x) : TRUE
  BY <1>4 DEF InOrder, Last
<1>6. r \in history /\ r.ep = x /\ Release[r.offer] \in job.found
  BY <1>0, <1>1 DEF Newest, RowsOf, IInv, Search, FoundInv
<1>7. ASSUME NEW s \in history \ history' PROVE s.ep = x
  <2>1. Removed(rows) \in {{}, rows}
    BY RemovedAllOrNone
  <2>2. Release[s.offer] \in job.found
    BY <1>0, <1>1, <2>1 DEF RowsNamed
  <2>3. Release[s.offer] = Release[r.offer]
    BY <1>0, <1>1, <1>6, <2>2 DEF IInv, Search, FoundInv
  <2>4. EpsOf[s.offer] = EpsOf[r.offer] /\ r.offer \in Offer
    BY <1>6, <2>3, SameRelease DEF IInv, TypeOK, Row
  <2>5. s.ep \in EpsOf[s.offer] /\ r.ep \in EpsOf[r.offer]
    BY <1>6 DEF IInv, RowsInv
  <2> QED BY <1>6, <2>4, <2>5 DEF Singles
<1>8. \A e : e # x => RowsOf(e)' = RowsOf(e)
  BY <1>0, <1>1, <1>7 DEF RowsOf
<1>9. \A e : e # x => Newest(e)' = Newest(e)
  BY <1>8, NewestSame
<1>10. OneRetry'
  BY <1>0, <1>1, <1>3 DEF OrderInv, OneRetry, Segments
<1>11. /\ \A e : Ours(e)' = Ours(e) /\ (Pending(e)' <=> Pending(e) /\ e # x)
       /\ \A o : Apart(o)' <=> Apart(o)
       /\ \A e : ~Sent(e) /\ ~Half(e) /\ ~Tried(e) /\ (Given(e) <=> e = x)
       /\ \A e : ~Sent(e)' /\ ~Half(e)' /\ ~Tried(e)' /\ ~Given(e)'
  BY <1>0, <1>1, <1>2, <1>3 DEF Ours, Pending, Segments, Apart, Sent, Half, Tried, Given
<1>12. ASSUME NEW e \in Ep, e # x PROVE InOrder(e)'
  <2>1. Untouched(e)
    BY <1>0, <1>1, <1>9, <1>11, <1>12 DEF Untouched
  <2> QED BY <2>1, UntouchedStays DEF OrderInv
<1>13. InOrder(x)'
  <2>1. Ours(x) = {} /\ status[x] \in Settled /\ status[x] \notin {"snatched", "failed"}
    BY <1>4 DEF InOrder, Settled
  <2>2. ASSUME NEW o \in reported' \ failed', x \in EpsOf[o] PROVE FALSE
    <3>1. Last(x, o)
      BY <1>0, <1>1, <1>4, <2>2 DEF InOrder
    <3>2. PICK s \in RowsOf(x) : s.offer = o
      BY <3>1 DEF Last, Newest
    <3>3. s \in history /\ Release[s.offer] \in job.found
      BY <1>0, <1>1, <3>2 DEF RowsOf, IInv, Search, FoundInv
    <3> QED BY <2>2, <3>2, <3>3, BlameBlocks DEF IInv, Search
  <2> QED BY <1>0, <1>1, <1>11, <2>1, <2>2 DEF InOrder
<1> QED BY <1>0, <1>10, <1>12, <1>13 DEF OrderInv

LEMMA EndRetryOrder ==
    ASSUME IInv, OrderInv, EndRetry
    PROVE  OrderInv'
<1>1. /\ job.pc \in {"search", "over"} /\ job.todo = {} /\ job'.pc = "idle" /\ job'.todo = {}
      /\ UNCHANGED <<status, history, failed, client, asking, retries, processed, now, origin, reported>>
  BY DEF queueVars, IInv, Search, JobInv, EndRetry, NoJob
<1>2. OneRetry'
  BY <1>1 DEF OrderInv, OneRetry, Segments
<1>3. /\ \A e : Newest(e)' = Newest(e) /\ Ours(e)' = Ours(e) /\ (Pending(e)' <=> Pending(e))
      /\ \A o : Apart(o)' <=> Apart(o)
      /\ \A e : ~Sent(e) /\ ~Half(e) /\ ~Tried(e) /\ ~Given(e)
      /\ \A e : ~Sent(e)' /\ ~Half(e)' /\ ~Tried(e)' /\ ~Given(e)'
  BY <1>1 DEF Newest, RowsOf, Ours, Pending, Segments, Apart, Sent, Half, Tried, Given
<1>4. ASSUME NEW e \in Ep PROVE InOrder(e)'
  <2>1. Untouched(e)
    BY <1>1, <1>3 DEF Untouched
  <2> QED BY <2>1, UntouchedStays DEF OrderInv
<1> QED BY <1>2, <1>4 DEF OrderInv

\* what the client ends is recorded, and no retry is at it
LEMMA EndsSnatched ==
    ASSUME IInv, OrderInv, NEW d \in client, Ends(d), NEW x \in Ep, x \in EpsOf[d.offer]
    PROVE  /\ d \in Ours(x) /\ status[x] = "snatched" /\ Last(x, d.offer)
           /\ ~Pending(x) /\ ~Sent(x) /\ ~Half(x) /\ ~Tried(x) /\ ~Given(x)
           /\ client' = client \ {d} /\ Ours(x)' = {}
<1>1. InOrder(x) /\ d \in Ours(x)
  BY DEF OrderInv, Ours
<1>2. ~Sent(x)
  <2> SUFFICES ASSUME Sent(x) PROVE FALSE
    OBVIOUS
  <2>1. job.offer \in Offer /\ x \in EpsOf[job.offer] /\ job.pc \in {"record", "status"}
    BY DEF Sent, IInv, Search, JobInv
  <2>2. Sending \in Ours(x)
    BY <1>1, <2>1 DEF InOrder, Ours, Sending
  <2>3. d = Sending
    BY <1>1, <2>2 DEF InOrder
  <2>4. d.date = now
    BY <2>3 DEF Sending
  <2> QED BY <2>1, <2>4 DEF Ends
<1>3. status[x] = "snatched" /\ Last(x, d.offer) /\ ~Pending(x)
  BY <1>1, <1>2 DEF InOrder
<1>4. ~Half(x) /\ ~Tried(x) /\ ~Given(x)
  <2>1. Half(x) => Sent(x)
    BY DEF Half, Sent
  <2>2. ~Tried(x)
    BY <1>1, <1>3 DEF InOrder
  <2>3. ~Given(x)
    BY <1>1, <1>3 DEF InOrder, Settled
  <2> QED BY <1>2, <2>1, <2>2, <2>3
<1>5. client' = client \ {d}
  BY DEF Ends
<1>6. Ours(x)' = {}
  BY <1>1, <1>5 DEF InOrder, Ours
<1> QED BY <1>1, <1>2, <1>3, <1>4, <1>5, <1>6

LEMMA QueueRetryOrder ==
    ASSUME IInv, OrderInv, NEW a \in asking, QueueRetry(a)
    PROVE  OrderInv'
<1>1. /\ retries' = retries \cup {a.segment} /\ asking' = asking \ {a}
      /\ UNCHANGED <<status, history, failed, client, job, processed, now, origin, reported>>
  BY DEF QueueRetry, Appended
<1>2. Segments(asking)' \cup retries' = Segments(asking) \cup retries
  BY <1>1 DEF Segments
<1>a. Segments(asking)' \cap retries' = {}
  BY <1>1 DEF OrderInv, OneRetry, Segments
<1>3. OneRetry'
  BY <1>1, <1>2, <1>a DEF OrderInv, OneRetry
<1>4. /\ \A e : Newest(e)' = Newest(e) /\ Ours(e)' = Ours(e) /\ (Pending(e)' <=> Pending(e))
      /\ \A o : Apart(o)' <=> Apart(o)
      /\ \A e : (Sent(e)' <=> Sent(e)) /\ (Half(e)' <=> Half(e))
      /\ \A e : (Tried(e)' <=> Tried(e)) /\ (Given(e)' <=> Given(e))
  BY <1>1, <1>2 DEF Newest, RowsOf, Ours, Pending, Apart, Sent, Half, Tried, Given
<1>5. ASSUME NEW e \in Ep PROVE InOrder(e)'
  <2>1. Untouched(e)
    BY <1>1, <1>4 DEF Untouched
  <2> QED BY <2>1, UntouchedStays DEF OrderInv
<1> QED BY <1>3, <1>5 DEF OrderInv

LEMMA FailsOrder ==
    ASSUME IInv, OrderInv, Singles, NEW d \in client, Fails(d)
    PROVE  OrderInv'
<1>1. d.offer \in Offer
  BY DEF IInv, TypeOK
<1>2. PICK x \in Ep : EpsOf[d.offer] = {x}
  BY <1>1 DEF Singles
<1>3. Ends(d)
  BY DEF Fails
<1>4. /\ d \in Ours(x) /\ status[x] = "snatched" /\ Last(x, d.offer)
      /\ ~Pending(x) /\ ~Sent(x) /\ ~Half(x) /\ ~Tried(x) /\ ~Given(x)
      /\ client' = client \ {d} /\ Ours(x)' = {}
  BY <1>2, <1>3, EndsSnatched
<1>5. /\ retries' = retries /\ Segments(asking)' = Segments(asking) \cup {{x}}
      /\ reported' = reported \cup {d.offer}
      /\ UNCHANGED <<status, history, failed, job, processed, now, origin>>
  <2> DEFINE a == [by |-> "client", at |-> d.date, segment |-> {x}]
  <2>1. asking' = asking \cup {a} /\ a.segment = {x}
    <3>1. {[by |-> "client", at |-> d.date, segment |-> {e}] : e \in EpsOf[d.offer]} = {a}
      BY <1>2
    <3> QED BY <3>1 DEF Fails
  <2>2. Segments(asking)' = Segments(asking) \cup {{x}}
    <3> HIDE DEF a
    <3>1. \A g : (\E b \in asking' : g = b.segment) <=> (\E b \in asking : g = b.segment) \/ g = {x}
      BY <2>1
    <3>2. /\ \A g : g \in Segments(asking)' <=> \E b \in asking' : g = b.segment
          /\ \A g : g \in Segments(asking) <=> \E b \in asking : g = b.segment
      BY DEF Segments
    <3>3. \A g : g \in Segments(asking)' <=> g \in Segments(asking) \cup {{x}}
      BY <3>1, <3>2
    <3> QED BY <3>3
  <2> QED BY <2>1, <2>2 DEF Fails
<1>6. OneRetry'
  <2>1. \A seg \in Segments(asking) \cup retries : x \notin seg
    BY <1>4 DEF Pending
  <2>2. \A b \in asking : b.segment \in Segments(asking)
    BY DEF Segments
  <2>3. \A b, c \in asking' : b.segment = c.segment => b = c
    <3> DEFINE a == [by |-> "client", at |-> d.date, segment |-> {x}]
    <3>1. a.segment = {x}  OBVIOUS
    <3>2. \A b \in asking' : b \in asking \/ b = a
      BY <1>2 DEF Fails
    <3> HIDE DEF a
    <3> QED BY <2>1, <2>2, <3>1, <3>2 DEF OrderInv, OneRetry
  <2> QED BY <1>4, <1>5, <2>1, <2>3 DEF OrderInv, OneRetry, Pending
<1>7. /\ \A e : Newest(e)' = Newest(e) /\ (Pending(e)' <=> Pending(e) \/ e = x)
      /\ \A o : Apart(o)' <=> Apart(o)
      /\ \A e : (Sent(e)' <=> Sent(e)) /\ (Half(e)' <=> Half(e))
      /\ \A e : (Tried(e)' <=> Tried(e)) /\ (Given(e)' <=> Given(e))
  BY <1>5 DEF Newest, RowsOf, Pending, Segments, Apart, Sent, Half, Tried, Given
<1>8. ASSUME NEW e \in Ep, e # x PROVE InOrder(e)'
  <2>1. Ours(e)' = Ours(e)
    BY <1>2, <1>4, <1>8 DEF Ours
  <2>2. Untouched(e)
    BY <1>2, <1>5, <1>7, <1>8, <2>1 DEF Untouched
  <2> QED BY <2>2, UntouchedStays DEF OrderInv
<1>9. InOrder(x)'
  <2>1. InOrder(x)
    BY DEF OrderInv
  <2>2. \A o : Last(x, o)' <=> Last(x, o)
    BY <1>5, <1>7 DEF Last
  <2>3. \A o \in reported' \ failed' : x \in EpsOf[o] => Pending(x)' /\ Last(x, o)'
    BY <1>4, <1>5, <1>7, <2>1, <2>2 DEF InOrder
  <2>4. \E o \in Offer : Last(x, o)' /\ Apart(o)'
    BY <1>4, <1>7, <2>1, <2>2 DEF InOrder
  <2> QED BY <1>4, <1>5, <1>7, <2>3, <2>4 DEF InOrder
<1> QED BY <1>6, <1>8, <1>9 DEF OrderInv

LEMMA DownloadedOrder ==
    ASSUME IInv, OrderInv, Singles, NEW d \in client, Downloaded(d)
    PROVE  OrderInv'
<1>1. d.offer \in Offer
  BY DEF IInv, TypeOK
<1>2. PICK x \in Ep : EpsOf[d.offer] = {x}
  BY <1>1 DEF Singles
<1>3. Ends(d)
  BY DEF Downloaded
<1>4. /\ d \in Ours(x) /\ status[x] = "snatched" /\ Last(x, d.offer)
      /\ ~Pending(x) /\ ~Sent(x) /\ ~Half(x) /\ ~Tried(x) /\ ~Given(x)
      /\ client' = client \ {d} /\ Ours(x)' = {}
  BY <1>2, <1>3, EndsSnatched
<1>5. /\ status' = [e \in Ep |-> IF e \in EpsOf[d.offer] THEN "downloaded" ELSE status[e]]
      /\ origin' = [e \in Ep |-> IF e \in EpsOf[d.offer] THEN "downloaded" ELSE origin[e]]
      /\ processed = None /\ processed' = d.offer
      /\ UNCHANGED <<history, failed, asking, retries, job, now, reported>>
  BY DEF queueVars, Downloaded
<1>6. OneRetry'
  BY <1>5 DEF OrderInv, OneRetry, Segments
<1>7. /\ \A e : Newest(e)' = Newest(e) /\ (Pending(e)' <=> Pending(e))
      /\ \A e : (Sent(e)' <=> Sent(e)) /\ (Half(e)' <=> Half(e))
      /\ \A e : (Tried(e)' <=> Tried(e)) /\ (Given(e)' <=> Given(e))
  BY <1>5 DEF Newest, RowsOf, Pending, Segments, Sent, Half, Tried, Given
<1>8. ASSUME NEW e \in Ep, e # x PROVE InOrder(e)'
  <2>1. Ours(e)' = Ours(e)
    BY <1>2, <1>4, <1>8 DEF Ours
  <2>2. status'[e] = status[e] /\ origin'[e] = origin[e]
    BY <1>2, <1>5, <1>8
  \* another episode's releases are others
  <2>3. \A o \in Offer : e \in EpsOf[o] => Apart(o)'
    BY <1>1, <1>2, <1>5, <1>8, FailedAssumption DEF Apart
  <2>4. Untouched(e)
    BY <1>5, <1>7, <2>1, <2>2, <2>3 DEF Untouched
  <2> QED BY <2>4, UntouchedStays DEF OrderInv
<1>9. InOrder(x)'
  <2>1. InOrder(x)
    BY DEF OrderInv
  <2>2. status'[x] = "downloaded"
    BY <1>2, <1>5
  <2>3. \A o \in reported' \ failed' : x \notin EpsOf[o]
    BY <1>4, <1>5, <2>1 DEF InOrder
  <2> QED BY <1>4, <1>5, <1>7, <2>2, <2>3 DEF InOrder
<1> QED BY <1>6, <1>8, <1>9 DEF OrderInv

\* remove_failed takes the rows of the release that succeeded, and an episode
\* that still needs a row needs that of another release
LEMMA ForgetOrder ==
    ASSUME IInv, OrderInv, NEW known \in BOOLEAN, Forget(known)
    PROVE  OrderInv'
<1>1. /\ history' \subseteq history
      /\ \A r \in history \ history' : Release[r.offer] = Release[processed]
      /\ processed # None /\ processed' = None
      /\ UNCHANGED <<status, failed, client, asking, retries, job, now, origin, reported>>
  BY DEF queueVars, Forget, RowsNamed
<1>2. OneRetry'
  BY <1>1 DEF OrderInv, OneRetry, Segments
<1>3. /\ \A e : Ours(e)' = Ours(e) /\ (Pending(e)' <=> Pending(e))
      /\ \A o : Apart(o)'
      /\ \A e : (Sent(e)' <=> Sent(e)) /\ (Half(e)' <=> Half(e))
      /\ \A e : (Tried(e)' <=> Tried(e)) /\ (Given(e)' <=> Given(e))
      /\ Sending' = Sending
  BY <1>1 DEF Ours, Pending, Segments, Apart, Sent, Half, Tried, Given, Sending
<1>4. ASSUME NEW e, NEW o, Last(e, o), Apart(o) PROVE Last(e, o)'
  <2>1. PICK r \in Newest(e) : r.offer = o /\ r.old = origin[e]
    BY <1>4 DEF Last
  <2>2. r \in history'
    BY <1>1, <1>4, <2>1 DEF Newest, RowsOf, Apart
  <2> QED BY <1>1, <2>1, <2>2, NewestStays DEF Last
<1>5. ASSUME NEW e \in Ep PROVE InOrder(e)'
  <2>1. InOrder(e)
    BY DEF OrderInv
  \* the newest row is one row
  <2>2. ASSUME NEW o, NEW q, Last(e, o), Last(e, q) PROVE o = q
    <3>1. PICK r \in Newest(e), s \in Newest(e) : r.offer = o /\ s.offer = q
      BY <2>2 DEF Last
    <3>2. /\ r \in history /\ s \in history /\ r.date <= s.date /\ s.date <= r.date
          /\ r.date \in Nat /\ s.date \in Nat
      BY DEF Newest, RowsOf, IInv, TypeOK, Row
    <3>3. r.date = s.date
      BY <3>2
    <3> QED BY <3>1, <3>2, <3>3 DEF IInv, RowsInv
  <2>3. ASSUME NEW o, Last(e, o), status[e] \in {"snatched", "failed"} \/ Given(e)
        PROVE  Last(e, o)'
    <3>1. PICK q \in Offer : Last(e, q) /\ Apart(q)
      BY <2>1, <2>3 DEF InOrder
    <3>2. o = q
      BY <2>2, <2>3, <3>1
    <3> QED BY <1>4, <3>1, <3>2
  <2>4. \A d \in Ours(e)' : \/ Sent(e)' /\ d = Sending'
                            \/ status'[e] = "snatched" /\ Last(e, d.offer)'
    <3> SUFFICES ASSUME NEW d \in Ours(e), ~(Sent(e) /\ d = Sending)
                 PROVE  status[e] = "snatched" /\ Last(e, d.offer)'
      BY <1>1, <1>3
    <3> QED BY <2>1, <2>3 DEF InOrder
  <2>5. Half(e)' => Last(e, job.offer)'
    <3> SUFFICES ASSUME Half(e) PROVE Last(e, job.offer)'
      BY <1>3
    <3>1. Last(e, job.offer) /\ Sent(e)
      BY <2>1 DEF InOrder, Half, Sent
    <3>2. Last(e, job.offer) /\ Apart(job.offer)
      BY <2>1, <3>1 DEF InOrder
    <3>3. PICK o : o = job.offer
      OBVIOUS
    <3>4. Last(e, o)' /\ job'.offer = o
      BY <1>1, <1>4, <3>2, <3>3
    <3> QED BY <3>4 DEF Last
  <2>6. status'[e] \in {"snatched", "failed"} \/ Given(e)' => \E o \in Offer : Last(e, o)' /\ Apart(o)'
    BY <1>1, <1>3, <2>1, <2>3 DEF InOrder
  <2>7. \A o \in reported' \ failed' : e \in EpsOf[o] => Pending(e)' /\ Last(e, o)'
    BY <1>1, <1>3, <2>1, <2>3 DEF InOrder
  <2>8. Sent(e)' => Sending' \in client' /\ Apart(job.offer)' /\ status'[e] \in Settled
    BY <1>1, <1>3, <2>1 DEF InOrder
  <2> QED BY <1>1, <1>3, <2>1, <2>4, <2>5, <2>6, <2>7, <2>8 DEF InOrder
<1> QED BY <1>2, <1>5 DEF OrderInv

LEMMA OrderStep ==
    ASSUME IInv, OrderInv, Singles, [Next]_vars, [Orderly]_vars
    PROVE  OrderInv'
<1>1. CASE UNCHANGED vars
  BY <1>1 DEF vars, queueVars, OrderInv, OneRetry, InOrder, Ours, Pending, Segments, Sent, Half, Tried, Given, Last,
              Newest, RowsOf, Sending, Apart
<1>2. ASSUME Next, Orderly PROVE OrderInv'
  <2>1. UNCHANGED asked /\ ~Crash
    BY <1>2 DEF Orderly
  <2>2. ~Asks
    BY <2>1 DEF Asks, IInv, TypeOK
  <2>3. /\ \A e : ~AskRetry(e) /\ ~SetStatus(e, "wanted") /\ ~SetStatus(e, "ignored")
        /\ \A seg : ~SetFailed(seg) /\ ~RemoveRetries(seg)
        /\ ~ClearRetries /\ (\A rel : ~Unblock(rel)) /\ ~Raises
    BY <2>2 DEF AskRetry, SetStatus, SetFailed, RemoveRetries, ClearRetries, Unblock, Raises
  <2> QED BY <1>2, <2>1, <2>3, SendOrder, RecordOrder, SetSnatchedOrder, TakeRetryOrder,
             MarkFailedOrder, FindOrder, RevertOrder, BlameOrder, EndRetryOrder, QueueRetryOrder,
             FailsOrder, DownloadedOrder, ForgetOrder
      DEF Next, Worker
<1>3. CASE Next /\ Orderly
  BY <1>2, <1>3
<1> QED BY <1>1, <1>3

\* Nothing is lost: the newest row of a snatched episode holds the status it
\* had before.  Nothing is missed: an offer that was reported is blocked, or its
\* retry is on its way.  And an episode counts as failed only while its retry
\* is at it.
NothingExcused ==
    /\ \A e \in Ep : status[e] = "snatched" => \E r \in Newest(e) : r.old = origin[e]
    /\ \A o \in reported : o \in failed \/ \E e \in EpsOf[o] : Pending(e)
    /\ \A e \in Ep : status[e] = "failed" => e = job.ep /\ job.pc \in {"find", "revert"}

\* snatch_episode, FailedProcessor, FailedQueueItem and remove_failed, when nothing
\* but they acts and releases are of one episode each, need none of the excuses of
\* SnatchCanBeUndone, ReportedIsBlocked and FailedIsRetried, for any number of
\* episodes and offers and in whatever order failures and successes come in.
THEOREM OrderlyNothingExcused ==
    ASSUME Singles
    PROVE  Spec /\ [][Orderly]_vars => []NothingExcused
<1>1. Init => OrderInv
  <2> SUFFICES ASSUME Init PROVE OrderInv
    OBVIOUS
  <2>1. \A e \in Ep : status[e] \in Settled /\ status[e] \notin {"snatched", "failed"}
    BY FailedAssumption DEF Init, Settled
  <2> QED BY <2>1 DEF OrderInv, Init, NoJob, OneRetry, InOrder, Ours, Pending, Segments, Sent, Half, Tried, Given
<1>2. IInv /\ OrderInv /\ [Next]_vars /\ [Orderly]_vars => OrderInv'
  BY OrderStep
<1>3. IInv /\ OrderInv => NothingExcused
  <2> SUFFICES ASSUME IInv, OrderInv PROVE NothingExcused
    OBVIOUS
  <2>1. \A e \in Ep : status[e] = "snatched" => \E r \in Newest(e) : r.old = origin[e]
    BY DEF OrderInv, InOrder, Last
  <2>2. ASSUME NEW o \in reported, o \notin failed PROVE \E e \in EpsOf[o] : Pending(e)
    <3>1. PICK e \in Ep : EpsOf[o] = {e}
      BY DEF Singles, IInv, TypeOK
    <3> QED BY <2>2, <3>1 DEF OrderInv, InOrder
  <2>3. \A e \in Ep : status[e] = "failed" => e = job.ep /\ job.pc \in {"find", "revert"}
    BY DEF OrderInv, InOrder, Tried
  <2> QED BY <2>1, <2>2, <2>3 DEF NothingExcused
<1> QED BY <1>1, <1>2, <1>3, Invariant, PTL DEF Spec
=============================================================================
