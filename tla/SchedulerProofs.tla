-------------------------- MODULE SchedulerProofs --------------------------
(***************************************************************************)
(* What Scheduler promises for any number of threads: its type and the     *)
(* three safety properties, each from an invariant about one of the flags. *)
(***************************************************************************)
EXTENDS Scheduler, TLAPS

Bits == /\ stopper \in BOOLEAN /\ unpaused \in BOOLEAN /\ enabled \in BOOLEAN
        /\ force \in BOOLEAN /\ due \in BOOLEAN /\ prevented \in BOOLEAN
        /\ amActive \in BOOLEAN /\ shouldRun \in BOOLEAN /\ stopped \in BOOLEAN
        /\ promised \in BOOLEAN /\ late \in BOOLEAN /\ dropped \in BOOLEAN
        /\ shared \in BOOLEAN /\ overlapped \in BOOLEAN /\ overtaken \in BOOLEAN

Places == /\ pc \in [Threads -> SchedSteps \cup CallerSteps]
          /\ pc[Sched] \in SchedSteps
          /\ \A c \in Callers : pc[c] \in CallerSteps

\* No two threads change the setting without a note of it, and whoever has read
\* the setting has read the one that holds.
SettingInv ==
    /\ stopper => stopped
    /\ ~overlapped =>
          /\ \A t, u \in Changing : t = u
          /\ \A t \in Threads : /\ At(t, "pause") => ~enabled
                                /\ At(t, "unpause") => enabled
          /\ (Changing = {} /\ ~stopped) => (unpaused <=> enabled)

\* No two threads are inside the job without a note of it.
ActiveInv ==
    /\ amActive => Inside # {}
    /\ ~shared => /\ amActive <=> Inside # {}
                  /\ \A t, u \in Inside : t = u

\* A flag that was there when the cycle looked makes it run or is dropped for
\* a queue that prevents it.
ForceInv ==
    /\ promised => force \/ dropped
    /\ (promised /\ ~late /\ ~dropped) =>
          /\ pc[Sched] \notin {"inside", "end"}
          /\ At(Sched, "prevent") => shouldRun

LEMMA Parts == TypeOK <=> Bits /\ Places
  BY DEF TypeOK, Bits, Places

LEMMA TypeInit == Init => Bits /\ Places
  BY SchedulerAssumption DEF Init, Bits, Places, Threads, SchedSteps, CallerSteps

LEMMA TypeNext ==
  ASSUME Bits, Places, [Next]_vars
  PROVE  Bits' /\ Places'
<1> USE SchedulerAssumption DEF Threads, Goes, At
<1> USE DEF Bits, Places, SchedSteps, CallerSteps
<1>1. ASSUME NEW c \in Callers, SaveSetting(c) PROVE Bits' /\ Places'
  BY <1>1 DEF SaveSetting
<1>2. ASSUME NEW c \in Callers, AskForce(c) PROVE Bits' /\ Places'
  BY <1>2 DEF AskForce
<1>3. ASSUME NEW c \in Callers, SetForce(c) PROVE Bits' /\ Places'
  BY <1>3 DEF SetForce
<1>4. ASSUME NEW c \in Callers, RunNow(c) PROVE Bits' /\ Places'
  BY <1>4 DEF RunNow, Enter
<1>5. ASSUME NEW c \in Callers, NowEnds(c) PROVE Bits' /\ Places'
  <2> DEFINE b == (shared /\ Inside # {c})
  <2>3. b \in BOOLEAN
    BY ZenonT(20)
  <2>4. shared' = b
    BY <1>5 DEF NowEnds, Leave
  <2> HIDE DEF b
  <2>5. shared' \in BOOLEAN
    BY <2>3, <2>4
  <2>6. /\ amActive' = FALSE
        /\ UNCHANGED <<stopper, unpaused, enabled, force, due, prevented, shouldRun,
                        stopped, promised, late, dropped, overlapped, overtaken>>
    BY <1>5 DEF NowEnds, Leave
  <2>1. Bits'
    BY <2>5, <2>6, ZenonT(30) DEF Bits
  <2>2. Places'
    BY <1>5 DEF NowEnds, Leave
  <2> QED
    BY <2>1, <2>2
<1>6. ASSUME NEW t \in Threads, Decide(t) PROVE Bits' /\ Places'
  BY <1>6 DEF Decide
<1>7. ASSUME NEW t \in Threads, Apply(t) PROVE Bits' /\ Places'
  BY <1>7 DEF Apply
<1>8. ASSUME NEW onTime \in BOOLEAN, Look(onTime) PROVE Bits' /\ Places'
  BY <1>8 DEF Look
<1>9. CASE Wait
  BY <1>9 DEF Wait
<1>10. CASE Test
  <2>1. Bits'
    <3>1. stopper' \in BOOLEAN /\ unpaused' \in BOOLEAN
      BY <1>10 DEF Test
    <3>2. UNCHANGED <<enabled, force, due, prevented, amActive, shouldRun, stopped,
                      promised, late, dropped, shared, overlapped, overtaken>>
      BY <1>10 DEF Test
    <3> QED
      BY <3>1, <3>2
  <2>2. Places'
    BY <1>10 DEF Test
  <2> QED
    BY <2>1, <2>2
<1>11. CASE Prevent
  BY <1>11 DEF Prevent
<1>12. CASE Run
  BY <1>12 DEF Run, Enter
<1>13. CASE RunEnds
  <2> DEFINE b == (shared /\ Inside # {Sched})
  <2>3. b \in BOOLEAN
    BY ZenonT(20)
  <2>4. shared' = b
    BY <1>13 DEF RunEnds, Leave
  <2> HIDE DEF b
  <2>5. shared' \in BOOLEAN
    BY <2>3, <2>4
  <2>6. /\ amActive' = FALSE
        /\ UNCHANGED <<stopper, unpaused, enabled, force, due, prevented, shouldRun,
                        stopped, promised, late, dropped, overlapped, overtaken>>
    BY <1>13 DEF RunEnds, Leave
  <2>1. Bits'
    BY <2>5, <2>6, ZenonT(30) DEF Bits
  <2>2. Places'
    BY <1>13 DEF RunEnds, Leave
  <2> QED
    BY <2>1, <2>2
<1>14. CASE CycleEnds
  BY <1>14 DEF CycleEnds
<1>15. CASE Tick
  BY <1>15 DEF Tick
<1>17. CASE QueueChanges
  BY <1>17 DEF QueueChanges
<1>18. CASE Stopit
  BY <1>18 DEF Stopit
<1>16. CASE UNCHANGED vars
  BY <1>16 DEF vars
<1> QED
  BY <1>1, <1>2, <1>3, <1>4, <1>5, <1>6, <1>7, <1>8, <1>9, <1>10, <1>11, <1>12, <1>13,
     <1>14, <1>15, <1>16, <1>17, <1>18 DEF Next, SchedStep

\* A thread of the program is always at a step of its own code.
THEOREM Typed == Spec => []TypeOK
<1>1. Init => Bits /\ Places
  BY TypeInit
<1>2. Bits /\ Places /\ [Next]_vars => Bits' /\ Places'
  BY TypeNext
<1>3. Bits /\ Places => TypeOK
  BY Parts
<1> QED
  BY <1>1, <1>2, <1>3, PTL DEF Spec

-----------------------------------------------------------------------------
LEMMA SettingNext ==
  ASSUME Bits, Places, Places', SettingInv, [Next]_vars
  PROVE  SettingInv'
<1> USE SchedulerAssumption DEF Threads, Goes, At, Changing
<1> USE DEF Bits, Places, SettingInv, SchedSteps, CallerSteps
<1>1. ASSUME NEW c \in Callers, SaveSetting(c) PROVE SettingInv'
  BY <1>1 DEF SaveSetting
<1>2. ASSUME NEW c \in Callers, AskForce(c) PROVE SettingInv'
  BY <1>2 DEF AskForce
<1>3. ASSUME NEW c \in Callers, SetForce(c) PROVE SettingInv'
  BY <1>3 DEF SetForce
<1>4. ASSUME NEW c \in Callers, RunNow(c) PROVE SettingInv'
  BY <1>4 DEF RunNow
<1>5. ASSUME NEW c \in Callers, NowEnds(c) PROVE SettingInv'
  BY <1>5 DEF NowEnds
<1>6. ASSUME NEW t \in Threads, Decide(t) PROVE SettingInv'
  BY <1>6 DEF Decide
<1>7. ASSUME NEW t \in Threads, Apply(t) PROVE SettingInv'
  BY <1>7 DEF Apply
<1>8. ASSUME NEW onTime \in BOOLEAN, Look(onTime) PROVE SettingInv'
  BY <1>8 DEF Look
<1>9. CASE Wait
  BY <1>9 DEF Wait
<1>10. CASE Test
  BY <1>10 DEF Test
<1>11. CASE Prevent
  BY <1>11 DEF Prevent
<1>12. CASE Run
  BY <1>12 DEF Run
<1>13. CASE RunEnds
  BY <1>13 DEF RunEnds
<1>14. CASE CycleEnds
  BY <1>14 DEF CycleEnds
<1>15. CASE Tick \/ QueueChanges \/ Stopit
  BY <1>15 DEF Tick, QueueChanges, Stopit
<1>16. CASE UNCHANGED vars
  BY <1>16 DEF vars
<1> QED
  BY <1>1, <1>2, <1>3, <1>4, <1>5, <1>6, <1>7, <1>8, <1>9, <1>10, <1>11, <1>12, <1>13,
     <1>14, <1>15, <1>16 DEF Next, SchedStep

LEMMA ActiveNext ==
  ASSUME Bits, Places, Places', ActiveInv, [Next]_vars
  PROVE  ActiveInv'
<1> USE SchedulerAssumption DEF Threads, Goes, At, Inside
<1> USE DEF Bits, Places, ActiveInv, SchedSteps, CallerSteps
<1>1. ASSUME NEW c \in Callers, SaveSetting(c) PROVE ActiveInv'
  BY <1>1 DEF SaveSetting
<1>2. ASSUME NEW c \in Callers, AskForce(c) PROVE ActiveInv'
  BY <1>2 DEF AskForce
<1>3. ASSUME NEW c \in Callers, SetForce(c) PROVE ActiveInv'
  BY <1>3 DEF SetForce
<1>4. ASSUME NEW c \in Callers, RunNow(c) PROVE ActiveInv'
  BY <1>4 DEF RunNow, Enter
<1>5. ASSUME NEW c \in Callers, NowEnds(c) PROVE ActiveInv'
  BY <1>5 DEF NowEnds, Leave
<1>6. ASSUME NEW t \in Threads, Decide(t) PROVE ActiveInv'
  BY <1>6 DEF Decide
<1>7. ASSUME NEW t \in Threads, Apply(t) PROVE ActiveInv'
  BY <1>7 DEF Apply
<1>8. ASSUME NEW onTime \in BOOLEAN, Look(onTime) PROVE ActiveInv'
  BY <1>8 DEF Look
<1>9. CASE Wait
  BY <1>9 DEF Wait
<1>10. CASE Test
  BY <1>10 DEF Test
<1>11. CASE Prevent
  BY <1>11 DEF Prevent
<1>12. CASE Run
  BY <1>12 DEF Run, Enter
<1>13. CASE RunEnds
  BY <1>13 DEF RunEnds, Leave
<1>14. CASE CycleEnds
  BY <1>14 DEF CycleEnds
<1>15. CASE Tick \/ QueueChanges \/ Stopit
  BY <1>15 DEF Tick, QueueChanges, Stopit
<1>16. CASE UNCHANGED vars
  BY <1>16 DEF vars
<1> QED
  BY <1>1, <1>2, <1>3, <1>4, <1>5, <1>6, <1>7, <1>8, <1>9, <1>10, <1>11, <1>12, <1>13,
     <1>14, <1>15, <1>16 DEF Next, SchedStep

LEMMA ForceNext ==
  ASSUME Bits, Places, Places', ForceInv, [Next]_vars
  PROVE  ForceInv'
<1> USE SchedulerAssumption DEF Threads, Goes, At
<1> USE DEF Bits, Places, ForceInv, SchedSteps, CallerSteps
<1>1. ASSUME NEW c \in Callers, SaveSetting(c) PROVE ForceInv'
  BY <1>1 DEF SaveSetting
<1>2. ASSUME NEW c \in Callers, AskForce(c) PROVE ForceInv'
  BY <1>2 DEF AskForce
<1>3. ASSUME NEW c \in Callers, SetForce(c) PROVE ForceInv'
  BY <1>3 DEF SetForce
<1>4. ASSUME NEW c \in Callers, RunNow(c) PROVE ForceInv'
  BY <1>4 DEF RunNow
<1>5. ASSUME NEW c \in Callers, NowEnds(c) PROVE ForceInv'
  BY <1>5 DEF NowEnds
<1>6. ASSUME NEW t \in Threads, Decide(t) PROVE ForceInv'
  BY <1>6 DEF Decide
<1>7. ASSUME NEW t \in Threads, Apply(t) PROVE ForceInv'
  BY <1>7 DEF Apply
<1>8. ASSUME NEW onTime \in BOOLEAN, Look(onTime) PROVE ForceInv'
  BY <1>8 DEF Look
<1>9. CASE Wait
  BY <1>9 DEF Wait
<1>10. CASE Test
  BY <1>10 DEF Test
<1>11. CASE Prevent
  BY <1>11 DEF Prevent
<1>12. CASE Run
  BY <1>12 DEF Run
<1>13. CASE RunEnds
  BY <1>13 DEF RunEnds
<1>14. CASE CycleEnds
  BY <1>14 DEF CycleEnds
<1>15. CASE Tick \/ QueueChanges \/ Stopit
  BY <1>15 DEF Tick, QueueChanges, Stopit
<1>16. CASE UNCHANGED vars
  BY <1>16 DEF vars
<1> QED
  BY <1>1, <1>2, <1>3, <1>4, <1>5, <1>6, <1>7, <1>8, <1>9, <1>10, <1>11, <1>12, <1>13,
     <1>14, <1>15, <1>16 DEF Next, SchedStep

-----------------------------------------------------------------------------
\* The event of a thread follows the setting through any number of saves that
\* do not overlap: set_paused_state needs no lock for that.
THEOREM PauseFollows == Spec => []PauseFollowsSetting
<1>1. Init => Bits /\ Places /\ SettingInv
  <2> SUFFICES ASSUME Init PROVE SettingInv
    BY TypeInit
  <2>1. Changing = {Sched}
    BY SchedulerAssumption DEF Init, Changing, Threads
  <2>2. \A t \in Threads : pc[t] \notin {"pause", "unpause"}
    BY DEF Init
  <2> QED
    BY <2>1, <2>2 DEF Init, SettingInv, At
<1>2. Bits /\ Places /\ SettingInv /\ [Next]_vars => Bits' /\ Places' /\ SettingInv'
  BY TypeNext, SettingNext
<1>3. SettingInv => PauseFollowsSetting
  BY DEF SettingInv, PauseFollowsSetting
<1> QED
  BY <1>1, <1>2, <1>3, PTL DEF Spec

\* amActive tells whether a thread is in the job, for any number of threads
\* that do not overlap in it, and is never left up by those that do.
THEOREM ActiveTells == Spec => []ActiveMeansInside
<1>1. Init => Bits /\ Places /\ ActiveInv
  BY TypeInit DEF Init, ActiveInv, Inside, At, Threads
<1>2. Bits /\ Places /\ ActiveInv /\ [Next]_vars => Bits' /\ Places' /\ ActiveInv'
  BY TypeNext, ActiveNext
<1>3. ActiveInv => ActiveMeansInside
  BY DEF ActiveInv, ActiveMeansInside
<1> QED
  BY <1>1, <1>2, <1>3, PTL DEF Spec

\* A granted force_run is lost in two ways only: the flag came after the look,
\* or the cycle was prevented.
THEOREM ForceKept == Spec => []ForceIsKept
<1>1. Init => Bits /\ Places /\ ForceInv
  BY TypeInit DEF Init, ForceInv
<1>2. Bits /\ Places /\ ForceInv /\ [Next]_vars => Bits' /\ Places' /\ ForceInv'
  BY TypeNext, ForceNext
<1>3. ForceInv => ForceIsKept
  BY DEF ForceInv, ForceIsKept
<1> QED
  BY <1>1, <1>2, <1>3, PTL DEF Spec

-----------------------------------------------------------------------------
\* Until the thread has ended, stopit's event stays, and the pause of a stopped
\* thread is one that was applied after it.
StopInv ==
    stopped /\ ~At(Sched, "exited") => stopper /\ (unpaused \/ overtaken)

LEMMA StopNext ==
  ASSUME Bits, Places, StopInv, [Next]_vars
  PROVE  StopInv'
<1> USE SchedulerAssumption DEF Threads, Goes, At
<1> USE DEF Bits, Places, StopInv, SchedSteps, CallerSteps
<1>1. ASSUME NEW c \in Callers,
             SaveSetting(c) \/ AskForce(c) \/ SetForce(c) \/ RunNow(c) \/ NowEnds(c)
      PROVE  StopInv'
  <2>1. pc'[Sched] = pc[Sched]
    BY <1>1 DEF SaveSetting, AskForce, SetForce, RunNow, NowEnds
  <2> QED
    BY <1>1, <2>1 DEF SaveSetting, AskForce, SetForce, RunNow, NowEnds
<1>2. ASSUME NEW t \in Threads, Decide(t) PROVE StopInv'
  BY <1>2 DEF Decide
<1>3. ASSUME NEW t \in Threads, Apply(t) PROVE StopInv'
  BY <1>3 DEF Apply
<1>4. ASSUME NEW onTime \in BOOLEAN, Look(onTime) PROVE StopInv'
  BY <1>4 DEF Look
<1>5. CASE Wait \/ Test
  BY <1>5 DEF Wait, Test
<1>6. CASE Prevent \/ Run
  BY <1>6 DEF Prevent, Run
<1>7. CASE RunEnds \/ CycleEnds
  BY <1>7 DEF RunEnds, CycleEnds
<1>8. CASE Tick \/ QueueChanges \/ Stopit \/ UNCHANGED vars
  BY <1>8 DEF Tick, QueueChanges, Stopit, vars
<1> QED
  BY <1>1, <1>2, <1>3, <1>4, <1>5, <1>6, <1>7, <1>8 DEF Next, SchedStep

\* What halt counts on, as far as it is safety: a thread that was stopped begins
\* no further cycle of its job, and it waits at most for the reason that
\* StopEnds names, a setting that was applied as disabled after the stop.
THEOREM StoppedBeginsNothing ==
    Spec => /\ []StopInv
            /\ [][At(Sched, "test") /\ At(Sched, "look")' => ~stopped]_vars
<1>1. Init => Bits /\ Places /\ StopInv
  BY TypeInit DEF Init, StopInv
<1>2. Bits /\ Places /\ StopInv /\ [Next]_vars => Bits' /\ Places' /\ StopInv'
  BY TypeNext, StopNext
<1>3. Bits /\ Places /\ StopInv /\ [Next]_vars =>
        [At(Sched, "test") /\ At(Sched, "look")' => ~stopped]_vars
  <2> SUFFICES ASSUME Bits, Places, StopInv, Next, At(Sched, "test"), At(Sched, "look")', stopped
               PROVE  FALSE
    BY DEF vars, At
  <2>1. stopper
    BY DEF StopInv, At
  <2>2. ASSUME NEW t \in Threads, t # Sched, NEW step, Goes(t, step) PROVE FALSE
    BY <2>2 DEF Goes, At, Places, Threads
  <2>3. ~Test
    BY <2>1 DEF Test, Goes, At, Places, Threads
  <2>4. ~Tick /\ ~QueueChanges /\ ~Stopit
    BY DEF Tick, QueueChanges, Stopit, At
  <2>5. \A t \in Threads : ~Decide(t) /\ ~Apply(t)
    BY <2>2 DEF Decide, Apply, At
  <2>6. \A c \in Callers : ~SaveSetting(c) /\ ~AskForce(c) /\ ~SetForce(c) /\ ~RunNow(c) /\ ~NowEnds(c)
    BY <2>2, SchedulerAssumption DEF Threads, SaveSetting, AskForce, SetForce, RunNow, NowEnds
  <2>7. ~Wait /\ ~Prevent /\ ~Run /\ ~RunEnds /\ ~CycleEnds /\ \A b \in BOOLEAN : ~Look(b)
    BY DEF Wait, Prevent, Run, RunEnds, CycleEnds, Look, At
  <2> QED
    BY <2>3, <2>4, <2>5, <2>6, <2>7 DEF Next, SchedStep
<1> QED
  BY <1>1, <1>2, <1>3, PTL DEF Spec

\* A disabled job begins no cycle: the thread passes its wait only for a job
\* that is enabled, but while the setting is being changed, after changes that
\* overlapped, and to end.
THEOREM DisabledBeginsNothing ==
    Spec => [][At(Sched, "wait") /\ At(Sched, "test")' /\ Changing = {} /\ ~overlapped
                 => enabled \/ stopped]_vars
<1>1. Bits /\ Places /\ PauseFollowsSetting /\ [Next]_vars =>
        [At(Sched, "wait") /\ At(Sched, "test")' /\ Changing = {} /\ ~overlapped
           => enabled \/ stopped]_vars
  <2> SUFFICES ASSUME Bits, Places, PauseFollowsSetting, Next, At(Sched, "wait"),
                      At(Sched, "test")', Changing = {}, ~overlapped
               PROVE  enabled \/ stopped
    BY DEF vars, At
  <2>2. ASSUME NEW t \in Threads, t # Sched, NEW step, Goes(t, step) PROVE FALSE
    BY <2>2 DEF Goes, At, Places, Threads
  <2>3. CASE Wait
    BY <2>3 DEF Wait, PauseFollowsSetting
  <2>4. ~Tick /\ ~QueueChanges /\ ~Stopit
    BY DEF Tick, QueueChanges, Stopit, At
  <2>5. \A t \in Threads : ~Decide(t) /\ ~Apply(t)
    BY <2>2 DEF Decide, Apply, At
  <2>6. \A c \in Callers : ~SaveSetting(c) /\ ~AskForce(c) /\ ~SetForce(c) /\ ~RunNow(c) /\ ~NowEnds(c)
    BY <2>2, SchedulerAssumption DEF Threads, SaveSetting, AskForce, SetForce, RunNow, NowEnds
  <2>7. ~Test /\ ~Prevent /\ ~Run /\ ~RunEnds /\ ~CycleEnds /\ \A b \in BOOLEAN : ~Look(b)
    BY DEF Test, Prevent, Run, RunEnds, CycleEnds, Look, At
  <2> QED
    BY <2>3, <2>4, <2>5, <2>6, <2>7 DEF Next, SchedStep
<1>2. TypeOK => Bits /\ Places
  BY Parts
<1> QED
  BY <1>1, <1>2, Typed, PauseFollows, PTL DEF Spec
=============================================================================
