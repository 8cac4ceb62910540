----------------------------- MODULE Scheduler -----------------------------
(***************************************************************************)
(* A scheduler thread and the job it runs: Scheduler and Job of            *)
(* sickgear/scheduler.py, with the threads that act on them:               *)
(*   sickgear/config.py     a job's setting is saved (set_paused_state),   *)
(*                          or the job's action is run at once             *)
(*   sickgear/webserve.py   "force it to run the next time it looks"       *)
(*   sickgear.py            the show updater's run at the start            *)
(*   sickgear/__init__.py   halt                                           *)
(* Nothing here holds a lock: the flags are read and written one by one.   *)
(* The re-entrancy guard of Job.run is for two classes whose run nobody    *)
(* but their scheduler calls, and is left out; so is the rest of 30        *)
(* seconds of a disabled job, since the attribute tested is the method.    *)
(***************************************************************************)
CONSTANTS Callers,   \* threads that save settings, force the job or run it
          Sched      \* the scheduler thread

ASSUME SchedulerAssumption == Sched \notin Callers

Threads == Callers \cup {Sched}

VARIABLES
    stopper,     \* the event _stopper
    unpaused,    \* the event _unpause
    enabled,     \* the setting action.is_enabled() reads
    force,       \* Scheduler.force
    due,         \* cycle_time has passed since last_run
    prevented,   \* what prevent_cycle_run() would return
    amActive,    \* Job.amActive
    pc,          \* where each thread is
    shouldRun,   \* the scheduler's local variable
    stopped,     \* halt has called stopit
    promised,    \* history: force_run has returned True and no run followed
    late,        \* history: the flag was set after the cycle looked at it
    dropped,     \* history: a promise was dropped for a named reason
    shared,      \* history: two threads were in Job.run at once
    overlapped,  \* history: two changes of the setting overlapped
    overtaken    \* history: the last event set after the stop was a pause

vars == <<stopper, unpaused, enabled, force, due, prevented, amActive, pc, shouldRun,
          stopped, promised, late, dropped, shared, overlapped, overtaken>>

SchedSteps == {"start", "pause", "unpause", "wait", "test", "look", "prevent", "run",
               "inside", "end", "exited"}
CallerSteps == {"idle", "saved", "pause", "unpause", "force", "inside"}

TypeOK ==
    /\ \A v \in {stopper, unpaused, enabled, force, due, prevented, amActive, shouldRun,
                 stopped, promised, late, dropped, shared, overlapped, overtaken} : v \in BOOLEAN
    /\ pc \in [Threads -> SchedSteps \cup CallerSteps]
    /\ pc[Sched] \in SchedSteps
    /\ \A c \in Callers : pc[c] \in CallerSteps

Init ==
    /\ stopper = FALSE /\ force = FALSE /\ amActive = FALSE /\ shouldRun = FALSE
    /\ unpaused = TRUE
    /\ enabled \in BOOLEAN /\ due \in BOOLEAN /\ prevented = FALSE
    /\ pc = [t \in Threads |-> IF t = Sched THEN "start" ELSE "idle"]
    /\ stopped = FALSE /\ promised = FALSE /\ late = FALSE /\ dropped = FALSE
    /\ shared = FALSE /\ overlapped = FALSE /\ overtaken = FALSE

Goes(t, step)  == pc' = [pc EXCEPT ![t] = step]
At(t, step)    == pc[t] = step
Inside         == {t \in Threads : At(t, "inside")}
Changing       == {t \in Threads : pc[t] \in {"start", "saved", "pause", "unpause"}}

(***************************************************************************)
(* set_paused_state: read the setting, then set the event.  The scheduler  *)
(* thread calls it before its loop.                                        *)
(***************************************************************************)
\* [mutant] without set_paused_state
SaveSettingOnly(c) ==
    /\ At(c, "idle")
    /\ enabled' = ~enabled
    /\ UNCHANGED <<stopper, unpaused, force, due, prevented, amActive, pc, shouldRun,
                   stopped, promised, late, dropped, shared, overlapped, overtaken>>

SaveSetting(c) ==
    /\ At(c, "idle")
    /\ enabled' = ~enabled
    /\ overlapped' = (Changing # {})
    /\ Goes(c, "saved")
    /\ UNCHANGED <<stopper, unpaused, force, due, prevented, amActive, shouldRun, stopped,
                   promised, late, dropped, shared, overtaken>>

Decide(t) ==
    /\ pc[t] \in {"saved", "start"}
    /\ Goes(t, IF enabled THEN "unpause" ELSE "pause")
    /\ UNCHANGED <<stopper, unpaused, enabled, force, due, prevented, amActive, shouldRun,
                   stopped, promised, late, dropped, shared, overlapped, overtaken>>

Apply(t) ==
    /\ pc[t] \in {"pause", "unpause"}
    /\ unpaused' = At(t, "unpause")
    /\ overtaken' = (stopped /\ At(t, "pause"))
    /\ Goes(t, IF t = Sched THEN "wait" ELSE "idle")
    /\ UNCHANGED <<stopper, enabled, force, due, prevented, amActive, shouldRun, stopped,
                   promised, late, dropped, shared, overlapped>>

(***************************************************************************)
(* force_run: refuse while the job runs, else set the flag.                *)
(***************************************************************************)
AskForce(c) ==
    /\ At(c, "idle")
    /\ ~amActive
    /\ Goes(c, "force")
    /\ UNCHANGED <<stopper, unpaused, enabled, force, due, prevented, amActive, shouldRun,
                   stopped, promised, late, dropped, shared, overlapped, overtaken>>

SetForce(c) ==
    /\ At(c, "force")
    /\ force' = TRUE
    /\ promised' = TRUE
    /\ late' = (late \/ pc[Sched] \in {"prevent", "run", "inside", "end"})
    /\ Goes(c, "idle")
    /\ UNCHANGED <<stopper, unpaused, enabled, due, prevented, amActive, shouldRun, stopped,
                   dropped, shared, overlapped, overtaken>>

(***************************************************************************)
(* Job.run                                                                 *)
(***************************************************************************)
Enter(t) == amActive' = TRUE

\* [mutant] not after an exception
LeaveRaising(t) == amActive' \in {FALSE, amActive}

\* the flag goes down whatever the job did, and whoever is still inside
Leave(t) == amActive' = FALSE

RunNow(c) ==
    /\ At(c, "idle")
    /\ Enter(c)
    /\ shared' = (shared \/ Inside # {})
    /\ Goes(c, "inside")
    /\ UNCHANGED <<stopper, unpaused, enabled, force, due, prevented, shouldRun, stopped,
                   promised, late, dropped, overlapped, overtaken>>

\* [mutant] the caller ends as the scheduler does
NowEndsCycle(c) ==
    /\ At(c, "inside")
    /\ Leave(c)
    /\ shared' = (shared /\ Inside # {c})
    /\ Goes(c, "end")
    /\ UNCHANGED <<stopper, unpaused, enabled, force, due, prevented, shouldRun, stopped,
                   promised, late, dropped, overlapped, overtaken>>

NowEnds(c) ==
    /\ At(c, "inside")
    /\ Leave(c)
    /\ shared' = (shared /\ Inside # {c})
    /\ Goes(c, "idle")
    /\ UNCHANGED <<stopper, unpaused, enabled, force, due, prevented, shouldRun, stopped,
                   promised, late, dropped, overlapped, overtaken>>

(***************************************************************************)
(* Scheduler.run                                                           *)
(***************************************************************************)
Wait ==
    /\ At(Sched, "wait") /\ unpaused
    /\ Goes(Sched, "test")
    /\ UNCHANGED <<stopper, unpaused, enabled, force, due, prevented, amActive, shouldRun,
                   stopped, promised, late, dropped, shared, overlapped, overtaken>>

Test ==
    /\ At(Sched, "test")
    /\ IF stopper
       THEN /\ Goes(Sched, "exited")
            /\ stopper' = FALSE /\ unpaused' = FALSE
       ELSE /\ Goes(Sched, "look")
            /\ UNCHANGED <<stopper, unpaused>>
    /\ UNCHANGED <<enabled, force, due, prevented, amActive, shouldRun, stopped, promised,
                   late, dropped, shared, overlapped, overtaken>>

\* [mutant] the flag is not looked at
LookAtTime(onTime) ==
    /\ At(Sched, "look")
    /\ shouldRun' = (due /\ onTime)
    /\ due' = (due /\ onTime)
    /\ Goes(Sched, "prevent")
    /\ UNCHANGED <<stopper, unpaused, enabled, force, prevented, amActive, stopped, promised,
                   late, dropped, shared, overlapped, overtaken>>

\* a job that starts around an hour of the day counts a cycle at another hour
\* as one that ran
Look(onTime) ==
    /\ At(Sched, "look")
    /\ shouldRun' = (force \/ (due /\ onTime))
    /\ due' = (due /\ onTime)
    /\ Goes(Sched, "prevent")
    /\ UNCHANGED <<stopper, unpaused, enabled, force, prevented, amActive, stopped, promised,
                   late, dropped, shared, overlapped, overtaken>>

\* prevent_cycle_run is asked only when the job should run
Prevent ==
    /\ At(Sched, "prevent")
    /\ shouldRun' = (shouldRun /\ ~prevented)
    /\ due' = (due /\ ~shouldRun)
    /\ dropped' = (dropped \/ (shouldRun /\ prevented /\ promised))
    /\ Goes(Sched, IF shouldRun' THEN "run" ELSE "end")
    /\ UNCHANGED <<stopper, unpaused, enabled, force, prevented, amActive, stopped, promised,
                   late, shared, overlapped, overtaken>>

Run ==
    /\ At(Sched, "run")
    /\ Enter(Sched)
    /\ shared' = (shared \/ Inside # {})
    /\ promised' = FALSE /\ dropped' = FALSE
    /\ late' = FALSE
    /\ Goes(Sched, "inside")
    /\ UNCHANGED <<stopper, unpaused, enabled, force, due, prevented, shouldRun, stopped,
                   overlapped, overtaken>>

\* [mutant] an exception of the job ends the thread
RunEndsThread ==
    /\ At(Sched, "inside")
    /\ Leave(Sched)
    /\ shared' = (shared /\ Inside # {Sched})
    /\ pc' \in {[pc EXCEPT ![Sched] = step] : step \in {"end", "exited"}}
    /\ UNCHANGED <<stopper, unpaused, enabled, force, due, prevented, shouldRun, stopped,
                   promised, late, dropped, overlapped, overtaken>>

RunEnds ==
    /\ At(Sched, "inside")
    /\ Leave(Sched)
    /\ shared' = (shared /\ Inside # {Sched})
    /\ Goes(Sched, "end")
    /\ UNCHANGED <<stopper, unpaused, enabled, force, due, prevented, shouldRun, stopped,
                   promised, late, dropped, overlapped, overtaken>>

\* finally: the flag is cleared, whether this cycle has seen it or not
CycleEnds ==
    /\ At(Sched, "end")
    /\ force' = FALSE
    /\ late' = FALSE
    /\ dropped' = (dropped \/ (promised /\ late))
    /\ shouldRun' = FALSE
    /\ Goes(Sched, "wait")
    /\ UNCHANGED <<stopper, unpaused, enabled, due, prevented, amActive, stopped, promised,
                   shared, overlapped, overtaken>>

(***************************************************************************)
(* What is outside: time, the queue prevent_cycle_run looks at, halt.      *)
(***************************************************************************)
Tick ==
    /\ ~due
    /\ due' = TRUE
    /\ UNCHANGED <<stopper, unpaused, enabled, force, prevented, amActive, pc, shouldRun,
                   stopped, promised, late, dropped, shared, overlapped, overtaken>>

QueueChanges ==
    /\ prevented' = ~prevented
    /\ UNCHANGED <<stopper, unpaused, enabled, force, due, amActive, pc, shouldRun, stopped,
                   promised, late, dropped, shared, overlapped, overtaken>>

\* [mutant] a paused thread is left paused
StopitOnly ==
    /\ ~stopped
    /\ stopped' = TRUE
    /\ stopper' = TRUE
    /\ UNCHANGED <<unpaused, enabled, force, due, prevented, amActive, pc, shouldRun, promised,
                   late, dropped, shared, overlapped, overtaken>>

Stopit ==
    /\ ~stopped
    /\ stopped' = TRUE
    /\ stopper' = TRUE
    /\ unpaused' = TRUE
    /\ UNCHANGED <<enabled, force, due, prevented, amActive, pc, shouldRun, promised, late,
                   dropped, shared, overlapped, overtaken>>

SchedStep ==
    \/ Wait \/ Test
    \/ \E onTime \in BOOLEAN : Look(onTime)
    \/ Prevent \/ Run \/ RunEnds \/ CycleEnds

Next ==
    \/ \E c \in Callers : \/ SaveSetting(c)
                          \/ AskForce(c) \/ SetForce(c)
                          \/ RunNow(c) \/ NowEnds(c)
    \/ \E t \in Threads : Decide(t) \/ Apply(t)
    \/ SchedStep
    \/ Tick \/ QueueChanges \/ Stopit

Spec == Init /\ [][Next]_vars

(***************************************************************************)
(* Threads go on once they began something, a run of the job ends, time    *)
(* passes, and the hour of a job that has one comes round.  Nobody need    *)
(* save, force, run or stop anything.                                      *)
(***************************************************************************)
Fairness ==
    /\ WF_vars(SchedStep)
    /\ SF_vars(due /\ Look(TRUE))
    /\ \A t \in Threads : WF_vars(Decide(t)) /\ WF_vars(Apply(t))
    /\ \A c \in Callers : WF_vars(SetForce(c)) /\ WF_vars(NowEnds(c))
    /\ WF_vars(Tick)

FairSpec == Spec /\ Fairness

-----------------------------------------------------------------------------
(***************************************************************************)
(* Safety.                                                                 *)
(***************************************************************************)

\* Between changes of the setting the thread is paused exactly when the job is
\* disabled, but for changes that overlapped: the later event may then be the
\* one of the earlier setting, until the next save.
PauseFollowsSetting ==
    (Changing = {} /\ ~overlapped /\ ~stopped) => (unpaused <=> enabled)

\* is_running_job says what it should, but for runs that overlapped, of which
\* the first to end takes the flag down for both.  It never stays up.
ActiveMeansInside ==
    /\ amActive => Inside # {}
    /\ ~shared => (amActive <=> Inside # {})

\* A force_run that was granted is still to come or has been run, but for one
\* set after the cycle had looked at the flag, or whose cycle was prevented.
ForceIsKept == promised => force \/ dropped

(***************************************************************************)
(* Liveness.                                                               *)
(***************************************************************************)
Undisturbed == enabled /\ Changing = {} /\ ~overlapped /\ ~stopped

\* A job that is enabled and left alone is run again and again, for whatever
\* was done to it before.
EnabledJobRuns ==
    <>[](Undisturbed /\ ~prevented) => []<>At(Sched, "inside")

\* stopit ends the thread, but for a setting that was read as disabled and
\* applied after it: that pause comes on top of the stop, and only a later
\* save as enabled lets the thread see the stop.
StopEnds == stopped ~> (At(Sched, "exited") \/ overtaken)
=============================================================================
