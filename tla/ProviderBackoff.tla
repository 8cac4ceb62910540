-------------------------- MODULE ProviderBackoff --------------------------
(***************************************************************************)
(* When a provider is asked and when it is left alone: GenericProvider of  *)
(* sickgear/providers/generic.py, with its row of provider_fails_count.    *)
(* A search thread and the threads of the web server share the object.     *)
(* Its four fields are properties: a set writes the attribute, then the    *)
(* row's column if the value changed, and no lock is held over any of it.  *)
(*                                                                         *)
(* Times are ages and go no further than the longest wait; counts go no    *)
(* further than the wait does.  tmr_limit_count is only shown.  Left out:  *)
(* the requests of one provider that ignore a limit, and the list of       *)
(* single failures, of which only the type of the last matters here.       *)
(***************************************************************************)
EXTENDS Naturals, Sequences

CONSTANTS Threads,
          Requests, \* those that send requests: searches, the provider's ping
          Users,    \* those that serve users, who retry
          Wait,     \* fail_times: the wait after more and more failures
          Given,    \* the waits a server may ask for
          None

ASSUME BackoffAssumption ==
    /\ Wait \in Seq(Nat \ {0}) /\ Wait # <<>>
    /\ \A i \in 1..Len(Wait), j \in 1..Len(Wait) : i <= j => Wait[i] <= Wait[j]
    /\ Given \subseteq (Nat \ {0}) /\ \E a \in Given : \A b \in Given : b <= a
    /\ Threads # {}
    /\ Requests \subseteq Threads /\ Users \subseteq Threads
    /\ None \notin Nat \cup Threads

Least(a, b) == IF a <= b THEN a ELSE b
Most(a, b)  == IF a <= b THEN b ELSE a

MaxCount == Len(Wait) + 2   \* from here on the wait is the longest
MaxAge == CHOOSE a \in Given \cup {Wait[Len(Wait)]} :
              \A b \in Given \cup {Wait[Len(Wait)]} : b <= a

Count == 0..MaxCount
Age   == 0..MaxAge \cup {None}
Field == {"failure_count", "failure_time", "tmr_limit_time", "tmr_limit_wait"}
Record == [failure_count : Count, failure_time : Age, tmr_limit_time : Age,
           tmr_limit_wait : Age]
ASSUME NoneAssumption == None \notin Record

NoRow == [failure_count |-> 0, failure_time |-> None, tmr_limit_time |-> None,
          tmr_limit_wait |-> None]

\* what a thread has still to do to a field: read it to add one, assign, update
\* the row's column, replace the row
Write == [op : {"inc", "set", "update", "replace"}, field : Field, value : Count \cup Age]

VARIABLES
    mem,      \* the attributes
    row,      \* the row of the provider, or None
    at,       \* where each thread is
    writes,   \* what it has still to write before it goes on
    limit,    \* history: how much longer the server wants to be left alone,
              \* told by a response that was written in order
    streak,   \* history: failures since the last success, while in order
    raced,    \* history: parts whose writes of two threads were not one by one
    retried   \* history: the thread whose retry_next was not disturbed, or None

vars == <<mem, row, at, writes, limit, streak, raced, retried>>

Steps == {"idle", "clear", "cleared", "waiting", "open", "retry"}

TypeOK ==
    /\ mem \in Record
    /\ row \in Record \cup {None}
    /\ at \in [Threads -> Steps]
    /\ \A t \in Threads : writes[t] \in Seq(Write)
    /\ limit \in 0..MaxAge
    /\ streak \in Count
    /\ raced \subseteq {"limit", "fails"}
    /\ retried \in Threads \cup {None}

Init ==
    /\ mem = NoRow /\ row = None
    /\ at = [t \in Threads |-> "idle"]
    /\ writes = [t \in Threads |-> <<>>]
    /\ limit = 0 /\ streak = 0 /\ raced = {} /\ retried = None

Set(field, value) == [op |-> "set", field |-> field, value |-> value]
Inc(field)        == [op |-> "inc", field |-> field, value |-> 0]
Part(field) == IF field \in {"failure_count", "failure_time"} THEN "fails" ELSE "limit"
PartOf(s)   == Part(s[1].field)
PartFields(p) == {f \in Field : Part(f) = p}
Saved == IF row = None THEN NoRow ELSE row

\* fail_time_index, wait_time
WaitAfter(count, base) == Wait[Least(Most(IF count > base THEN count - base ELSE 0, 1), Len(Wait))]
CoolDown(m) == WaitAfter(m.failure_count, 2)

\* valid_tmr_time, is_waiting
LimitIsSet(m) == m.tmr_limit_wait # None /\ m.tmr_limit_time # None
Left(age, wait) == IF age < wait THEN wait - age ELSE 0
LimitLeft(m) == IF LimitIsSet(m) THEN Left(m.tmr_limit_time, m.tmr_limit_wait) ELSE 0
IsWaiting(m) == m.failure_time # None /\ m.failure_time < CoolDown(m)

\* t begins to write s: is another thread writing the same part, or about to
\* clear a limit it has found expired?  A part is in order again once all of it
\* is written anew, by one thread, over what is saved.
Writes(t, p) == writes[t] # <<>> /\ PartOf(writes[t]) = p
Busy(t, p)   == \E u \in Threads \ {t} : Writes(u, p) \/ (p = "limit" /\ at[u] = "clear")
Anew(s) == /\ {s[i].field : i \in DOMAIN s} = PartFields(PartOf(s))
           /\ \A i \in DOMAIN s : s[i].op = "set"
           /\ \E i \in DOMAIN s : s[i].value # None
Races(t, s) ==
    LET p == PartOf(s)
    IN  IF Busy(t, p) THEN raced \cup {p}
        ELSE IF Anew(s) /\ \A f \in PartFields(p) : mem[f] = Saved[f] THEN raced \ {p}
        ELSE raced

At(t, step) == at[t] = step /\ writes[t] = <<>>

Goes(t, step) == /\ at' = [at EXCEPT ![t] = step]
                 /\ UNCHANGED <<mem, row, writes, raced>>

Begins(t, s, step) ==
    /\ at' = [at EXCEPT ![t] = step]
    /\ writes' = [writes EXCEPT ![t] = s]
    /\ raced' = Races(t, s)
    /\ UNCHANGED <<mem, row>>

\* the histories, while they can be told
Remembers(left, count) ==
    /\ limit' = IF "limit" \in raced' THEN 0 ELSE left
    /\ streak' = IF "fails" \in raced' THEN 0 ELSE count

(***************************************************************************)
(* The setters, and _save_fail_value: update, and if no row was there     *)
(* replace.                                                                *)
(***************************************************************************)
Then(t, first) == writes' = [writes EXCEPT ![t] = first \o Tail(@)]

Assign(t) ==
    LET w == Head(writes[t]) IN
    /\ writes[t] # <<>>
    /\ \/ /\ w.op = "inc"
          /\ Then(t, <<Set(w.field, Least(mem[w.field] + 1, MaxCount))>>)
          /\ UNCHANGED mem
       \/ /\ w.op = "set"
          /\ mem' = [mem EXCEPT ![w.field] = w.value]
          /\ Then(t, IF mem[w.field] = w.value THEN <<>> ELSE <<[w EXCEPT !.op = "update"]>>)
    /\ UNCHANGED <<row, at, limit, streak, raced, retried>>

\* [mutant] always replaced
SaveReplacing(t) ==
    LET w == Head(writes[t]) IN
    /\ writes[t] # <<>>
    /\ w.op = "update"
    /\ row' = [NoRow EXCEPT ![w.field] = w.value]
    /\ Then(t, <<>>)
    /\ UNCHANGED <<mem, at, retried, raced, limit, streak>>

Save(t) ==
    LET w == Head(writes[t]) IN
    /\ writes[t] # <<>>
    /\ \/ /\ w.op = "update"
          /\ IF row = None THEN row' = row /\ Then(t, <<[w EXCEPT !.op = "replace"]>>)
             ELSE row' = [row EXCEPT ![w.field] = w.value] /\ Then(t, <<>>)
          /\ UNCHANGED raced
       \/ /\ w.op = "replace"
          /\ row' = [NoRow EXCEPT ![w.field] = w.value]
          /\ Then(t, <<>>)
          \* the row another thread has made in between is gone
          /\ raced' = IF row = None THEN raced ELSE {"limit", "fails"}
    /\ Remembers(limit, streak)
    /\ UNCHANGED <<mem, at, retried>>

(***************************************************************************)
(* should_skip.  A limit that has expired is cleared after the time left   *)
(* has been computed; a time that is missing is set, and read again.       *)
(***************************************************************************)
LimitExpired(t) ==
    /\ At(t, "idle")
    /\ LimitIsSet(mem) /\ LimitLeft(mem) = 0
    /\ at' = [at EXCEPT ![t] = "clear"]
    /\ raced' = IF Busy(t, "limit") THEN raced \cup {"limit"} ELSE raced
    /\ Remembers(limit, streak)
    /\ UNCHANGED <<mem, row, writes, retried>>

Clear(t) ==
    /\ At(t, "clear")
    /\ Begins(t, <<Set("tmr_limit_time", None), Set("tmr_limit_wait", None)>>, "cleared")
    /\ retried' = None
    /\ Remembers(limit, streak)

NoLimit(t) == \/ At(t, "idle") /\ ~LimitIsSet(mem)
              \/ At(t, "cleared")
Failing == mem.failure_count >= 3

\* [mutant] the time is set whenever it is looked at
TimeRenewed(t) ==
    /\ NoLimit(t)
    /\ Failing
    /\ Begins(t, <<Set("failure_time", 0)>>, "waiting")
    /\ retried' = None
    /\ Remembers(limit, streak)

TimeMissing(t) ==
    /\ NoLimit(t)
    /\ Failing /\ mem.failure_time = None
    /\ Begins(t, <<Set("failure_time", 0)>>, "waiting")
    /\ retried' = None
    /\ Remembers(limit, streak)

Skips(t) ==
    /\ \/ At(t, "cleared") /\ Failing /\ IsWaiting(mem)
       \/ At(t, "waiting") /\ IsWaiting(mem)
    /\ Goes(t, "idle")
    /\ Remembers(limit, streak) /\ UNCHANGED retried

Passes(t) ==
    /\ \/ NoLimit(t) /\ (Failing => mem.failure_time # None /\ ~IsWaiting(mem))
       \/ At(t, "waiting") /\ ~IsWaiting(mem)
    /\ Goes(t, "open")
    /\ Remembers(limit, streak) /\ UNCHANGED retried

Asks(t) == LimitExpired(t) \/ Clear(t) \/ TimeMissing(t) \/ Skips(t) \/ Passes(t)

(***************************************************************************)
(* get_url: what comes of a request.                                       *)
(***************************************************************************)
\* nobody wanted more than to know
Told(t) ==
    /\ At(t, "open")
    /\ Goes(t, "idle")
    /\ Remembers(limit, streak) /\ UNCHANGED retried

\* [mutant] the count is left
SucceedsLate(t) ==
    /\ At(t, "open") /\ t \in Requests
    /\ Begins(t, <<Set("failure_time", None)>>, "idle")
    /\ Remembers(limit, 0) /\ retried' = None

Succeeds(t) ==
    /\ At(t, "open") /\ t \in Requests
    /\ Begins(t, <<Set("failure_count", 0), Set("failure_time", None)>>, "idle")
    /\ Remembers(limit, 0) /\ retried' = None

\* inc_failure_count: not for another failure of the type within 3 seconds
Fails(t, sameType) ==
    /\ At(t, "open") /\ t \in Requests
    /\ mem.failure_time = 0 => ~sameType
    /\ Begins(t, <<Inc("failure_count"), Set("failure_time", 0)>>, "idle")
    /\ Remembers(limit, Least(streak + 1, MaxCount)) /\ retried' = None

\* tmr_limit_update, after a response with status 429
\* [mutant] the time is set by the first limit only
LimitedLater(t, wait) ==
    /\ At(t, "open") /\ t \in Requests
    /\ Begins(t, (IF mem.tmr_limit_time = None THEN <<Set("tmr_limit_time", 0)>> ELSE <<>>)
                  \o <<Set("tmr_limit_wait", wait)>>, "idle")
    /\ Remembers(wait, streak) /\ retried' = None

LimitedTo(t, wait) ==
    /\ At(t, "open") /\ t \in Requests
    /\ Begins(t, <<Set("tmr_limit_time", 0), Set("tmr_limit_wait", wait)>>, "idle")
    /\ Remembers(wait, streak) /\ retried' = None

Limited(t) == \E wait \in Given \cup {WaitAfter(mem.failure_count, 0)} : LimitedTo(t, wait)

(***************************************************************************)
(* retry_next, of a user                                                   *)
(***************************************************************************)
RetryLimit(t) ==
    /\ At(t, "idle") /\ t \in Users
    /\ IF LimitIsSet(mem)
       THEN Begins(t, <<Set("tmr_limit_time", mem.tmr_limit_wait)>>, "retry")
       ELSE Goes(t, "retry")
    /\ Remembers(0, streak)
    /\ retried' = IF \A u \in Threads \ {t} : writes[u] = <<>> /\ at[u] # "retry" THEN t ELSE None

\* [mutant] only the limit is lifted
RetryNoMore(t) ==
    /\ At(t, "retry")
    /\ Goes(t, "idle")
    /\ Remembers(limit, streak) /\ UNCHANGED retried

RetryFails(t) ==
    /\ At(t, "retry")
    /\ IF mem.failure_count >= 3 /\ IsWaiting(mem)
       THEN Begins(t, <<Set("failure_time", CoolDown(mem))>>, "idle")
       ELSE Goes(t, "idle")
    /\ Remembers(limit, streak) /\ UNCHANGED retried

(***************************************************************************)
(* Time, and a restart: _load_fail_values                                  *)
(***************************************************************************)
Older(age) == IF age = None THEN None ELSE Least(age + 1, MaxAge)
Aged(r) == [r EXCEPT !.failure_time = Older(@), !.tmr_limit_time = Older(@)]

Tick ==
    /\ mem' = Aged(mem)
    /\ row' = IF row = None THEN None ELSE Aged(row)
    /\ writes' = [t \in Threads |-> [i \in DOMAIN writes[t] |->
          LET w == writes[t][i]
          IN  IF w.op \in {"update", "replace"} /\ w.field \in {"failure_time", "tmr_limit_time"}
              THEN [w EXCEPT !.value = Older(@)] ELSE w]]
    /\ limit' = IF limit > 0 THEN limit - 1 ELSE 0
    /\ UNCHANGED <<at, streak, raced, retried>>

\* [mutant] a row is taken to be there
RestartRow ==
    /\ mem' = row
    /\ at' = [t \in Threads |-> "idle"]
    /\ writes' = [t \in Threads |-> <<>>]
    /\ raced' = raced
    /\ retried' = None
    /\ Remembers(limit, streak)
    /\ UNCHANGED row

Restart ==
    /\ mem' = Saved
    /\ at' = [t \in Threads |-> "idle"]
    /\ writes' = [t \in Threads |-> <<>>]
    /\ raced' = raced \cup {PartOf(writes[t]) : t \in {u \in Threads : writes[u] # <<>>}}
    /\ retried' = None
    /\ Remembers(limit, streak)
    /\ UNCHANGED row

Step(t) ==
    \/ Assign(t) \/ Save(t)
    \/ Asks(t)
    \/ Told(t) \/ Succeeds(t) \/ Fails(t, FALSE) \/ Fails(t, TRUE) \/ Limited(t)
    \/ RetryFails(t)

Next ==
    \/ \E t \in Threads : Step(t) \/ RetryLimit(t)
    \/ Tick \/ Restart

Spec == Init /\ [][Next]_vars

\* searches go on, steps are taken, time passes
Fairness ==
    /\ \A t \in Threads : WF_vars(Step(t))
    /\ WF_vars(Tick)

FairSpec == Spec /\ Fairness

-----------------------------------------------------------------------------
Quiet(p) == p \notin raced /\ \A t \in Threads : ~Writes(t, p)

\* What would be read after a restart is what is in use, but for parts that two
\* threads have written at once.
SavedIsMemory == \A p \in {"fails", "limit"} : Quiet(p) => \A f \in PartFields(p) : mem[f] = Saved[f]

\* A limit is kept for as long as the server asked, over restarts, failures,
\* successes and the clearing of limits before it.
LimitKept == Quiet("limit") => LimitLeft(mem) >= limit

\* Each failure since the last success counts, over restarts too.
FailuresCounted == Quiet("fails") => mem.failure_count = streak

\* After a user's retry the provider is not skipped until something happens.
Blocked(m) == \/ LimitLeft(m) > 0
              \/ m.failure_count >= 3 /\ (m.failure_time = None \/ IsWaiting(m))
RetryUnblocks ==
    retried # None /\ At(retried, "idle") /\ Quiet("fails") /\ Quiet("limit") => ~Blocked(mem)

\* No provider is given up: whatever was written in whatever order, it is
\* found open again and again.
AskedAgain == []<>(\E t \in Threads : At(t, "open")) \/ []<><<Restart>>_vars
=============================================================================
