----------------------- MODULE ProviderBackoffProofs -----------------------
(***************************************************************************)
(* The backoff of a provider, proved for any number of threads, any table  *)
(* of waits and any limits of the server.  What the memory will hold once  *)
(* a thread has written what it has begun to write (Out) does not change   *)
(* while it writes: the invariants are about that.                         *)
(***************************************************************************)
EXTENDS ProviderBackoff, SequenceTheorems, TLAPS

\* what a field may hold, and what a thread may be about to write
FieldType(f) == IF f = "failure_count" THEN Count ELSE Age
Fit == {w \in Write : /\ w.value \in FieldType(w.field)
                      /\ w.op = "inc" => w.field = "failure_count"}
Follows(a, b) == /\ b.op = "set" /\ Part(a.field) = Part(b.field)
                 /\ <<a.field, b.field>> \in {<<"failure_count", "failure_time">>,
                                              <<"tmr_limit_time", "tmr_limit_wait">>}
Seqs == {s \in Seq(Fit) : Len(s) <= 2 /\ (Len(s) = 2 => Follows(s[1], s[2]))}

TypeInv ==
    /\ mem \in Record /\ row \in Record \cup {None}
    /\ at \in [Threads -> Steps]
    /\ writes \in [Threads -> Seqs]
    /\ limit \in 0..MaxAge /\ streak \in Count
    /\ raced \subseteq {"limit", "fails"}
    /\ retried \in Threads \cup {None}

Saving(t) == writes[t] # <<>> /\ writes[t][1].op \in {"update", "replace"}

\* what f holds of memory m once s is written, and once t has written
OutOf(m, s, f) ==
    IF Len(s) > 0 /\ s[1].op = "set" /\ s[1].field = f THEN s[1].value
    ELSE IF Len(s) > 0 /\ s[1].op = "inc" /\ s[1].field = f THEN Least(m[f] + 1, MaxCount)
    ELSE IF Len(s) = 2 /\ s[2].field = f THEN s[2].value
    ELSE m[f]
Out(t, f) == OutOf(mem, writes[t], f)

Parts == {"limit", "fails"}
Alone(t, p) == \A u \in Threads \ {t} : ~Writes(u, p)

\* one thread at a time writes a part, and what it is saving is what it has set
SaveInv ==
    \A p \in Parts \ raced :
        /\ \A t \in Threads : Writes(t, p) => Alone(t, p)
        /\ \A t \in Threads : Writes(t, p) /\ Saving(t) =>
              writes[t][1].value = mem[writes[t][1].field]
        /\ \A f \in PartFields(p) :
              \/ mem[f] = Saved[f]
              \/ \E t \in Threads : Saving(t) /\ writes[t][1].field = f

FailsInv ==
    "fails" \notin raced => \A t \in Threads : Alone(t, "fails") =>
        /\ Out(t, "failure_count") = streak
        /\ Out(t, "failure_count") = 0 \/ Out(t, "failure_time") # None

LeftOf(time, wait) == IF time # None /\ wait # None THEN Left(time, wait) ELSE 0
OutLeft(t) == LeftOf(Out(t, "tmr_limit_time"), Out(t, "tmr_limit_wait"))
LimitInv ==
    "limit" \notin raced =>
        /\ \A t \in Threads : Alone(t, "limit") => OutLeft(t) >= limit
        /\ \A t \in Threads : at[t] = "clear" => limit = 0

\* from a user's retry on, nobody else writes; the limit is over, and so is the
\* cool-down once the second half of the retry is under way
RetryInv ==
    retried # None =>
        /\ \A u \in Threads \ {retried} : writes[u] = <<>> /\ at[u] # "retry"
        /\ OutLeft(retried) = 0
        /\ "fails" \notin raced /\ at[retried] # "retry" =>
              \/ Out(retried, "failure_count") < 3
              \/ Out(retried, "failure_time") >= WaitAfter(Out(retried, "failure_count"), 2)

-----------------------------------------------------------------------------
(***************************************************************************)
(* Times and counts.                                                       *)
(***************************************************************************)
LEMMA Ages ==
    /\ MaxAge \in Nat \ {0}
    /\ Given \subseteq 1..MaxAge
    /\ \A i \in 1..Len(Wait) : Wait[i] \in 1..MaxAge
    /\ Len(Wait) \in Nat \ {0}
    /\ MaxCount \in Nat /\ 3 <= MaxCount
    /\ None \notin Nat
<1>1. Wait \in Seq(Nat \ {0}) /\ Wait # <<>>  BY BackoffAssumption
<1>2. Len(Wait) \in Nat \ {0} /\ \A i \in 1..Len(Wait) : Wait[i] \in Nat \ {0}
  BY <1>1, EmptySeq, LenProperties
<1> DEFINE last == Wait[Len(Wait)]
           S == Given \cup {last}
<1>3. last \in Nat \ {0} /\ \A i \in 1..Len(Wait) : Wait[i] <= last
  BY <1>2, BackoffAssumption
<1>4. PICK g \in Given : \A b \in Given : b <= g  BY BackoffAssumption
<1>5. Given \subseteq Nat \ {0}  BY BackoffAssumption
<1> HIDE DEF last
<1>6. \E a \in S : \A b \in S : b <= a
  <2>1. CASE g <= last  BY <1>3, <1>4, <1>5, <2>1
  <2>2. CASE last <= g  BY <1>3, <1>4, <1>5, <2>2
  <2> QED BY <1>3, <1>5, <2>1, <2>2
<1>7. MaxAge \in S /\ \A b \in S : b <= MaxAge
  BY <1>6 DEF MaxAge, last
<1>8. MaxAge \in Nat \ {0} /\ Given \subseteq 1..MaxAge /\ last <= MaxAge
  BY <1>3, <1>5, <1>7
<1>9. \A i \in 1..Len(Wait) : Wait[i] \in 1..MaxAge
  BY <1>2, <1>3, <1>8
<1> QED BY <1>2, <1>8, <1>9, BackoffAssumption DEF MaxCount

LEMMA Waits ==
    ASSUME NEW c \in Nat, NEW b \in Nat
    PROVE  WaitAfter(c, b) \in 1..MaxAge
<1> DEFINE i == Least(Most(IF c > b THEN c - b ELSE 0, 1), Len(Wait))
<1>1. i \in 1..Len(Wait)  BY Ages DEF Least, Most
<1> QED BY <1>1, Ages DEF WaitAfter

LEMMA RecordFields ==
    ASSUME NEW m \in Record
    PROVE  /\ \A f \in Field : m[f] \in FieldType(f)
           /\ m.failure_count \in Count /\ m.failure_count \in Nat
           /\ m.failure_time \in Age /\ m.tmr_limit_time \in Age /\ m.tmr_limit_wait \in Age
           /\ m.failure_count = m["failure_count"] /\ m.failure_time = m["failure_time"]
           /\ m.tmr_limit_time = m["tmr_limit_time"]
           /\ m.tmr_limit_wait = m["tmr_limit_wait"]
BY Ages DEF Record, Field, FieldType, Count

Put(m, f, v) == [m EXCEPT ![f] = v]
LEMMA RecordSet ==
    ASSUME NEW m \in Record, NEW f \in Field, NEW v \in FieldType(f)
    PROVE  /\ Put(m, f, v) \in Record
           /\ \A g \in Field : Put(m, f, v)[g] = IF g = f THEN v ELSE m[g]
<1>1. CASE f = "failure_count"  BY <1>1 DEF Put, Record, Field, FieldType
<1>2. CASE f = "failure_time"  BY <1>2 DEF Put, Record, Field, FieldType
<1>3. CASE f = "tmr_limit_time"  BY <1>3 DEF Put, Record, Field, FieldType
<1>4. CASE f = "tmr_limit_wait"  BY <1>4 DEF Put, Record, Field, FieldType
<1> QED BY <1>1, <1>2, <1>3, <1>4 DEF Field

LEMMA NoRowTyped ==
    /\ NoRow \in Record
    /\ NoRow["failure_count"] = 0 /\ NoRow["failure_time"] = None
    /\ NoRow["tmr_limit_time"] = None /\ NoRow["tmr_limit_wait"] = None
BY Ages DEF NoRow, Record, Count, Age

LEMMA OlderTyped ==
    ASSUME NEW a \in Age
    PROVE  Older(a) \in Age
BY Ages DEF Older, Age, Least

LEMMA AgedTyped ==
    ASSUME NEW m \in Record
    PROVE  /\ Aged(m) \in Record
           /\ \A f \in Field : Aged(m)[f] =
                IF f \in {"failure_time", "tmr_limit_time"} THEN Older(m[f]) ELSE m[f]
<1>1. Older(m.failure_time) \in Age /\ Older(m.tmr_limit_time) \in Age
  BY OlderTyped, RecordFields
<1> QED BY <1>1 DEF Aged, Record, Field

(***************************************************************************)
(* What is still to be written.                                            *)
(***************************************************************************)
LEMMA FitFields ==
    ASSUME NEW w \in Fit
    PROVE  /\ w.op \in {"inc", "set", "update", "replace"} /\ w.field \in Field
           /\ w.value \in FieldType(w.field) /\ w \in Write
           /\ w.op = "inc" => w.field = "failure_count"
BY DEF Fit, Write

LEMMA SetFit ==
    ASSUME NEW f \in Field, NEW v \in FieldType(f)
    PROVE  Set(f, v) \in Fit /\ Set(f, v).op = "set" /\ Set(f, v).field = f /\ Set(f, v).value = v
BY DEF Set, Fit, Write, FieldType

LEMMA IncFit ==
    LET w == Inc("failure_count")
    IN  w \in Fit /\ w.op = "inc" /\ w.field = "failure_count"
BY Ages DEF Inc, Fit, Write, FieldType, Count, Field

\* w with another operation
With(w, op) == [w EXCEPT !.op = op]
LEMMA WithFit ==
    ASSUME NEW w \in Fit, NEW op \in {"update", "replace"}
    PROVE  /\ With(w, op) \in Fit /\ With(w, op).op = op
           /\ With(w, op).field = w.field /\ With(w, op).value = w.value
BY DEF With, Fit, Write

LEMMA FollowsFields ==
    ASSUME NEW a \in Fit, NEW b \in Fit, Follows(a, b)
    PROVE  b.op = "set" /\ b.field # a.field /\ Part(a.field) = Part(b.field)
BY DEF Follows

LEMMA SeqFacts ==
    ASSUME NEW s \in Seqs
    PROVE  /\ s \in Seq(Fit) /\ s \in Seq(Write) /\ Len(s) \in Nat /\ Len(s) \in {0, 1, 2}
           /\ s = <<>> <=> Len(s) = 0
           /\ s # <<>> <=> Len(s) \in {1, 2}
           /\ Len(s) > 0 => s[1] \in Fit /\ Head(s) = s[1]
           /\ Len(s) = 2 => /\ s[2] \in Fit /\ s[2].op = "set" /\ s[2].field # s[1].field
                            /\ Part(s[1].field) = Part(s[2].field)
<1>1. s \in Seq(Fit) /\ Len(s) \in Nat /\ Len(s) \in {0, 1, 2}
  <2>1. s \in Seq(Fit) /\ Len(s) <= 2  BY DEF Seqs
  <2>2. Len(s) \in Nat  BY <2>1, LenProperties
  <2>3. \A n \in Nat : n <= 2 => n \in {0, 1, 2}  OBVIOUS
  <2> QED BY <2>1, <2>2, <2>3
<1>2. Fit \subseteq Write  BY DEF Fit
<1>3. s \in Seq(Write)  BY <1>1, <1>2, SeqMonotonic
<1>4. s = <<>> <=> Len(s) = 0  BY <1>1, EmptySeq
<1>5. \A i \in 1..Len(s) : s[i] \in Fit  BY <1>1, ElementOfSeq
<1>6. Len(s) > 0 => s[1] \in Fit /\ Head(s) = s[1]  BY <1>1, <1>5
<1>7. Len(s) = 2 => s[2] \in Fit /\ s[1] \in Fit /\ Follows(s[1], s[2])
  BY <1>1, <1>5 DEF Seqs
<1> QED BY <1>1, <1>3, <1>4, <1>6, <1>7, FollowsFields

\* the first write is done, or is replaced by another of its field
LEMMA Drop ==
    ASSUME NEW s \in Seqs, s # <<>>
    PROVE  LET d == <<>> \o Tail(s)
           IN  d \in Seqs /\ Len(d) = Len(s) - 1 /\ (Len(d) = 1 => d[1] = s[2])
<1>1. s \in Seq(Fit) /\ Len(s) \in {1, 2}  BY SeqFacts
<1>2. /\ Tail(s) \in Seq(Fit) /\ Len(Tail(s)) = Len(s) - 1
      /\ \A i \in 1..(Len(s) - 1) : Tail(s)[i] = s[i + 1]
  BY <1>1
<1>3. <<>> \o Tail(s) = Tail(s)  BY <1>2, ConcatEmptySeq
<1> QED BY <1>1, <1>2, <1>3 DEF Seqs

LEMMA Repl ==
    ASSUME NEW s \in Seqs, s # <<>>, NEW x \in Fit, x.field = s[1].field
    PROVE  LET r == <<x>> \o Tail(s)
           IN  r \in Seqs /\ Len(r) = Len(s) /\ r[1] = x /\ (Len(s) = 2 => r[2] = s[2])
<1>1. s \in Seq(Fit) /\ Len(s) \in {1, 2}  BY SeqFacts
<1>2. /\ Tail(s) \in Seq(Fit) /\ Len(Tail(s)) = Len(s) - 1
      /\ \A i \in 1..(Len(s) - 1) : Tail(s)[i] = s[i + 1]
  BY <1>1
<1>3. <<x>> \in Seq(Fit) /\ Len(<<x>>) = 1 /\ <<x>>[1] = x  OBVIOUS
<1> DEFINE h == <<x>>
           q == Tail(s)
           r == h \o q
<1> HIDE DEF h, q
<1>4. r \in Seq(Fit) /\ Len(r) = Len(h) + Len(q) /\ r[1] = h[1] /\ (Len(q) = 1 => r[2] = q[1])
  BY <1>1, <1>2, <1>3, ConcatProperties DEF h, q
<1>5. Len(r) = Len(s) /\ r[1] = x /\ (Len(s) = 2 => r[2] = s[2])
  BY <1>1, <1>2, <1>3, <1>4 DEF h, q
<1>6. Len(s) = 2 => Follows(x, s[2])
  BY DEF Seqs, Follows
<1>7. r \in Seqs
  BY <1>1, <1>4, <1>5, <1>6 DEF Seqs
<1> QED BY <1>5, <1>7 DEF h, q

\* assigning, saving or counting first does not change what comes of it
LEMMA OutKept ==
    ASSUME NEW s \in Seqs, s # <<>>, NEW m \in Record, NEW f \in Field, NEW r \in Seqs
    PROVE  LET w == s[1]
               dropped  == Len(r) = Len(s) - 1 /\ (Len(r) = 1 => r[1] = s[2])
               replaced == Len(r) = Len(s) /\ r[1].field = w.field /\ (Len(s) = 2 => r[2] = s[2])
               saving(x) == x.op \in {"update", "replace"}
           IN  /\ w.op = "set" /\ (dropped \/ (replaced /\ saving(r[1]))) =>
                      OutOf(Put(m, w.field, w.value), r, f) = OutOf(m, s, f)
               /\ w.op = "inc" /\ replaced /\ r[1].op = "set"
                    /\ r[1].value = Least(m[w.field] + 1, MaxCount) =>
                      OutOf(m, r, f) = OutOf(m, s, f)
               /\ saving(w) /\ (dropped \/ (replaced /\ saving(r[1]))) =>
                      OutOf(m, r, f) = OutOf(m, s, f)
<1> DEFINE w == s[1]
<1>1. /\ Len(s) \in {1, 2} /\ w \in Fit /\ Len(r) \in {0, 1, 2} /\ Len(s) \in Nat /\ Len(r) \in Nat
      /\ Len(s) = 2 => s[2] \in Fit /\ s[2].op = "set" /\ s[2].field # w.field
  BY SeqFacts
<1>2. w.field \in Field /\ w.value \in FieldType(w.field)  BY <1>1, FitFields
<1>3. Put(m, w.field, w.value)[f] = IF f = w.field THEN w.value ELSE m[f]
  BY <1>2, RecordSet
<1> DEFINE m2 == Put(m, w.field, w.value)
<1>4. m2[f] = IF f = w.field THEN w.value ELSE m[f]  BY <1>3
<1>5. \A x, y : OutOf(x, y, f) =
          IF Len(y) > 0 /\ y[1].op = "set" /\ y[1].field = f THEN y[1].value
          ELSE IF Len(y) > 0 /\ y[1].op = "inc" /\ y[1].field = f THEN Least(x[f] + 1, MaxCount)
          ELSE IF Len(y) = 2 /\ y[2].field = f THEN y[2].value
          ELSE x[f]
  BY DEF OutOf
<1> HIDE DEF w, m2
<1>6. s[1] = w  BY DEF w
<1>7. ASSUME w.op = "set", Len(r) = Len(s) - 1, Len(r) = 1 => r[1] = s[2]
      PROVE  OutOf(m2, r, f) = OutOf(m, s, f)
  <2>1. CASE Len(s) = 1  BY <1>1, <1>4, <1>5, <1>6, <1>7, <2>1
  <2>2. CASE Len(s) = 2  BY <1>1, <1>4, <1>5, <1>6, <1>7, <2>2
  <2> QED BY <1>1, <2>1, <2>2
<1>8. ASSUME w.op = "set", Len(r) = Len(s), r[1].field = w.field, Len(s) = 2 => r[2] = s[2],
             r[1].op \in {"update", "replace"}
      PROVE  OutOf(m2, r, f) = OutOf(m, s, f)
  BY <1>1, <1>4, <1>5, <1>6, <1>8
<1>9. ASSUME w.op = "inc", Len(r) = Len(s), r[1].field = w.field, Len(s) = 2 => r[2] = s[2],
             r[1].op = "set", r[1].value = Least(m[w.field] + 1, MaxCount)
      PROVE  OutOf(m, r, f) = OutOf(m, s, f)
  BY <1>1, <1>5, <1>6, <1>9
<1>10. ASSUME w.op \in {"update", "replace"}, Len(r) = Len(s) - 1, Len(r) = 1 => r[1] = s[2]
       PROVE  OutOf(m, r, f) = OutOf(m, s, f)
  <2>1. CASE Len(s) = 1  BY <1>1, <1>5, <1>6, <1>10, <2>1
  <2>2. CASE Len(s) = 2  BY <1>1, <1>5, <1>6, <1>10, <2>2
  <2> QED BY <1>1, <2>1, <2>2
<1>11. ASSUME w.op \in {"update", "replace"}, Len(r) = Len(s), r[1].field = w.field,
              Len(s) = 2 => r[2] = s[2], r[1].op \in {"update", "replace"}
       PROVE  OutOf(m, r, f) = OutOf(m, s, f)
  BY <1>1, <1>5, <1>6, <1>11
<1> QED BY <1>7, <1>8, <1>9, <1>10, <1>11 DEF w, m2

\* the same, one by one
LEMMA OutAfterSet ==
    ASSUME NEW s \in Seqs, s # <<>>, NEW m \in Record, NEW f \in Field, NEW r \in Seqs,
           s[1].op = "set",
           \/ Len(r) = Len(s) - 1 /\ (Len(r) = 1 => r[1] = s[2])
           \/ /\ Len(r) = Len(s) /\ r[1].field = s[1].field /\ (Len(s) = 2 => r[2] = s[2])
              /\ r[1].op \in {"update", "replace"}
    PROVE  OutOf(Put(m, s[1].field, s[1].value), r, f) = OutOf(m, s, f)
BY OutKept

LEMMA OutAfterSave ==
    ASSUME NEW s \in Seqs, s # <<>>, NEW m \in Record, NEW f \in Field, NEW r \in Seqs,
           s[1].op \in {"update", "replace"},
           \/ Len(r) = Len(s) - 1 /\ (Len(r) = 1 => r[1] = s[2])
           \/ /\ Len(r) = Len(s) /\ r[1].field = s[1].field /\ (Len(s) = 2 => r[2] = s[2])
              /\ r[1].op \in {"update", "replace"}
    PROVE  OutOf(m, r, f) = OutOf(m, s, f)
BY OutKept

(***************************************************************************)
(* What the steps share.                                                   *)
(***************************************************************************)
IInv == TypeInv /\ SaveInv /\ FailsInv /\ LimitInv /\ RetryInv

LEMMA FieldParts ==
    /\ PartFields("fails") = {"failure_count", "failure_time"}
    /\ PartFields("limit") = {"tmr_limit_time", "tmr_limit_wait"}
    /\ \A f \in Field : Part(f) \in Parts /\ f \in PartFields(Part(f))
    /\ \A p \in Parts : \A f \in PartFields(p) : f \in Field /\ Part(f) = p
BY DEF PartFields, Part, Field, Parts

LEMMA ThreadFacts ==
    ASSUME TypeInv, NEW t \in Threads
    PROVE  /\ writes[t] \in Seqs
           /\ writes[t] # <<>> <=> Len(writes[t]) > 0
           /\ writes[t] # <<>> => /\ Head(writes[t]) = writes[t][1] /\ writes[t][1] \in Fit
                                  /\ writes[t][1].field \in Field
                                  /\ writes[t][1].value \in FieldType(writes[t][1].field)
                                  /\ writes[t][1].op \in {"inc", "set", "update", "replace"}
           /\ \A p : Writes(t, p) <=> writes[t] # <<>> /\ Part(writes[t][1].field) = p
<1>1. writes[t] \in Seqs  BY DEF TypeInv
<1>2. writes[t] # <<>> <=> Len(writes[t]) > 0  BY <1>1, SeqFacts
<1> QED BY <1>1, <1>2, SeqFacts, FitFields DEF Writes, PartOf

\* A thread that does not write a part leaves its fields.
LEMMA OutOthers ==
    ASSUME TypeInv, NEW t \in Threads, NEW p \in Parts, NEW f \in PartFields(p), ~Writes(t, p)
    PROVE  Out(t, f) = mem[f]
<1>1. writes[t] \in Seqs  BY DEF TypeInv
<1>2. Part(f) = p  BY FieldParts
<1> QED BY <1>1, <1>2, SeqFacts, ThreadFacts DEF Out, OutOf

LEMMA SavedTyped ==
    ASSUME TypeInv
    PROVE  Saved \in Record
BY NoRowTyped DEF TypeInv, Saved

\* The setters.
LEMMA AssignFacts ==
    ASSUME TypeInv, NEW t \in Threads, Assign(t)
    PROVE  LET w == writes[t][1] IN
           /\ TypeInv' /\ writes[t] # <<>>
           /\ UNCHANGED <<row, at, limit, streak, raced, retried>>
           /\ \A u \in Threads \ {t} : writes'[u] = writes[u]
           /\ \A p : Writes(t, p)' => Writes(t, p)
           /\ \A f \in Field : Out(t, f)' = Out(t, f)
           /\ ~Saving(t)
           /\ \A f \in Field : mem'[f] # mem[f] =>
                 f = w.field /\ Saving(t)' /\ writes'[t][1].field = f
           /\ Saving(t)' => writes'[t][1].value = mem'[writes'[t][1].field]
<1> DEFINE w == writes[t][1]
           s == writes[t]
           s2 == writes'[t]
<1>1. /\ s # <<>> /\ Head(s) = w /\ s \in Seqs
      /\ w \in Fit /\ w.field \in Field /\ w.value \in FieldType(w.field)
      /\ w.op = "inc" => w.field = "failure_count"
      /\ \A p : Writes(t, p) <=> Part(w.field) = p
  BY ThreadFacts, FitFields DEF Assign
<1>2. /\ UNCHANGED <<row, at, limit, streak, raced, retried>>
      /\ \A u \in Threads \ {t} : writes'[u] = writes[u]
  BY DEF Assign, Then, TypeInv
<1>3. CASE w.op = "inc"
  <2> DEFINE x == Set(w.field, Least(mem[w.field] + 1, MaxCount))
  <2>1. mem' = mem /\ writes' = [writes EXCEPT ![t] = <<x>> \o Tail(@)]
    BY <1>1, <1>3 DEF Assign, Then
  <2>2. x \in Fit /\ x.op = "set" /\ x.field = w.field
        /\ x.value = Least(mem[w.field] + 1, MaxCount)
    <3>1. mem["failure_count"] \in Count  BY RecordFields DEF TypeInv
    <3>2. Least(mem[w.field] + 1, MaxCount) \in FieldType(w.field)
      BY <1>1, <1>3, <3>1, Ages DEF FieldType, Least, Count
    <3> QED BY <1>1, <3>2, SetFit
  <2> HIDE DEF x
  <2>3. s2 = <<x>> \o Tail(s)  BY <2>1 DEF TypeInv
  <2>4. s2 \in Seqs /\ Len(s2) = Len(s) /\ s2[1] = x /\ (Len(s) = 2 => s2[2] = s[2])
    BY <1>1, <2>2, <2>3, Repl
  <2>5. TypeInv'  BY <1>2, <2>1, <2>3, <2>4 DEF TypeInv
  <2>6. \A f \in Field : OutOf(mem, s2, f) = OutOf(mem, s, f)
    BY <1>1, <1>3, <2>2, <2>4, OutKept DEF TypeInv
  <2>7. ~Saving(t)' /\ ~Saving(t)
    BY <1>3, <2>2, <2>4 DEF Saving
  <2>8. \A p : Writes(t, p)' => Part(w.field) = p
    BY <2>2, <2>4, <2>5, ThreadFacts DEF Writes, PartOf
  <2> QED BY <1>1, <1>2, <2>1, <2>5, <2>6, <2>7, <2>8 DEF Out
<1>4. CASE w.op = "set"
  <2> DEFINE x == With(w, "update")
  <2>1. /\ mem' = Put(mem, w.field, w.value)
        /\ writes' = [writes EXCEPT ![t] = (IF mem[w.field] = w.value THEN <<>> ELSE <<x>>) \o Tail(@)]
    BY <1>1, <1>4 DEF Assign, Then, Put, With
  <2>2. x \in Fit /\ x.op = "update" /\ x.field = w.field /\ x.value = w.value
    BY <1>1, WithFit
  <2> HIDE DEF x
  <2>3. /\ mem' \in Record
        /\ \A f \in Field : mem'[f] = IF f = w.field THEN w.value ELSE mem[f]
    BY <1>1, <2>1, RecordSet DEF TypeInv
  <2>4. ~Saving(t)  BY <1>4 DEF Saving
  <2>5. CASE mem[w.field] = w.value
    <3>1. s2 = <<>> \o Tail(s)  BY <2>1, <2>5 DEF TypeInv
    <3>2. s2 \in Seqs /\ Len(s2) = Len(s) - 1 /\ (Len(s2) = 1 => s2[1] = s[2])
      BY <1>1, <3>1, Drop
    <3>3. TypeInv'  BY <1>2, <2>1, <2>3, <3>1, <3>2 DEF TypeInv
    <3>4. \A f \in Field : OutOf(mem', s2, f) = OutOf(mem, s, f)
      <4>1. mem \in Record  BY DEF TypeInv
      <4> HIDE DEF s, s2
      <4>2. s[1] = w /\ s # <<>> /\ s \in Seqs  BY <1>1 DEF s
      <4> HIDE DEF w
      <4> QED BY <1>4, <2>1, <3>2, <4>1, <4>2, OutAfterSet
    <3>5. Len(s) \in {1, 2} /\ (Len(s) = 2 => s[2].op = "set" /\ Part(s[2].field) = Part(w.field))
      BY <1>1, SeqFacts
    <3>6. ~Saving(t)'
      BY <3>2, <3>3, <3>5, ThreadFacts, SeqFacts DEF Saving
    <3>7. \A p : Writes(t, p)' => Part(w.field) = p
      <4>1. s2 # <<>> => Len(s2) \in {1, 2}  BY <3>2, SeqFacts
      <4>2. CASE Len(s) = 1
        <5>1. Len(s2) = 0  BY <3>2, <4>2
        <5> QED BY <4>1, <5>1 DEF Writes
      <4>3. CASE Len(s) = 2
        <5>1. Len(s2) = 1  BY <3>2, <4>3
        <5> QED BY <3>2, <3>5, <4>3, <5>1 DEF Writes, PartOf
      <4> QED BY <3>5, <4>2, <4>3
    <3> QED BY <1>1, <1>2, <2>3, <2>4, <2>5, <3>3, <3>4, <3>6, <3>7 DEF Out
  <2>6. CASE mem[w.field] # w.value
    <3>1. s2 = <<x>> \o Tail(s)  BY <2>1, <2>6 DEF TypeInv
    <3>2. s2 \in Seqs /\ Len(s2) = Len(s) /\ s2[1] = x /\ (Len(s) = 2 => s2[2] = s[2])
      BY <1>1, <2>2, <3>1, Repl
    <3>3. TypeInv'  BY <1>2, <2>1, <2>3, <3>1, <3>2 DEF TypeInv
    <3>4. \A f \in Field : OutOf(mem', s2, f) = OutOf(mem, s, f)
      <4>1. mem \in Record  BY DEF TypeInv
      <4> HIDE DEF s, s2
      <4>2. s[1] = w /\ s # <<>> /\ s \in Seqs  BY <1>1 DEF s
      <4> HIDE DEF w
      <4> QED BY <1>4, <2>1, <2>2, <3>2, <4>1, <4>2, OutAfterSet
    <3>5. s2 # <<>>  BY <1>1, <3>2, SeqFacts
    <3>6. Saving(t)' /\ writes'[t][1].field = w.field /\ writes'[t][1].value = w.value
      BY <2>2, <3>2, <3>5 DEF Saving
    <3>7. \A p : Writes(t, p)' => Part(w.field) = p
      BY <2>2, <3>2 DEF Writes, PartOf
    <3> QED BY <1>1, <1>2, <2>3, <2>4, <3>3, <3>4, <3>6, <3>7 DEF Out
  <2> QED BY <2>5, <2>6
<1> QED BY <1>1, <1>3, <1>4 DEF Assign

\* What a step remembers is well typed.
LEMMA RemembersTyped ==
    ASSUME NEW left \in 0..MaxAge, NEW count \in Count, Remembers(left, count)
    PROVE  /\ limit' \in 0..MaxAge /\ streak' \in Count
           /\ limit' = IF "limit" \in raced' THEN 0 ELSE left
           /\ streak' = IF "fails" \in raced' THEN 0 ELSE count
BY Ages DEF Remembers, Count

\* _save_fail_value.
LEMMA SaveFacts ==
    ASSUME TypeInv, NEW t \in Threads, Save(t)
    PROVE  LET w == writes[t][1] IN
           /\ TypeInv' /\ Saving(t)
           /\ UNCHANGED <<mem, at, retried>>
           /\ \A u \in Threads \ {t} : writes'[u] = writes[u]
           /\ \A p : Writes(t, p)' => Writes(t, p)
           /\ \A f \in Field : Out(t, f)' = Out(t, f)
           /\ raced \subseteq raced'
           /\ limit' = IF "limit" \in raced' THEN 0 ELSE limit
           /\ streak' = IF "fails" \in raced' THEN 0 ELSE streak
           /\ \/ raced' = Parts
              \/ /\ Saving(t)' /\ writes'[t][1].field = w.field /\ writes'[t][1].value = w.value
                 /\ \A f \in Field : Saved'[f] = Saved[f]
              \/ /\ ~Saving(t)'
                 /\ \A f \in Field : Saved'[f] = IF f = w.field THEN w.value ELSE Saved[f]
<1> DEFINE w == writes[t][1]
           s == writes[t]
           s2 == writes'[t]
<1>1. /\ s # <<>> /\ Head(s) = w /\ s \in Seqs
      /\ w \in Fit /\ w.field \in Field /\ w.value \in FieldType(w.field)
      /\ \A p : Writes(t, p) <=> Part(w.field) = p
  BY ThreadFacts, FitFields DEF Save
<1>2. w.op \in {"update", "replace"}
  BY <1>1 DEF Save
<1>3. /\ UNCHANGED <<mem, at, retried>> /\ Remembers(limit, streak)
      /\ \A u \in Threads \ {t} : writes'[u] = writes[u]
      /\ raced' = raced \/ raced' = Parts
  BY DEF Save, Then, TypeInv, Parts
<1>4. /\ limit' \in 0..MaxAge /\ streak' \in Count /\ raced \subseteq raced' /\ raced' \subseteq Parts
      /\ limit' = IF "limit" \in raced' THEN 0 ELSE limit
      /\ streak' = IF "fails" \in raced' THEN 0 ELSE streak
  BY <1>3, RemembersTyped DEF TypeInv, Parts
<1>5. Saving(t)  BY <1>1, <1>2 DEF Saving
<1>6. CASE row' = row /\ Then(t, <<With(w, "replace")>>) /\ row = None
  <2> DEFINE x == With(w, "replace")
  <2>1. x \in Fit /\ x.op = "replace" /\ x.field = w.field /\ x.value = w.value
    BY <1>1, WithFit
  <2>2. s2 = <<x>> \o Tail(s)  BY <1>6 DEF TypeInv, Then
  <2> HIDE DEF x
  <2>3. s2 \in Seqs /\ Len(s2) = Len(s) /\ s2[1] = x /\ (Len(s) = 2 => s2[2] = s[2])
    BY <1>1, <2>1, <2>2, Repl
  <2>4. writes' = [writes EXCEPT ![t] = s2]  BY <1>6, <2>2 DEF Then, x
  <2>5. TypeInv'  BY <1>3, <1>4, <1>6, <2>3, <2>4 DEF TypeInv, Parts
  <2>6. \A f \in Field : OutOf(mem, s2, f) = OutOf(mem, s, f)
    <3>1. mem \in Record  BY DEF TypeInv
    <3> HIDE DEF s, s2
    <3>2. s[1] = w /\ s # <<>> /\ s \in Seqs  BY <1>1 DEF s
    <3> HIDE DEF w
    <3> QED BY <1>2, <2>1, <2>3, <3>1, <3>2, OutAfterSave
  <2>7. s2 # <<>>  BY <1>1, <2>3, SeqFacts
  <2>8. Saving(t)' /\ writes'[t][1].field = w.field /\ writes'[t][1].value = w.value
    BY <2>1, <2>3, <2>7 DEF Saving
  <2>9. \A p : Writes(t, p)' => Part(w.field) = p
    BY <2>1, <2>3 DEF Writes, PartOf
  <2>10. Saved' = Saved  BY <1>6 DEF Saved
  <2> QED BY <1>1, <1>3, <1>4, <1>5, <2>5, <2>6, <2>8, <2>9, <2>10 DEF Out
<1>7. ASSUME Then(t, <<>>), row' \in Record,
             \/ raced' = Parts
             \/ \A f \in Field : row'[f] = IF f = w.field THEN w.value ELSE Saved[f]
      PROVE  /\ TypeInv' /\ ~Saving(t)'
             /\ \A p : Writes(t, p)' => Writes(t, p)
             /\ \A f \in Field : Out(t, f)' = Out(t, f)
             /\ \/ raced' = Parts
                \/ \A f \in Field : Saved'[f] = IF f = w.field THEN w.value ELSE Saved[f]
  <2>1. s2 = <<>> \o Tail(s)  BY <1>7 DEF TypeInv, Then
  <2>2. s2 \in Seqs /\ Len(s2) = Len(s) - 1 /\ (Len(s2) = 1 => s2[1] = s[2])
    BY <1>1, <2>1, Drop
  <2>3. writes' = [writes EXCEPT ![t] = s2]  BY <1>7, <2>1 DEF Then
  <2>4. TypeInv'  BY <1>3, <1>4, <1>7, <2>2, <2>3 DEF TypeInv, Parts
  <2>5. \A f \in Field : OutOf(mem, s2, f) = OutOf(mem, s, f)
    <3>1. mem \in Record  BY DEF TypeInv
    <3> HIDE DEF s, s2
    <3>2. s[1] = w /\ s # <<>> /\ s \in Seqs  BY <1>1 DEF s
    <3> HIDE DEF w
    <3> QED BY <1>2, <2>2, <3>1, <3>2, OutAfterSave
  <2>6. Len(s) \in {1, 2} /\ (Len(s) = 2 => s[2].op = "set" /\ Part(s[2].field) = Part(w.field))
    BY <1>1, SeqFacts
  <2>7. s2 # <<>> => Len(s2) \in {1, 2}  BY <2>2, SeqFacts
  <2>8. s2 # <<>> => s2[1].op = "set" /\ Part(s2[1].field) = Part(w.field)
    <3>1. CASE Len(s) = 1
      <4>1. Len(s2) = 0  BY <2>2, <3>1
      <4> QED BY <2>7, <4>1
    <3>2. CASE Len(s) = 2
      <4>1. Len(s2) = 1  BY <2>2, <3>2
      <4> QED BY <2>2, <2>6, <3>2, <4>1
    <3> QED BY <2>6, <3>1, <3>2
  <2>9. ~Saving(t)' /\ \A p : Writes(t, p)' => Part(w.field) = p
    BY <2>8 DEF Saving, Writes, PartOf
  <2>10. Saved' = row'  BY <1>7, NoneAssumption DEF Saved
  <2> QED BY <1>1, <1>3, <1>7, <2>4, <2>5, <2>9, <2>10 DEF Out
<1>8. CASE w.op = "update" /\ row # None
  <2>1. row' = Put(row, w.field, w.value) /\ Then(t, <<>>)
    BY <1>1, <1>8 DEF Save, Put
  <2>2. /\ row' \in Record
        /\ \A f \in Field : row'[f] = IF f = w.field THEN w.value ELSE row[f]
    BY <1>1, <1>8, <2>1, RecordSet DEF TypeInv
  <2>3. Saved = row  BY <1>8 DEF Saved
  <2> QED BY <1>3, <1>4, <1>5, <1>7, <2>1, <2>2, <2>3
<1>9. CASE w.op = "replace"
  <2>1. row' = Put(NoRow, w.field, w.value) /\ Then(t, <<>>)
        /\ (row = None \/ raced' = Parts)
    BY <1>1, <1>9 DEF Save, Put, Parts
  <2>2. /\ row' \in Record
        /\ \A f \in Field : row'[f] = IF f = w.field THEN w.value ELSE NoRow[f]
    BY <1>1, <2>1, RecordSet, NoRowTyped
  <2>3. row = None => Saved = NoRow  BY DEF Saved
  <2> QED BY <1>3, <1>4, <1>5, <1>7, <2>1, <2>2, <2>3
<1>10. CASE w.op = "update" /\ row = None
  <2>1. row' = row /\ Then(t, <<With(w, "replace")>>)
    BY <1>1, <1>10 DEF Save, With
  <2> QED BY <1>6, <1>10, <2>1
<1> QED BY <1>2, <1>8, <1>9, <1>10

\* A thread begins to write a part.
LEMMA BeginsFacts ==
    ASSUME TypeInv, NEW t \in Threads, NEW s \in Seqs, s # <<>>, s[1].op \in {"inc", "set"},
           NEW step \in Steps, writes[t] = <<>>, Begins(t, s, step)
    PROVE  LET p == PartOf(s) IN
           /\ UNCHANGED <<mem, row>> /\ at' = [at EXCEPT ![t] = step]
           /\ p \in Parts /\ writes' \in [Threads -> Seqs] /\ raced' \subseteq Parts
           /\ writes'[t] = s /\ \A u \in Threads \ {t} : writes'[u] = writes[u]
           /\ \A q : q # p => (q \in raced' <=> q \in raced)
           /\ p \notin raced' => /\ \A u \in Threads \ {t} : /\ ~Writes(u, p)
                                                             /\ p = "limit" => at[u] # "clear"
                                 /\ p \in raced => /\ Anew(s)
                                                   /\ \A f \in PartFields(p) : mem[f] = Saved[f]
           /\ ~Saving(t) /\ ~Saving(t)'
           /\ \A q : ~Writes(t, q) /\ (Writes(t, q)' <=> q = p)
<1> DEFINE p == PartOf(s)
<1>1. s[1] \in Fit /\ s[1].field \in Field  BY SeqFacts, FitFields
<1>2. p \in Parts  BY <1>1, FieldParts DEF PartOf
<1>3. /\ UNCHANGED <<mem, row>> /\ at' = [at EXCEPT ![t] = step]
      /\ writes' = [writes EXCEPT ![t] = s] /\ raced' = Races(t, s)
  BY DEF Begins
<1>4. /\ writes' \in [Threads -> Seqs] /\ writes'[t] = s
      /\ \A u \in Threads \ {t} : writes'[u] = writes[u]
  BY <1>3 DEF TypeInv
<1>5. raced' = IF Busy(t, p) THEN raced \cup {p}
               ELSE IF Anew(s) /\ \A f \in PartFields(p) : mem[f] = Saved[f] THEN raced \ {p}
               ELSE raced
  BY <1>3 DEF Races
<1>6. raced' \subseteq Parts /\ \A q : q # p => (q \in raced' <=> q \in raced)
  BY <1>2, <1>5 DEF TypeInv, Parts
<1>7. p \notin raced' => ~Busy(t, p)  BY <1>5
<1>8. p \notin raced' /\ p \in raced => Anew(s) /\ \A f \in PartFields(p) : mem[f] = Saved[f]
  BY <1>5
<1>9. ~Saving(t) /\ ~Saving(t)' /\ \A q : ~Writes(t, q) /\ (Writes(t, q)' <=> q = p)
  BY <1>4 DEF Saving, Writes, PartOf
<1> QED BY <1>2, <1>3, <1>4, <1>6, <1>7, <1>8, <1>9 DEF Busy

\* What the memory will hold of the other part is as before.
LEMMA BeginsOut ==
    ASSUME TypeInv, TypeInv', NEW t \in Threads, NEW s \in Seqs, s # <<>>,
           s[1].op \in {"inc", "set"},
           NEW step \in Steps, writes[t] = <<>>, Begins(t, s, step)
    PROVE  /\ \A u \in Threads, f \in Field : u # t \/ Part(f) # PartOf(s) => Out(u, f)' = Out(u, f)
           /\ \A u \in Threads, q \in Parts : q # PartOf(s) => (Alone(u, q)' <=> Alone(u, q))
           /\ \A f \in Field : Out(t, f) = mem[f]
<1>1. ASSUME NEW u \in Threads \ {t}, NEW f PROVE Out(u, f)' = Out(u, f)
  BY <1>1, BeginsFacts DEF Out
<1>2. \A f \in Field : Out(t, f) = mem[f]
  BY FieldParts, OutOthers, BeginsFacts
<1>3. ASSUME NEW f \in Field, Part(f) # PartOf(s) PROVE Out(t, f)' = mem[f]
  <2>1. Part(f) \in Parts /\ f \in PartFields(Part(f))  BY FieldParts
  <2>2. ~Writes(t, Part(f))'  BY <1>3, BeginsFacts
  <2>3. writes'[t] \in Seqs /\ writes'[t][1].op \in {"inc", "set"} /\ writes'[t] # <<>> /\ mem' = mem
    BY BeginsFacts
  <2>4. Part(writes'[t][1].field) # Part(f)
    BY <2>2, <2>3 DEF Writes, PartOf
  <2>5. OutOf(mem, writes'[t], f) = mem[f]
    BY <2>3, <2>4, SeqFacts DEF OutOf
  <2> QED BY <2>3, <2>5 DEF Out
<1>4. \A u \in Threads : \A q : q # PartOf(s) => (Writes(u, q)' <=> Writes(u, q))
  BY BeginsFacts DEF Writes, PartOf
<1> QED BY <1>1, <1>2, <1>3, <1>4 DEF Alone

LEMMA BeginsSaveInv ==
    ASSUME TypeInv, SaveInv, NEW t \in Threads, NEW s \in Seqs, s # <<>>,
           s[1].op \in {"inc", "set"},
           NEW step \in Steps, writes[t] = <<>>, Begins(t, s, step)
    PROVE  SaveInv'
<1> SUFFICES ASSUME NEW q \in Parts, q \notin raced'
             PROVE  /\ \A u \in Threads : Writes(u, q)' => Alone(u, q)'
                    /\ \A u \in Threads : Writes(u, q)' /\ Saving(u)' =>
                          writes'[u][1].value = mem'[writes'[u][1].field]
                    /\ \A f \in PartFields(q) :
                          \/ mem'[f] = Saved'[f]
                          \/ \E u \in Threads : Saving(u)' /\ writes'[u][1].field = f
  BY DEF SaveInv
<1>0. /\ mem' = mem /\ Saved' = Saved
      /\ writes'[t] = s /\ \A u \in Threads \ {t} : writes'[u] = writes[u]
      /\ ~Saving(t) /\ ~Saving(t)'
      /\ \A u \in Threads \ {t} : (Saving(u)' <=> Saving(u)) /\ \A r : Writes(u, r)' <=> Writes(u, r)
      /\ \A r : ~Writes(t, r) /\ (Writes(t, r)' <=> r = PartOf(s))
  BY BeginsFacts DEF Saved, Saving, Writes, PartOf
<1>1. CASE q # PartOf(s)
  <2>1. q \notin raced  BY <1>1, BeginsFacts
  <2> QED BY <1>0, <1>1, <2>1 DEF SaveInv, Alone
<1>2. CASE q = PartOf(s)
  <2>1. \A u \in Threads \ {t} : ~Writes(u, q)  BY <1>2, BeginsFacts
  <2>2. \A f \in PartFields(q) : mem[f] = Saved[f]
    <3>1. CASE q \in raced  BY <1>2, <3>1, BeginsFacts
    <3>2. CASE q \notin raced
      <4>1. SUFFICES ASSUME NEW f \in PartFields(q), NEW u \in Threads, Saving(u),
                            writes[u][1].field = f
                     PROVE  FALSE
        BY <3>2 DEF SaveInv
      <4>2. Writes(u, q)  BY <4>1, FieldParts DEF Writes, PartOf, Saving
      <4> QED BY <1>0, <2>1, <4>2
    <3> QED BY <3>1, <3>2
  <2> QED BY <1>0, <1>2, <2>1, <2>2 DEF Alone
<1> QED BY <1>1, <1>2

\* What is begun is one write or two.
LEMMA One ==
    ASSUME NEW w \in Fit, w.op = "set"
    PROVE  /\ <<w>> \in Seqs /\ <<w>> # <<>> /\ <<w>>[1] = w /\ PartOf(<<w>>) = Part(w.field)
           /\ \A m, f : OutOf(m, <<w>>, f) = IF f = w.field THEN w.value ELSE m[f]
<1>1. <<w>> \in Seq(Fit) /\ Len(<<w>>) = 1 /\ <<w>>[1] = w /\ <<w>> # <<>>  OBVIOUS
<1> DEFINE z == <<w>>
<1> HIDE DEF z
<1>2. z \in Seq(Fit) /\ Len(z) = 1 /\ z[1] = w /\ z # <<>>  BY <1>1 DEF z
<1>3. z \in Seqs
  <2>1. Len(z) <= 2 /\ (Len(z) = 2 => Follows(z[1], z[2]))  BY <1>2
  <2> QED BY <1>2, <2>1 DEF Seqs
<1>4. \A m, f : OutOf(m, z, f) = IF f = w.field THEN w.value ELSE m[f]
  BY <1>2 DEF OutOf
<1> QED BY <1>2, <1>3, <1>4 DEF z, PartOf

LEMMA Pair ==
    ASSUME NEW a \in Fit, NEW b \in Fit, Follows(a, b), a.op \in {"inc", "set"}
    PROVE  /\ <<a, b>> \in Seqs /\ <<a, b>> # <<>> /\ <<a, b>>[1] = a
           /\ PartOf(<<a, b>>) = Part(a.field)
           /\ \A m, f : OutOf(m, <<a, b>>, f) =
                  IF f = a.field THEN (IF a.op = "set" THEN a.value ELSE Least(m[f] + 1, MaxCount))
                  ELSE IF f = b.field THEN b.value ELSE m[f]
<1>1. /\ <<a, b>> \in Seq(Fit) /\ Len(<<a, b>>) = 2 /\ <<a, b>>[1] = a /\ <<a, b>>[2] = b
      /\ <<a, b>> # <<>>
  OBVIOUS
<1> DEFINE z == <<a, b>>
<1> HIDE DEF z
<1>2. z \in Seq(Fit) /\ Len(z) = 2 /\ z[1] = a /\ z[2] = b /\ z # <<>>  BY <1>1 DEF z
<1>3. z \in Seqs
  <2>1. Len(z) <= 2 /\ (Len(z) = 2 => Follows(z[1], z[2]))  BY <1>2
  <2> QED BY <1>2, <2>1 DEF Seqs
<1>4. \A m, f : OutOf(m, z, f) =
          IF f = a.field THEN (IF a.op = "set" THEN a.value ELSE Least(m[f] + 1, MaxCount))
          ELSE IF f = b.field THEN b.value ELSE m[f]
  BY <1>2 DEF OutOf
<1> QED BY <1>2, <1>3, <1>4 DEF z, PartOf

\* Begun for one part, the other's invariant is kept.
LEMMA BeginsFails ==
    ASSUME TypeInv, TypeInv', FailsInv, NEW t \in Threads, NEW s \in Seqs, s # <<>>,
           s[1].op \in {"inc", "set"}, PartOf(s) = "limit",
           NEW step \in Steps, writes[t] = <<>>, Begins(t, s, step),
           streak' = IF "fails" \in raced' THEN 0 ELSE streak
    PROVE  FailsInv'
<1>1. "fails" \in raced' <=> "fails" \in raced  BY BeginsFacts
<1>2. \A u \in Threads : /\ Out(u, "failure_count")' = Out(u, "failure_count")
                         /\ Out(u, "failure_time")' = Out(u, "failure_time")
                         /\ Alone(u, "fails")' <=> Alone(u, "fails")
  BY BeginsOut DEF Field, Part, Parts
<1> QED BY <1>1, <1>2 DEF FailsInv

LEMMA BeginsLimit ==
    ASSUME TypeInv, TypeInv', LimitInv, NEW t \in Threads, NEW s \in Seqs, s # <<>>,
           s[1].op \in {"inc", "set"}, PartOf(s) = "fails",
           NEW step \in Steps, writes[t] = <<>>, Begins(t, s, step), step # "clear",
           limit' = IF "limit" \in raced' THEN 0 ELSE limit
    PROVE  LimitInv'
<1>1. "limit" \in raced' <=> "limit" \in raced  BY BeginsFacts
<1>2. \A u \in Threads : /\ Out(u, "tmr_limit_time")' = Out(u, "tmr_limit_time")
                         /\ Out(u, "tmr_limit_wait")' = Out(u, "tmr_limit_wait")
                         /\ Alone(u, "limit")' <=> Alone(u, "limit")
  BY BeginsOut DEF Field, Part, Parts
<1>3. \A u \in Threads : at'[u] = "clear" => at[u] = "clear"
  BY BeginsFacts DEF TypeInv
<1>4. \A u \in Threads : OutLeft(u)' = OutLeft(u)
  BY <1>2 DEF OutLeft, LeftOf
<1> QED BY <1>1, <1>2, <1>3, <1>4 DEF LimitInv

\* How long is left, of what the memory will hold.
LEMMA LeftFacts ==
    ASSUME NEW a \in Age, NEW b \in Age
    PROVE  /\ LeftOf(a, b) \in Nat
           /\ a = None \/ b = None => LeftOf(a, b) = 0
           /\ LeftOf(Older(a), b) <= LeftOf(a, b)
           /\ LeftOf(Older(a), b) + 1 >= LeftOf(a, b)
           /\ LeftOf(b, b) = 0
           /\ b # None => LeftOf(0, b) = b
<1>1. a # None => a \in Nat /\ a <= MaxAge  BY DEF Age
<1>2. b # None => b \in Nat /\ b <= MaxAge  BY DEF Age
<1>3. Older(a) = None <=> a = None
  BY <1>1, Ages DEF Older, Least
<1>4. a # None => Older(a) \in Nat /\ Older(a) = IF a + 1 <= MaxAge THEN a + 1 ELSE MaxAge
  BY <1>1, Ages DEF Older, Least
<1> QED BY <1>1, <1>2, <1>3, <1>4, Ages DEF LeftOf, Left

LEMMA LimitIsLeft ==
    ASSUME NEW m \in Record
    PROVE  LimitLeft(m) = LeftOf(m["tmr_limit_time"], m["tmr_limit_wait"])
BY RecordFields DEF LimitLeft, LimitIsSet, LeftOf

LEMMA OutOfTyped ==
    ASSUME NEW m \in Record, NEW s \in Seqs, NEW f \in Field
    PROVE  OutOf(m, s, f) \in FieldType(f)
<1>1. m[f] \in FieldType(f) /\ m["failure_count"] \in Count  BY RecordFields
<1>2. Least(m["failure_count"] + 1, MaxCount) \in FieldType("failure_count")
  BY <1>1, Ages DEF Least, Count, FieldType
<1>3. Len(s) > 0 => /\ s[1].value \in FieldType(s[1].field)
                    /\ s[1].op = "inc" => s[1].field = "failure_count"
  BY SeqFacts, FitFields
<1>4. Len(s) = 2 => s[2].value \in FieldType(s[2].field)
  BY SeqFacts, FitFields
<1> QED BY <1>1, <1>2, <1>3, <1>4 DEF OutOf

LEMMA OutTyped ==
    ASSUME TypeInv, NEW t \in Threads, NEW f \in Field
    PROVE  Out(t, f) \in FieldType(f)
BY OutOfTyped DEF Out, TypeInv

LEMMA BeginsType ==
    ASSUME TypeInv, NEW t \in Threads, NEW s \in Seqs, s # <<>>, s[1].op \in {"inc", "set"},
           NEW step \in Steps, writes[t] = <<>>, Begins(t, s, step),
           NEW left \in 0..MaxAge, NEW count \in Count, Remembers(left, count),
           retried' \in Threads \cup {None}
    PROVE  TypeInv'
<1>1. limit' \in 0..MaxAge /\ streak' \in Count  BY RemembersTyped
<1>2. /\ UNCHANGED <<mem, row>> /\ at' \in [Threads -> Steps]
      /\ writes' \in [Threads -> Seqs] /\ raced' \subseteq Parts
  BY BeginsFacts DEF TypeInv
<1> QED BY <1>1, <1>2 DEF TypeInv, Parts

\* A part that is now in order although it was not has been written anew.
LEMMA NotAnew ==
    /\ ~Anew(<<Set("tmr_limit_time", None), Set("tmr_limit_wait", None)>>)
    /\ \A v : ~Anew(<<Set("failure_time", v)>>)
    /\ \A v : ~Anew(<<Inc("failure_count"), Set("failure_time", v)>>)
<1>1. ~Anew(<<Set("tmr_limit_time", None), Set("tmr_limit_wait", None)>>)
  BY DEF Anew, Set
<1>2. ASSUME NEW v PROVE ~Anew(<<Set("failure_time", v)>>)
  <2> DEFINE s == <<Set("failure_time", v)>>
  <2>1. \A i \in DOMAIN s : s[i].field = "failure_time"  BY DEF Set
  <2>2. PartOf(s) = "fails"  BY DEF PartOf, Part, Set
  <2>3. "failure_count" \in PartFields(PartOf(s))  BY <2>2, FieldParts
  <2> HIDE DEF s
  <2>4. "failure_count" \notin {s[i].field : i \in DOMAIN s}  BY <2>1
  <2>5. ~Anew(s)  BY <2>3, <2>4 DEF Anew
  <2> QED BY <2>5 DEF s
<1>3. ASSUME NEW v PROVE ~Anew(<<Inc("failure_count"), Set("failure_time", v)>>)
  <2> DEFINE s == <<Inc("failure_count"), Set("failure_time", v)>>
  <2>1. 1 \in DOMAIN s /\ s[1].op = "inc"  BY DEF Inc
  <2> HIDE DEF s
  <2>2. ~Anew(s)  BY <2>1 DEF Anew
  <2> QED BY <2>2 DEF s
<1> QED BY <1>1, <1>2, <1>3

\* A user's retry says nothing any more.
LEMMA RetryForgotten == retried' = None => RetryInv'
BY DEF RetryInv

LEMMA ClearStep ==
    ASSUME IInv, NEW t \in Threads, Clear(t)
    PROVE  IInv'
<1> DEFINE a == Set("tmr_limit_time", None)
           b == Set("tmr_limit_wait", None)
           s == <<a, b>>
<1>0. TypeInv /\ SaveInv /\ FailsInv /\ LimitInv  BY DEF IInv
<1>1. /\ at[t] = "clear" /\ writes[t] = <<>> /\ Begins(t, s, "cleared") /\ retried' = None
      /\ Remembers(limit, streak)
  BY DEF Clear, At
<1>2. /\ a \in Fit /\ a.op = "set" /\ a.field = "tmr_limit_time" /\ a.value = None
      /\ b \in Fit /\ b.op = "set" /\ b.field = "tmr_limit_wait" /\ b.value = None
  BY SetFit DEF Field, FieldType, Age
<1>3. ~Anew(s)  BY NotAnew
<1> HIDE DEF a, b
<1>4. Follows(a, b)  BY <1>2 DEF Follows, Part
<1>5. /\ s \in Seqs /\ s # <<>> /\ s[1] = a /\ PartOf(s) = "limit"
      /\ \A m, f : OutOf(m, s, f) = IF f = a.field THEN a.value
                                    ELSE IF f = b.field THEN b.value ELSE m[f]
  BY <1>2, <1>4, Pair DEF Part
<1> HIDE DEF s
<1>6. limit \in 0..MaxAge /\ streak \in Count /\ "cleared" \in Steps
  BY <1>0 DEF TypeInv, Steps
<1>7. TypeInv'  BY <1>0, <1>1, <1>2, <1>5, <1>6, BeginsType
<1>8. SaveInv'  BY <1>0, <1>1, <1>2, <1>5, <1>6, BeginsSaveInv
<1>9. /\ limit' = IF "limit" \in raced' THEN 0 ELSE limit
      /\ streak' = IF "fails" \in raced' THEN 0 ELSE streak
  BY <1>1, <1>6, RemembersTyped
<1>10. FailsInv'  BY <1>0, <1>1, <1>2, <1>5, <1>6, <1>7, <1>9, BeginsFails
<1>11. LimitInv'
  <2> SUFFICES ASSUME "limit" \notin raced' PROVE LimitInv'
    BY DEF LimitInv
  <2>1. /\ "limit" \notin raced /\ Writes(t, "limit")'
        /\ writes'[t] = s /\ mem' = mem
    BY <1>0, <1>1, <1>2, <1>3, <1>5, <1>6, BeginsFacts
  <2>2. limit' = 0  BY <1>0, <1>1, <1>9, <2>1 DEF LimitInv
  <2>3. OutLeft(t)' = 0
    <3>1. Out(t, "tmr_limit_time")' = None
      BY <1>2, <1>5, <2>1 DEF Out
    <3> QED BY <3>1 DEF OutLeft, LeftOf
  <2>4. \A u \in Threads \ {t} : ~Alone(u, "limit")'
    BY <2>1 DEF Alone
  <2> QED BY <2>2, <2>3, <2>4 DEF LimitInv
<1> QED BY <1>1, <1>7, <1>8, <1>10, <1>11, RetryForgotten DEF IInv

LEMMA LimitedStep ==
    ASSUME IInv, NEW t \in Threads, NEW wait \in 1..MaxAge, LimitedTo(t, wait)
    PROVE  IInv'
<1> DEFINE a == Set("tmr_limit_time", 0)
           b == Set("tmr_limit_wait", wait)
           s == <<a, b>>
<1>0. TypeInv /\ SaveInv /\ FailsInv /\ LimitInv  BY DEF IInv
<1>1. /\ at[t] = "open" /\ writes[t] = <<>> /\ Begins(t, s, "idle") /\ retried' = None
      /\ Remembers(wait, streak)
  BY DEF LimitedTo, At
<1>2. /\ a \in Fit /\ a.op = "set" /\ a.field = "tmr_limit_time" /\ a.value = 0
      /\ b \in Fit /\ b.op = "set" /\ b.field = "tmr_limit_wait" /\ b.value = wait
  <2>1. 0 \in Age /\ wait \in Age  BY Ages DEF Age
  <2> QED BY <2>1, SetFit DEF Field, FieldType
<1> HIDE DEF a, b
<1>4. Follows(a, b)  BY <1>2 DEF Follows, Part
<1>5. /\ s \in Seqs /\ s # <<>> /\ s[1] = a /\ PartOf(s) = "limit"
      /\ \A m, f : OutOf(m, s, f) = IF f = a.field THEN a.value
                                    ELSE IF f = b.field THEN b.value ELSE m[f]
  BY <1>2, <1>4, Pair DEF Part
<1> HIDE DEF s
<1>6. wait \in 0..MaxAge /\ streak \in Count /\ "idle" \in Steps
  BY <1>0, Ages DEF TypeInv, Steps
<1>7. TypeInv'  BY <1>0, <1>1, <1>2, <1>5, <1>6, BeginsType
<1>8. SaveInv'  BY <1>0, <1>1, <1>2, <1>5, <1>6, BeginsSaveInv
<1>9. /\ limit' = IF "limit" \in raced' THEN 0 ELSE wait
      /\ streak' = IF "fails" \in raced' THEN 0 ELSE streak
  BY <1>1, <1>6, RemembersTyped
<1>10. FailsInv'  BY <1>0, <1>1, <1>2, <1>5, <1>6, <1>7, <1>9, BeginsFails
<1>11. LimitInv'
  <2> SUFFICES ASSUME "limit" \notin raced' PROVE LimitInv'
    BY DEF LimitInv
  <2>1. /\ Writes(t, "limit")' /\ writes'[t] = s /\ mem' = mem
        /\ \A u \in Threads \ {t} : at[u] # "clear"
        /\ at' = [at EXCEPT ![t] = "idle"]
    BY <1>0, <1>1, <1>2, <1>5, <1>6, BeginsFacts
  <2>2. limit' = wait  BY <1>9
  <2>3. OutLeft(t)' = wait
    <3>1. Out(t, "tmr_limit_time")' = 0 /\ Out(t, "tmr_limit_wait")' = wait
      BY <1>2, <1>5, <2>1 DEF Out
    <3> QED BY <3>1, Ages DEF OutLeft, LeftOf, Left
  <2>4. \A u \in Threads \ {t} : ~Alone(u, "limit")'
    BY <2>1 DEF Alone
  <2>5. \A u \in Threads : at'[u] # "clear"
    BY <1>0, <2>1 DEF TypeInv
  <2> QED BY <2>2, <2>3, <2>4, <2>5 DEF LimitInv
<1> QED BY <1>1, <1>7, <1>8, <1>10, <1>11, RetryForgotten DEF IInv

\* Steps that write nothing.
LEMMA QuietStep ==
    ASSUME IInv, UNCHANGED <<mem, row, writes>>, at' \in [Threads -> Steps],
           raced \subseteq raced', raced' \subseteq Parts,
           NEW left \in {0, limit}, Remembers(left, streak), retried' \in Threads \cup {None},
           "limit" \notin raced' => \A t \in Threads : at'[t] = "clear" => left = 0,
           RetryInv'
    PROVE  IInv'
<1>0. TypeInv /\ SaveInv /\ FailsInv /\ LimitInv  BY DEF IInv
<1>1. /\ left \in 0..MaxAge /\ streak \in Count /\ limit \in 0..MaxAge
  BY <1>0, Ages DEF TypeInv
<1>2. /\ limit' \in 0..MaxAge /\ streak' \in Count
      /\ limit' = IF "limit" \in raced' THEN 0 ELSE left
      /\ streak' = IF "fails" \in raced' THEN 0 ELSE streak
  BY <1>1, RemembersTyped
<1>3. TypeInv'  BY <1>0, <1>2 DEF TypeInv, Parts
<1>4. SaveInv'
  BY <1>0 DEF SaveInv, Saved, Saving, Writes, Alone, PartOf
<1>5. FailsInv'
  BY <1>0, <1>2 DEF FailsInv, Alone, Writes, PartOf, Out
<1>6. LimitInv'
  <2> SUFFICES ASSUME "limit" \notin raced' PROVE LimitInv'
    BY DEF LimitInv
  <2>1. limit' = left /\ "limit" \notin raced  BY <1>2
  <2>2. \A t \in Threads : OutLeft(t)' = OutLeft(t) /\ (Alone(t, "limit")' <=> Alone(t, "limit"))
    BY DEF OutLeft, Out, Alone, Writes, PartOf
  <2>3. \A t \in Threads : Alone(t, "limit") => OutLeft(t) >= left
    <3>1. \A t \in Threads : OutLeft(t) \in Nat
      BY <1>0, OutTyped, LeftFacts DEF OutLeft, FieldType, Field
    <3> QED BY <1>0, <2>1, <3>1 DEF LimitInv
  <2> QED BY <2>1, <2>2, <2>3 DEF LimitInv
<1> QED BY <1>3, <1>4, <1>5, <1>6 DEF IInv

\* where a thread goes does not matter to a retry, but for the way out of it
LEMMA RetryQuiet ==
    ASSUME IInv, UNCHANGED <<mem, writes, retried>>, raced \subseteq raced',
           NEW t \in Threads, NEW step \in Steps \ {"retry"}, at' = [at EXCEPT ![t] = step],
           at[t] # "retry"
    PROVE  RetryInv'
<1>1. TypeInv /\ RetryInv  BY DEF IInv
<1>2. \A u \in Threads : at'[u] = "retry" <=> at[u] = "retry"
  BY <1>1 DEF TypeInv
<1>3. retried # None => retried \in Threads  BY <1>1 DEF TypeInv
<1> QED BY <1>1, <1>2, <1>3 DEF RetryInv, Out, OutLeft

LEMMA LimitExpiredStep ==
    ASSUME IInv, NEW t \in Threads, LimitExpired(t)
    PROVE  IInv'
<1>0. TypeInv /\ LimitInv  BY DEF IInv
<1>1. /\ at[t] = "idle" /\ writes[t] = <<>> /\ LimitLeft(mem) = 0
      /\ at' = [at EXCEPT ![t] = "clear"]
      /\ raced' = IF Busy(t, "limit") THEN raced \cup {"limit"} ELSE raced
      /\ Remembers(limit, streak) /\ UNCHANGED <<mem, row, writes, retried>>
  BY DEF LimitExpired, At
<1>2. at' \in [Threads -> Steps] /\ "clear" \in Steps \ {"retry"}
  BY <1>0, <1>1 DEF TypeInv, Steps
<1>3. raced \subseteq raced' /\ raced' \subseteq Parts /\ retried' \in Threads \cup {None}
  BY <1>0, <1>1 DEF TypeInv, Parts
<1>4. RetryInv'  BY <1>1, <1>2, <1>3, RetryQuiet
<1>5. "limit" \notin raced' => limit = 0
  <2> SUFFICES ASSUME "limit" \notin raced' PROVE limit = 0
    OBVIOUS
  <2>1. "limit" \notin raced /\ ~Busy(t, "limit")  BY <1>1
  <2>2. Alone(t, "limit")  BY <2>1 DEF Busy, Alone
  <2>3. ~Writes(t, "limit")  BY <1>1 DEF Writes
  <2>4. Out(t, "tmr_limit_time") = mem["tmr_limit_time"]
        /\ Out(t, "tmr_limit_wait") = mem["tmr_limit_wait"]
    BY <1>0, <2>3, OutOthers, FieldParts DEF Parts
  <2>5. OutLeft(t) = 0  BY <1>0, <1>1, <2>4, LimitIsLeft DEF OutLeft, TypeInv
  <2> QED BY <1>0, <2>1, <2>2, <2>5, Ages DEF LimitInv, TypeInv
<1> QED BY <1>1, <1>2, <1>3, <1>4, <1>5, QuietStep

\* Skips, Passes, Told
LEMMA GoesStep ==
    ASSUME IInv, NEW t \in Threads, NEW step \in Steps \ {"retry", "clear"}, at[t] # "retry",
           Goes(t, step), Remembers(limit, streak), UNCHANGED retried
    PROVE  IInv'
<1>0. TypeInv /\ LimitInv  BY DEF IInv
<1>1. at' = [at EXCEPT ![t] = step] /\ UNCHANGED <<mem, row, writes, raced>>
  BY DEF Goes
<1>2. at' \in [Threads -> Steps] /\ raced' \subseteq Parts /\ retried' \in Threads \cup {None}
  BY <1>0, <1>1 DEF TypeInv, Parts
<1>3. RetryInv'  BY <1>1, RetryQuiet
<1>4. "limit" \notin raced' => \A u \in Threads : at'[u] = "clear" => limit = 0
  BY <1>0, <1>1 DEF LimitInv, TypeInv
<1> QED BY <1>1, <1>2, <1>3, <1>4, QuietStep

LEMMA RetryLimitStep ==
    ASSUME IInv, NEW t \in Threads, RetryLimit(t)
    PROVE  IInv'
<1>0. TypeInv /\ SaveInv /\ FailsInv /\ LimitInv  BY DEF IInv
<1>1. /\ at[t] = "idle" /\ writes[t] = <<>> /\ Remembers(0, streak)
      /\ retried' = t => \A u \in Threads \ {t} : writes[u] = <<>> /\ at[u] # "retry"
      /\ retried' \in {t, None}
  <2>1. t # None  BY BackoffAssumption
  <2>2. retried' = IF \A u \in Threads \ {t} : writes[u] = <<>> /\ at[u] # "retry" THEN t ELSE None
    BY DEF RetryLimit
  <2>3. at[t] = "idle" /\ writes[t] = <<>> /\ Remembers(0, streak)  BY DEF RetryLimit, At
  <2> QED BY <2>1, <2>2, <2>3
<1>2. 0 \in 0..MaxAge /\ streak \in Count /\ "retry" \in Steps
      /\ mem["tmr_limit_time"] \in Age /\ mem["tmr_limit_wait"] \in Age
  BY <1>0, Ages, RecordFields DEF TypeInv, Steps, FieldType
<1>3. ASSUME at' = [at EXCEPT ![t] = "retry"], \A u \in Threads \ {t} : writes'[u] = writes[u],
             OutLeft(t)' = 0
      PROVE  RetryInv'
  <2>1. at'[t] = "retry" /\ \A u \in Threads \ {t} : at'[u] = at[u]
    BY <1>0, <1>3 DEF TypeInv
  <2> QED BY <1>1, <1>3, <2>1 DEF RetryInv
<1>4. CASE LimitIsSet(mem)
  <2> DEFINE a == Set("tmr_limit_time", mem["tmr_limit_wait"])
             s == <<a>>
  <2>1. Begins(t, s, "retry")
    BY <1>0, <1>4, RecordFields DEF RetryLimit, TypeInv
  <2>2. a \in Fit /\ a.op = "set" /\ a.field = "tmr_limit_time" /\ a.value = mem["tmr_limit_wait"]
    BY <1>2, SetFit DEF Field, FieldType
  <2> HIDE DEF a
  <2>3. /\ s \in Seqs /\ s # <<>> /\ s[1] = a /\ PartOf(s) = "limit"
        /\ \A m, f : OutOf(m, s, f) = IF f = a.field THEN a.value ELSE m[f]
    BY <2>2, One DEF Part
  <2> HIDE DEF s
  <2>4. TypeInv'  BY <1>0, <1>1, <1>2, <2>1, <2>2, <2>3, BeginsType
  <2>5. SaveInv'  BY <1>0, <1>1, <1>2, <2>1, <2>2, <2>3, BeginsSaveInv
  <2>6. /\ limit' = 0
        /\ streak' = IF "fails" \in raced' THEN 0 ELSE streak
    BY <1>1, <1>2, RemembersTyped
  <2>7. FailsInv'  BY <1>0, <1>1, <1>2, <2>1, <2>2, <2>3, <2>4, <2>6, BeginsFails
  <2>8. \A u \in Threads : OutLeft(u)' >= limit'
    <3>1. mem' \in Record /\ \A u \in Threads : writes'[u] \in Seqs  BY <2>4 DEF TypeInv
    <3>2. \A u \in Threads : OutLeft(u)' \in Nat
      BY <3>1, OutOfTyped, LeftFacts DEF OutLeft, Out, FieldType, Field
    <3> QED BY <2>6, <3>2
  <2>9. LimitInv'  BY <2>6, <2>8 DEF LimitInv
  <2>10. /\ writes'[t] = s /\ mem' = mem /\ at' = [at EXCEPT ![t] = "retry"]
         /\ \A u \in Threads \ {t} : writes'[u] = writes[u]
    BY <1>0, <1>1, <1>2, <2>1, <2>2, <2>3, BeginsFacts
  <2>11. OutLeft(t)' = 0
    <3>1. /\ Out(t, "tmr_limit_time")' = mem["tmr_limit_wait"]
          /\ Out(t, "tmr_limit_wait")' = mem["tmr_limit_wait"]
      BY <2>2, <2>3, <2>10 DEF Out
    <3> QED BY <1>2, <3>1, LeftFacts DEF OutLeft
  <2>12. RetryInv'  BY <1>3, <2>10, <2>11
  <2> QED BY <2>4, <2>5, <2>7, <2>9, <2>12 DEF IInv
<1>5. CASE ~LimitIsSet(mem)
  <2>1. at' = [at EXCEPT ![t] = "retry"] /\ UNCHANGED <<mem, row, writes, raced>>
    BY <1>5 DEF RetryLimit, Goes
  <2>2. at' \in [Threads -> Steps] /\ raced' \subseteq Parts /\ retried' \in Threads \cup {None}
    BY <1>0, <1>1, <1>2, <2>1 DEF TypeInv, Parts
  <2>3. OutLeft(t)' = 0
    <3>1. ~Writes(t, "limit")  BY <1>1 DEF Writes
    <3>2. Out(t, "tmr_limit_time") = mem["tmr_limit_time"]
          /\ Out(t, "tmr_limit_wait") = mem["tmr_limit_wait"]
      BY <1>0, <3>1, OutOthers, FieldParts DEF Parts
    <3>3. OutLeft(t) = 0
      BY <1>0, <1>5, <3>2, RecordFields DEF OutLeft, LeftOf, LimitIsSet, TypeInv
    <3> QED BY <2>1, <3>3 DEF OutLeft, Out
  <2>4. RetryInv'  BY <1>3, <2>1, <2>3
  <2> QED BY <1>1, <2>1, <2>2, <2>4, QuietStep
<1> QED BY <1>4, <1>5

(***************************************************************************)
(* The steps that begin to write the count and the time of the failures.   *)
(***************************************************************************)
LEMMA BeginsCounted ==
    ASSUME IInv, NEW t \in Threads, NEW s \in Seqs, s # <<>>, s[1].op \in {"inc", "set"},
           PartOf(s) = "fails", NEW step \in Steps, step # "clear", writes[t] = <<>>,
           Begins(t, s, step), NEW count \in Count, Remembers(limit, count),
           retried' \in Threads \cup {None}, RetryInv',
           "fails" \notin raced' =>
               /\ OutOf(mem, s, "failure_count") = count
               /\ count = 0 \/ OutOf(mem, s, "failure_time") # None
    PROVE  IInv'
<1>0. TypeInv /\ SaveInv /\ FailsInv /\ LimitInv  BY DEF IInv
<1>1. limit \in 0..MaxAge  BY <1>0 DEF TypeInv
<1>2. TypeInv'  BY <1>0, <1>1, BeginsType
<1>3. SaveInv'  BY <1>0, BeginsSaveInv
<1>4. /\ limit' = IF "limit" \in raced' THEN 0 ELSE limit
      /\ streak' = IF "fails" \in raced' THEN 0 ELSE count
  BY <1>1, RemembersTyped
<1>5. LimitInv'  BY <1>0, <1>2, <1>4, BeginsLimit
<1>6. FailsInv'
  <2> SUFFICES ASSUME "fails" \notin raced' PROVE FailsInv'
    BY DEF FailsInv
  <2>1. writes'[t] = s /\ mem' = mem /\ Writes(t, "fails")'  BY <1>0, BeginsFacts
  <2>2. \A u \in Threads \ {t} : ~Alone(u, "fails")'  BY <2>1 DEF Alone
  <2>3. /\ Out(t, "failure_count")' = count
        /\ count = 0 \/ Out(t, "failure_time")' # None
    BY <2>1 DEF Out
  <2> QED BY <1>4, <2>2, <2>3 DEF FailsInv
<1> QED BY <1>2, <1>3, <1>5, <1>6 DEF IInv

\* What is begun while the part is in order is begun over what is known of it.
LEMMA Known ==
    ASSUME TypeInv, FailsInv, NEW t \in Threads, NEW s \in Seqs, s # <<>>,
           s[1].op \in {"inc", "set"}, PartOf(s) = "fails", ~Anew(s), NEW step \in Steps,
           writes[t] = <<>>, Begins(t, s, step), "fails" \notin raced'
    PROVE  /\ "fails" \notin raced
           /\ mem["failure_count"] = streak
           /\ mem["failure_count"] = 0 \/ mem["failure_time"] # None
<1>1. "fails" \notin raced /\ \A u \in Threads \ {t} : ~Writes(u, "fails")  BY BeginsFacts
<1>2. Alone(t, "fails") /\ ~Writes(t, "fails")  BY <1>1 DEF Alone, Writes
<1>3. /\ Out(t, "failure_count") = mem["failure_count"]
      /\ Out(t, "failure_time") = mem["failure_time"]
  BY <1>2, OutOthers, FieldParts DEF Parts
<1> QED BY <1>1, <1>2, <1>3 DEF FailsInv

LEMMA TimeMissingStep ==
    ASSUME IInv, NEW t \in Threads, TimeMissing(t)
    PROVE  IInv'
<1> DEFINE a == Set("failure_time", 0)
           s == <<a>>
<1>0. TypeInv /\ FailsInv  BY DEF IInv
<1>1. /\ writes[t] = <<>> /\ Begins(t, s, "waiting") /\ retried' = None
      /\ Remembers(limit, streak)
  BY DEF TimeMissing, NoLimit, At
<1>2. a \in Fit /\ a.op = "set" /\ a.field = "failure_time" /\ a.value = 0
  <2>1. 0 \in Age  BY Ages DEF Age
  <2> QED BY <2>1, SetFit DEF Field, FieldType
<1>3. ~Anew(s)  BY NotAnew
<1> HIDE DEF a
<1>4. /\ s \in Seqs /\ s # <<>> /\ s[1] = a /\ PartOf(s) = "fails"
      /\ \A m, f : OutOf(m, s, f) = IF f = a.field THEN a.value ELSE m[f]
  BY <1>2, One DEF Part
<1> HIDE DEF s
<1>5. streak \in Count /\ "waiting" \in Steps  BY <1>0 DEF TypeInv, Steps
<1>6. "fails" \notin raced' => mem["failure_count"] = streak
  BY <1>0, <1>1, <1>2, <1>3, <1>4, <1>5, Known
<1>7. 0 # None  BY Ages
<1>8. "fails" \notin raced' => /\ OutOf(mem, s, "failure_count") = streak
                               /\ OutOf(mem, s, "failure_time") # None
  BY <1>2, <1>4, <1>6, <1>7
<1> QED BY <1>1, <1>2, <1>4, <1>5, <1>8, BeginsCounted, RetryForgotten

LEMMA SucceedsStep ==
    ASSUME IInv, NEW t \in Threads, Succeeds(t)
    PROVE  IInv'
<1> DEFINE a == Set("failure_count", 0)
           b == Set("failure_time", None)
           s == <<a, b>>
<1>1. /\ writes[t] = <<>> /\ Begins(t, s, "idle") /\ retried' = None /\ Remembers(limit, 0)
  BY DEF Succeeds, At
<1>2. /\ a \in Fit /\ a.op = "set" /\ a.field = "failure_count" /\ a.value = 0
      /\ b \in Fit /\ b.op = "set" /\ b.field = "failure_time" /\ b.value = None
  <2>1. 0 \in Count /\ None \in Age  BY Ages DEF Age, Count
  <2> QED BY <2>1, SetFit DEF Field, FieldType
<1> HIDE DEF a, b
<1>3. Follows(a, b)  BY <1>2 DEF Follows, Part
<1>4. /\ s \in Seqs /\ s # <<>> /\ s[1] = a /\ PartOf(s) = "fails"
      /\ OutOf(mem, s, "failure_count") = 0
  BY <1>2, <1>3, Pair DEF Part
<1> HIDE DEF s
<1>5. 0 \in Count /\ "idle" \in Steps  BY Ages DEF Count, Steps
<1> QED BY <1>1, <1>2, <1>4, <1>5, BeginsCounted, RetryForgotten

LEMMA FailsStep ==
    ASSUME IInv, NEW t \in Threads, NEW sameType, Fails(t, sameType)
    PROVE  IInv'
<1> DEFINE a == Inc("failure_count")
           b == Set("failure_time", 0)
           s == <<a, b>>
           count == Least(streak + 1, MaxCount)
<1>0. TypeInv /\ FailsInv  BY DEF IInv
<1>1. /\ writes[t] = <<>> /\ Begins(t, s, "idle") /\ retried' = None
      /\ Remembers(limit, count)
  BY DEF Fails, At
<1>2. /\ a \in Fit /\ a.op = "inc" /\ a.field = "failure_count"
      /\ b \in Fit /\ b.op = "set" /\ b.field = "failure_time" /\ b.value = 0
  <2>1. 0 \in Age  BY Ages DEF Age
  <2> QED BY <2>1, SetFit, IncFit DEF Field, FieldType
<1>3. ~Anew(s)  BY NotAnew
<1> HIDE DEF a, b
<1>4. Follows(a, b)  BY <1>2 DEF Follows, Part
<1>5. /\ s \in Seqs /\ s # <<>> /\ s[1] = a /\ PartOf(s) = "fails"
      /\ OutOf(mem, s, "failure_count") = Least(mem["failure_count"] + 1, MaxCount)
      /\ OutOf(mem, s, "failure_time") = 0
  BY <1>2, <1>4, Pair DEF Part
<1> HIDE DEF s
<1>6. count \in Count /\ "idle" \in Steps
  BY <1>0, Ages DEF TypeInv, Count, Steps, Least
<1>7. "fails" \notin raced' => mem["failure_count"] = streak
  BY <1>0, <1>1, <1>2, <1>3, <1>5, <1>6, Known
<1>8. 0 # None  BY Ages
<1> HIDE DEF count
<1>9. "fails" \notin raced' => /\ OutOf(mem, s, "failure_count") = count
                               /\ OutOf(mem, s, "failure_time") # None
  BY <1>5, <1>7, <1>8 DEF count
<1> QED BY <1>1, <1>2, <1>5, <1>6, <1>9, BeginsCounted, RetryForgotten

LEMMA RetryFailsStep ==
    ASSUME IInv, NEW t \in Threads, RetryFails(t)
    PROVE  IInv'
<1>0. TypeInv /\ FailsInv /\ LimitInv /\ RetryInv  BY DEF IInv
<1>1. /\ at[t] = "retry" /\ writes[t] = <<>> /\ Remembers(limit, streak) /\ retried' = retried
  BY DEF RetryFails, At
<1>2. streak \in Count /\ "idle" \in Steps /\ retried \in Threads \cup {None}
  BY <1>0 DEF TypeInv, Steps
<1>3. retried # None => retried = t
  BY <1>0, <1>1, <1>2 DEF RetryInv
<1>4. mem \in Record /\ mem.failure_count \in Nat
      /\ mem.failure_count = mem["failure_count"] /\ mem.failure_time = mem["failure_time"]
  BY <1>0, RecordFields DEF TypeInv
<1>5. CoolDown(mem) = WaitAfter(mem["failure_count"], 2) /\ CoolDown(mem) \in 1..MaxAge
  BY <1>4, Waits DEF CoolDown
<1>6. CASE mem.failure_count >= 3 /\ IsWaiting(mem)
  <2> DEFINE a == Set("failure_time", CoolDown(mem))
             s == <<a>>
  <2>1. Begins(t, s, "idle")  BY <1>6 DEF RetryFails
  <2>2. a \in Fit /\ a.op = "set" /\ a.field = "failure_time" /\ a.value = CoolDown(mem)
    <3>1. CoolDown(mem) \in Age  BY <1>5, Ages DEF Age
    <3> QED BY <3>1, SetFit DEF Field, FieldType
  <2>3. ~Anew(s)  BY NotAnew
  <2> HIDE DEF a
  <2>4. /\ s \in Seqs /\ s # <<>> /\ s[1] = a /\ PartOf(s) = "fails"
        /\ \A m, f : OutOf(m, s, f) = IF f = a.field THEN a.value ELSE m[f]
    BY <2>2, One DEF Part
  <2> HIDE DEF s
  <2>5. "fails" \notin raced' => mem["failure_count"] = streak
    BY <1>0, <1>1, <1>2, <2>1, <2>2, <2>3, <2>4, Known
  <2>6. CoolDown(mem) # None  BY <1>5, Ages
  <2>7. /\ OutOf(mem, s, "failure_count") = mem["failure_count"]
        /\ OutOf(mem, s, "failure_time") = CoolDown(mem)
    BY <2>2, <2>4
  <2>8. RetryInv'
    <3> SUFFICES ASSUME retried # None PROVE RetryInv'
      BY <1>1 DEF RetryInv
    <3>1. /\ writes'[t] = s /\ mem' = mem /\ at' = [at EXCEPT ![t] = "idle"]
          /\ \A u \in Threads \ {t} : writes'[u] = writes[u]
      BY <1>0, <1>1, <1>2, <2>1, <2>2, <2>4, BeginsFacts
    <3>2. \A u \in Threads \ {t} : writes'[u] = <<>> /\ at'[u] # "retry"
      BY <1>0, <1>3, <3>1 DEF RetryInv, TypeInv
    <3>3. TypeInv'
      <4>1. limit \in 0..MaxAge  BY <1>0 DEF TypeInv
      <4> QED BY <1>0, <1>1, <1>2, <2>1, <2>2, <2>4, <4>1, BeginsType
    <3>4. OutLeft(t)' = OutLeft(t)
      <4>1. /\ Out(t, "tmr_limit_time")' = Out(t, "tmr_limit_time")
            /\ Out(t, "tmr_limit_wait")' = Out(t, "tmr_limit_wait")
        BY <1>0, <1>1, <1>2, <2>1, <2>2, <2>4, <3>3, BeginsOut DEF Field, Part
      <4> QED BY <4>1 DEF OutLeft, LeftOf
    <3>5. Out(t, "failure_time")' >= WaitAfter(Out(t, "failure_count")', 2)
      <4>1. Out(t, "failure_time")' = CoolDown(mem) /\ Out(t, "failure_count")' = mem["failure_count"]
        BY <2>7, <3>1 DEF Out
      <4> QED BY <1>5, <4>1
    <3> QED BY <1>0, <1>1, <1>3, <3>2, <3>4, <3>5 DEF RetryInv
  <2> QED BY <1>1, <1>2, <2>1, <2>2, <2>4, <2>5, <2>6, <2>7, <2>8, BeginsCounted
<1>7. CASE ~(mem.failure_count >= 3 /\ IsWaiting(mem))
  <2>1. at' = [at EXCEPT ![t] = "idle"] /\ UNCHANGED <<mem, row, writes, raced>>
    BY <1>7 DEF RetryFails, Goes
  <2>2. at' \in [Threads -> Steps] /\ raced' \subseteq Parts /\ retried' \in Threads \cup {None}
    BY <1>0, <1>1, <1>2, <2>1 DEF TypeInv, Parts
  <2>3. "limit" \notin raced' => \A u \in Threads : at'[u] = "clear" => limit = 0
    BY <1>0, <2>1 DEF LimitInv, TypeInv
  <2>4. RetryInv'
    <3> SUFFICES ASSUME retried # None PROVE RetryInv'
      BY <1>1 DEF RetryInv
    <3>1. \A u \in Threads \ {t} : writes'[u] = <<>> /\ at'[u] # "retry"
      BY <1>0, <1>3, <2>1 DEF RetryInv, TypeInv
    <3>2. OutLeft(t)' = 0 /\ \A f : Out(t, f)' = Out(t, f)
      BY <1>0, <1>3, <2>1 DEF RetryInv, OutLeft, Out
    <3>3. ASSUME "fails" \notin raced
          PROVE  \/ mem["failure_count"] < 3
                 \/ mem["failure_time"] >= WaitAfter(mem["failure_count"], 2)
      <4>1. Alone(t, "fails") /\ ~Writes(t, "fails")
        BY <1>0, <1>1, <1>3 DEF Alone, Writes, RetryInv
      <4>2. /\ Out(t, "failure_count") = mem["failure_count"]
            /\ Out(t, "failure_time") = mem["failure_time"]
        BY <1>0, <4>1, OutOthers, FieldParts DEF Parts
      <4>3. mem["failure_count"] = 0 \/ mem["failure_time"] # None
        BY <1>0, <3>3, <4>1, <4>2 DEF FailsInv
      <4>4. mem["failure_time"] # None => mem["failure_time"] \in Nat
        BY <1>4, RecordFields DEF Age
      <4> QED BY <1>4, <1>5, <1>7, <4>3, <4>4 DEF IsWaiting
    <3>4. /\ Out(t, "failure_count") = mem["failure_count"]
          /\ Out(t, "failure_time") = mem["failure_time"]
      BY <1>0, <1>1, OutOthers, FieldParts DEF Parts, Writes
    <3> QED BY <1>1, <1>3, <2>1, <3>1, <3>2, <3>3, <3>4 DEF RetryInv
  <2> QED BY <1>1, <2>1, <2>2, <2>3, <2>4, QuietStep
<1> QED BY <1>6, <1>7

(***************************************************************************)
(* The steps that write.                                                   *)
(***************************************************************************)
LEMMA OutOfOthers ==
    ASSUME NEW m \in Record, NEW s \in Seqs, NEW p \in Parts, NEW f \in PartFields(p),
           s # <<>> => Part(s[1].field) # p
    PROVE  OutOf(m, s, f) = m[f]
<1>1. Part(f) = p  BY FieldParts
<1> QED BY <1>1, SeqFacts DEF OutOf

\* Who writes a part alone after a write comes out where one did before it.
LEMMA AloneBefore ==
    ASSUME TypeInv, TypeInv', SaveInv, NEW t \in Threads, writes[t] # <<>>,
           \A u \in Threads \ {t} : writes'[u] = writes[u],
           \A p : Writes(t, p)' => Writes(t, p),
           \A f \in Field : Out(t, f)' = Out(t, f),
           \A f \in Field : mem'[f] # mem[f] => f = writes[t][1].field,
           NEW p \in Parts, p \notin raced, NEW u \in Threads, Alone(u, p)'
    PROVE  \E v \in Threads : Alone(v, p) /\ \A f \in PartFields(p) : Out(u, f)' = Out(v, f)
<1>1. mem' \in Record /\ \A v \in Threads : writes'[v] \in Seqs  BY DEF TypeInv
<1>2. ASSUME NEW v \in Threads, ~Writes(v, p)', NEW f \in PartFields(p)
      PROVE  Out(v, f)' = mem'[f]
  BY <1>1, <1>2, OutOfOthers DEF Out, Writes, PartOf
<1>3. \A v \in Threads \ {t} : Writes(v, p)' <=> Writes(v, p)  BY DEF Writes
<1>4. CASE Writes(t, p)
  <2>1. Alone(t, p)  BY <1>4 DEF SaveInv
  <2>2. CASE u = t  BY <2>1, <2>2, FieldParts
  <2>3. CASE u # t
    <3>1. ~Writes(t, p)' /\ ~Writes(u, p)'  BY <1>3, <2>1, <2>3 DEF Alone
    <3>2. \A f \in PartFields(p) : Out(u, f)' = mem'[f] /\ Out(t, f)' = mem'[f]
      BY <1>2, <3>1
    <3> QED BY <2>1, <3>2, FieldParts
  <2> QED BY <2>2, <2>3
<1>5. CASE ~Writes(t, p)
  <2>1. Alone(u, p)  BY <1>3, <1>5 DEF Alone
  <2>2. \A f \in PartFields(p) : mem'[f] = mem[f]
    BY <1>5, FieldParts, ThreadFacts
  <2>3. \A f \in PartFields(p) : Out(u, f)' = Out(u, f)
    <3>1. CASE u = t  BY <3>1, FieldParts
    <3>2. CASE u # t
      <4>1. writes'[u] = writes[u]  BY <3>2
      <4> QED BY <2>2, <4>1 DEF Out, OutOf
    <3> QED BY <3>1, <3>2
  <2> QED BY <2>1, <2>3
<1> QED BY <1>4, <1>5

LEMMA WritesOn ==
    ASSUME IInv, TypeInv', NEW t \in Threads, writes[t] # <<>>,
           \A u \in Threads \ {t} : writes'[u] = writes[u],
           \A p : Writes(t, p)' => Writes(t, p),
           \A f \in Field : Out(t, f)' = Out(t, f),
           \A f \in Field : mem'[f] # mem[f] => f = writes[t][1].field,
           raced \subseteq raced', UNCHANGED <<at, retried>>,
           "limit" \notin raced' => limit' = limit,
           "fails" \notin raced' => streak' = streak
    PROVE  FailsInv' /\ LimitInv' /\ RetryInv'
<1>0. TypeInv /\ SaveInv /\ FailsInv /\ LimitInv /\ RetryInv  BY DEF IInv
<1>1. FailsInv'
  <2> SUFFICES ASSUME "fails" \notin raced', NEW u \in Threads, Alone(u, "fails")'
               PROVE  /\ Out(u, "failure_count")' = streak'
                      /\ Out(u, "failure_count")' = 0 \/ Out(u, "failure_time")' # None
    BY DEF FailsInv
  <2>1. "fails" \notin raced /\ "fails" \in Parts  BY DEF Parts
  <2>2. PICK v \in Threads : /\ Alone(v, "fails")
                             /\ \A f \in PartFields("fails") : Out(u, f)' = Out(v, f)
    BY <1>0, <2>1, AloneBefore
  <2> QED BY <1>0, <2>1, <2>2, FieldParts DEF FailsInv
<1>2. LimitInv'
  <2> SUFFICES ASSUME "limit" \notin raced', NEW u \in Threads
               PROVE  /\ Alone(u, "limit")' => OutLeft(u)' >= limit'
                      /\ at'[u] = "clear" => limit' = 0
    BY DEF LimitInv
  <2>1. "limit" \notin raced /\ "limit" \in Parts  BY DEF Parts
  <2>2. ASSUME Alone(u, "limit")' PROVE OutLeft(u)' >= limit'
    <3>1. PICK v \in Threads : /\ Alone(v, "limit")
                               /\ \A f \in PartFields("limit") : Out(u, f)' = Out(v, f)
      BY <1>0, <2>1, <2>2, AloneBefore
    <3>2. OutLeft(u)' = OutLeft(v)  BY <3>1, FieldParts DEF OutLeft
    <3> QED BY <1>0, <2>1, <3>1, <3>2 DEF LimitInv
  <2> QED BY <1>0, <2>1, <2>2 DEF LimitInv
<1>3. RetryInv'
  <2> SUFFICES ASSUME retried # None PROVE RetryInv'
    BY DEF RetryInv
  <2>1. retried = t  BY <1>0 DEF RetryInv
  <2>2. OutLeft(t)' = OutLeft(t)  BY DEF OutLeft, Field
  <2>3. /\ Out(t, "failure_count")' = Out(t, "failure_count")
        /\ Out(t, "failure_time")' = Out(t, "failure_time")
    BY DEF Field
  <2> QED BY <1>0, <2>1, <2>2, <2>3 DEF RetryInv
<1> QED BY <1>1, <1>2, <1>3

LEMMA AssignStep ==
    ASSUME IInv, NEW t \in Threads, Assign(t)
    PROVE  IInv'
<1> DEFINE w == writes[t][1]
<1>0. TypeInv /\ SaveInv  BY DEF IInv
<1>1. /\ TypeInv' /\ writes[t] # <<>>
      /\ UNCHANGED <<row, at, limit, streak, raced, retried>>
      /\ \A u \in Threads \ {t} : writes'[u] = writes[u]
      /\ \A p : Writes(t, p)' => Writes(t, p)
      /\ \A f \in Field : Out(t, f)' = Out(t, f)
      /\ ~Saving(t)
      /\ \A f \in Field : mem'[f] # mem[f] =>
            f = w.field /\ Saving(t)' /\ writes'[t][1].field = f
      /\ Saving(t)' => writes'[t][1].value = mem'[writes'[t][1].field]
  BY <1>0, AssignFacts
<1>2. \A p : Writes(t, p) <=> Part(w.field) = p  BY <1>0, <1>1, ThreadFacts
<1> HIDE DEF w
<1>3. FailsInv' /\ LimitInv' /\ RetryInv'
  BY <1>1, WritesOn DEF w
<1>4. ASSUME NEW p \in Parts \ raced
      PROVE  /\ \A u \in Threads : Writes(u, p)' => Alone(u, p)'
             /\ \A u \in Threads : Writes(u, p)' /\ Saving(u)' =>
                   writes'[u][1].value = mem'[writes'[u][1].field]
             /\ \A f \in PartFields(p) :
                   \/ mem'[f] = Saved'[f]
                   \/ \E u \in Threads : Saving(u)' /\ writes'[u][1].field = f
  <2>1. \A u \in Threads : Writes(u, p)' => Writes(u, p)  BY <1>1 DEF Writes
  <2>2. \A u \in Threads : Writes(u, p)' => Alone(u, p)'
    BY <1>0, <2>1 DEF SaveInv, Alone
  <2>3. ASSUME NEW u \in Threads \ {t}, Writes(u, p)', Saving(u)'
        PROVE  writes'[u][1].value = mem'[writes'[u][1].field]
    <3>1. Writes(u, p) /\ Saving(u) /\ Alone(u, p)
      BY <1>0, <1>1, <2>1, <2>3 DEF SaveInv, Saving
    <3>2. ~Writes(t, p)  BY <3>1 DEF Alone
    <3>3. writes[u][1].field \in Field /\ Part(writes[u][1].field) = p
      BY <1>0, <3>1, ThreadFacts
    <3>4. mem'[writes[u][1].field] = mem[writes[u][1].field]
      BY <1>1, <1>2, <3>2, <3>3
    <3> QED BY <1>0, <1>1, <3>1, <3>4 DEF SaveInv
  <2>4. ASSUME NEW f \in PartFields(p), mem'[f] # Saved'[f]
        PROVE  \E u \in Threads : Saving(u)' /\ writes'[u][1].field = f
    <3>1. f \in Field /\ Saved' = Saved  BY <1>1, FieldParts DEF Saved
    <3>2. CASE mem'[f] # mem[f]  BY <1>1, <3>1, <3>2
    <3>3. CASE mem'[f] = mem[f]
      <4>1. PICK u \in Threads : Saving(u) /\ writes[u][1].field = f
        BY <1>0, <2>4, <3>1, <3>3 DEF SaveInv
      <4>2. u # t  BY <1>1, <4>1
      <4>3. Saving(u)' /\ writes'[u][1].field = f  BY <1>1, <4>1, <4>2 DEF Saving
      <4> QED BY <4>3
    <3> QED BY <3>2, <3>3
  <2> QED BY <1>1, <2>2, <2>3, <2>4
<1>5. SaveInv'  BY <1>1, <1>4 DEF SaveInv
<1> QED BY <1>1, <1>3, <1>5 DEF IInv

LEMMA SaveStep ==
    ASSUME IInv, NEW t \in Threads, Save(t)
    PROVE  IInv'
<1> DEFINE w == writes[t][1]
<1>0. TypeInv /\ SaveInv  BY DEF IInv
<1>1. /\ TypeInv' /\ Saving(t)
      /\ UNCHANGED <<mem, at, retried>>
      /\ \A u \in Threads \ {t} : writes'[u] = writes[u]
      /\ \A p : Writes(t, p)' => Writes(t, p)
      /\ \A f \in Field : Out(t, f)' = Out(t, f)
      /\ raced \subseteq raced'
      /\ limit' = IF "limit" \in raced' THEN 0 ELSE limit
      /\ streak' = IF "fails" \in raced' THEN 0 ELSE streak
      /\ \/ raced' = Parts
         \/ /\ Saving(t)' /\ writes'[t][1].field = w.field /\ writes'[t][1].value = w.value
            /\ \A f \in Field : Saved'[f] = Saved[f]
         \/ /\ ~Saving(t)'
            /\ \A f \in Field : Saved'[f] = IF f = w.field THEN w.value ELSE Saved[f]
  BY <1>0, SaveFacts
<1>2. writes[t] # <<>>  BY <1>1 DEF Saving
<1>3. (\A p : Writes(t, p) <=> Part(w.field) = p) /\ w.field \in Field
  BY <1>0, <1>2, ThreadFacts
<1> HIDE DEF w
<1>4. FailsInv' /\ LimitInv' /\ RetryInv'
  BY <1>1, <1>2, WritesOn DEF w
<1>5. ASSUME NEW p \in Parts \ raced'
      PROVE  /\ \A u \in Threads : Writes(u, p)' => Alone(u, p)'
             /\ \A u \in Threads : Writes(u, p)' /\ Saving(u)' =>
                   writes'[u][1].value = mem'[writes'[u][1].field]
             /\ \A f \in PartFields(p) :
                   \/ mem'[f] = Saved'[f]
                   \/ \E u \in Threads : Saving(u)' /\ writes'[u][1].field = f
  <2>0. p \in Parts \ raced  BY <1>1
  <2>1. \A u \in Threads : Writes(u, p)' => Writes(u, p)  BY <1>1 DEF Writes
  <2>2. \A u \in Threads : Writes(u, p)' => Alone(u, p)'
    BY <1>0, <2>0, <2>1 DEF SaveInv, Alone
  <2>3. ASSUME NEW u \in Threads \ {t}, Writes(u, p)', Saving(u)'
        PROVE  writes'[u][1].value = mem'[writes'[u][1].field]
    <3>1. Writes(u, p) /\ Saving(u)  BY <1>1, <2>1, <2>3 DEF Saving
    <3> QED BY <1>0, <1>1, <2>0, <3>1 DEF SaveInv
  <2>4. Writes(t, p) => w.value = mem[w.field]
    BY <1>0, <1>1, <2>0 DEF SaveInv, w
  <2>5. Writes(t, p)' /\ Saving(t)' => writes'[t][1].value = mem'[writes'[t][1].field]
    BY <1>1, <1>5, <2>1, <2>4 DEF Parts
  <2>6. ASSUME NEW f \in PartFields(p), mem'[f] # Saved'[f]
        PROVE  \E u \in Threads : Saving(u)' /\ writes'[u][1].field = f
    <3>1. f \in Field /\ Part(f) = p  BY FieldParts
    <3>2. f = w.field => Writes(t, p)  BY <1>3, <3>1
    <3>3. \/ Saving(t)' /\ writes'[t][1].field = w.field /\ Saved'[f] = Saved[f]
          \/ f # w.field /\ Saved'[f] = Saved[f]
      BY <1>1, <1>5, <2>4, <2>6, <3>1, <3>2
    <3>4. PICK u \in Threads : Saving(u) /\ writes[u][1].field = f
      BY <1>0, <1>1, <2>0, <2>6, <3>3 DEF SaveInv
    <3>5. CASE u = t  BY <3>3, <3>4, <3>5 DEF w
    <3>6. CASE u # t
      <4>1. Saving(u)' /\ writes'[u][1].field = f  BY <1>1, <3>4, <3>6 DEF Saving
      <4> QED BY <4>1
    <3> QED BY <3>5, <3>6
  <2> QED BY <2>2, <2>3, <2>5, <2>6
<1>6. SaveInv'  BY <1>5 DEF SaveInv
<1> QED BY <1>1, <1>4, <1>6 DEF IInv

(***************************************************************************)
(* Time passes.                                                            *)
(***************************************************************************)
Timed == {"failure_time", "tmr_limit_time"}
AgedWrite(w) == IF w.op \in {"update", "replace"} /\ w.field \in Timed
                THEN [w EXCEPT !.value = Older(@)] ELSE w
AgedSeq(s) == [i \in DOMAIN s |-> AgedWrite(s[i])]

LEMMA AgedWriteFit ==
    ASSUME NEW w \in Fit
    PROVE  /\ AgedWrite(w) \in Fit
           /\ AgedWrite(w).op = w.op /\ AgedWrite(w).field = w.field
           /\ AgedWrite(w).value = IF w.op \in {"update", "replace"} /\ w.field \in Timed
                                   THEN Older(w.value) ELSE w.value
<1>1. w.field \in Timed => w.value \in Age  BY FitFields DEF Timed, FieldType
<1>2. w.field \in Timed => Older(w.value) \in Age  BY <1>1, OlderTyped
<1>3. CASE w.op \in {"update", "replace"} /\ w.field \in Timed
  <2>1. AgedWrite(w) = [w EXCEPT !.value = Older(@)]  BY <1>3 DEF AgedWrite
  <2> QED BY <1>2, <1>3, <2>1 DEF Fit, Write, Timed, FieldType
<1>4. CASE ~(w.op \in {"update", "replace"} /\ w.field \in Timed)
  BY <1>4 DEF AgedWrite
<1> QED BY <1>3, <1>4

LEMMA AgedSeqFacts ==
    ASSUME NEW s \in Seqs
    PROVE  /\ AgedSeq(s) \in Seqs /\ Len(AgedSeq(s)) = Len(s)
           /\ AgedSeq(s) = <<>> <=> s = <<>>
           /\ Len(s) > 0 => s[1] \in Fit /\ AgedSeq(s)[1] = AgedWrite(s[1])
           /\ Len(s) = 2 => s[2] \in Fit /\ AgedSeq(s)[2] = AgedWrite(s[2])
<1>1. s \in Seq(Fit) /\ Len(s) \in {0, 1, 2} /\ DOMAIN s = 1..Len(s)
  BY SeqFacts, LenProperties
<1>2. \A i \in 1..Len(s) : s[i] \in Fit  BY <1>1, ElementOfSeq
<1> DEFINE r == AgedSeq(s)
<1>3. r = [i \in 1..Len(s) |-> AgedWrite(s[i])]  BY <1>1 DEF AgedSeq
<1>4. \A i \in 1..Len(s) : AgedWrite(s[i]) \in Fit  BY <1>2, AgedWriteFit
<1>5. Len(s) \in Nat  BY <1>1
<1>6. r \in Seq(Fit) /\ Len(r) = Len(s) /\ \A i \in 1..Len(s) : r[i] = AgedWrite(s[i])
  BY <1>3, <1>4, <1>5
<1> HIDE DEF r
<1>7. Len(s) = 2 => Follows(r[1], r[2])
  <2> SUFFICES ASSUME Len(s) = 2 PROVE Follows(r[1], r[2])
    OBVIOUS
  <2>1. Follows(s[1], s[2])  BY DEF Seqs
  <2>2. r[1] = AgedWrite(s[1]) /\ r[2] = AgedWrite(s[2]) /\ s[1] \in Fit /\ s[2] \in Fit
    BY <1>2, <1>6
  <2>3. r[1].field = s[1].field /\ r[2].field = s[2].field /\ r[2].op = s[2].op
    BY <2>2, AgedWriteFit
  <2> QED BY <2>1, <2>3 DEF Follows
<1>8. r \in Seqs  BY <1>1, <1>6, <1>7 DEF Seqs
<1>9. r = <<>> <=> s = <<>>  BY <1>6, <1>8, SeqFacts
<1> QED BY <1>1, <1>2, <1>6, <1>8, <1>9 DEF r

\* What will be held is what was to be held, or that with its age.
LEMMA OutAged ==
    ASSUME NEW m \in Record, NEW s \in Seqs, NEW f \in Field
    PROVE  \/ OutOf(Aged(m), AgedSeq(s), f) = OutOf(m, s, f)
           \/ f \in Timed /\ OutOf(Aged(m), AgedSeq(s), f) = Older(OutOf(m, s, f))
<1> DEFINE r == AgedSeq(s)
           m2 == Aged(m)
<1>1. /\ Len(r) = Len(s) /\ Len(s) \in {0, 1, 2}
      /\ Len(s) > 0 => s[1] \in Fit /\ r[1] = AgedWrite(s[1])
      /\ Len(s) = 2 => s[2] \in Fit /\ s[2].op = "set" /\ r[2] = AgedWrite(s[2])
  BY AgedSeqFacts, SeqFacts
<1>2. m2[f] = IF f \in Timed THEN Older(m[f]) ELSE m[f]
  BY AgedTyped DEF Timed
<1> HIDE DEF r, m2
<1>3. Len(s) > 0 => /\ r[1].op = s[1].op /\ r[1].field = s[1].field
                    /\ s[1].op \in {"inc", "set"} => r[1].value = s[1].value
                    /\ s[1].op = "inc" => s[1].field = "failure_count"
  BY <1>1, AgedWriteFit, FitFields
<1>4. Len(s) = 2 => r[2].field = s[2].field /\ r[2].value = s[2].value
  BY <1>1, AgedWriteFit
<1>5. \/ OutOf(m2, r, f) = OutOf(m, s, f)
      \/ f \in Timed /\ OutOf(m2, r, f) = Older(OutOf(m, s, f))
  BY <1>1, <1>2, <1>3, <1>4 DEF OutOf, Timed
<1> QED BY <1>5 DEF r, m2

LEMMA TickFacts ==
    ASSUME TypeInv, Tick
    PROVE  /\ TypeInv'
           /\ mem' = Aged(mem) /\ UNCHANGED <<at, streak, raced, retried>>
           /\ limit' = IF limit > 0 THEN limit - 1 ELSE 0
           /\ \A t \in Threads : /\ writes'[t] = AgedSeq(writes[t])
                                 /\ writes'[t] = <<>> <=> writes[t] = <<>>
                                 /\ Saving(t)' <=> Saving(t)
                                 /\ \A p : Writes(t, p)' <=> Writes(t, p)
           /\ \A f \in Field : Saved'[f] = IF f \in Timed THEN Older(Saved[f]) ELSE Saved[f]
<1>1. /\ mem' = Aged(mem) /\ UNCHANGED <<at, streak, raced, retried>>
      /\ row' = IF row = None THEN None ELSE Aged(row)
      /\ limit' = IF limit > 0 THEN limit - 1 ELSE 0
      /\ writes' = [t \in Threads |-> AgedSeq(writes[t])]
  BY DEF Tick, AgedSeq, AgedWrite, Timed
<1>2. writes' \in [Threads -> Seqs]  BY <1>1, AgedSeqFacts DEF TypeInv
<1>3. mem' \in Record /\ row' \in Record \cup {None}  BY <1>1, AgedTyped DEF TypeInv
<1>4. limit' \in 0..MaxAge  BY <1>1, Ages DEF TypeInv
<1>5. TypeInv'  BY <1>1, <1>2, <1>3, <1>4 DEF TypeInv
<1>6. ASSUME NEW t \in Threads
      PROVE  /\ writes'[t] = AgedSeq(writes[t])
             /\ writes'[t] = <<>> <=> writes[t] = <<>>
             /\ Saving(t)' <=> Saving(t)
             /\ \A p : Writes(t, p)' <=> Writes(t, p)
  <2>1. writes[t] \in Seqs /\ writes'[t] = AgedSeq(writes[t])  BY <1>1 DEF TypeInv
  <2>2. writes'[t] = <<>> <=> writes[t] = <<>>  BY <2>1, AgedSeqFacts
  <2>3. writes[t] # <<>> => /\ writes'[t][1].op = writes[t][1].op
                            /\ writes'[t][1].field = writes[t][1].field
    BY <2>1, AgedSeqFacts, AgedWriteFit, SeqFacts
  <2> QED BY <2>1, <2>2, <2>3 DEF Saving, Writes, PartOf
<1>7. ASSUME NEW f \in Field
      PROVE  Saved'[f] = IF f \in Timed THEN Older(Saved[f]) ELSE Saved[f]
  <2>1. CASE row = None
    <3>1. Saved' = NoRow /\ Saved = NoRow  BY <1>1, <2>1 DEF Saved
    <3>2. f \in Timed => NoRow[f] = None  BY NoRowTyped DEF Timed
    <3>3. Older(None) = None  BY DEF Older
    <3> QED BY <3>1, <3>2, <3>3
  <2>2. CASE row # None
    <3>1. row \in Record /\ row' = Aged(row) /\ row' # None
      BY <1>1, <2>2, AgedTyped, NoneAssumption DEF TypeInv
    <3>2. Saved' = Aged(row) /\ Saved = row  BY <2>2, <3>1 DEF Saved
    <3> QED BY <3>1, <3>2, AgedTyped DEF Timed
  <2> QED BY <2>1, <2>2
<1> QED BY <1>1, <1>5, <1>6, <1>7

LEMMA TickStep ==
    ASSUME IInv, Tick
    PROVE  IInv'
<1>0. TypeInv /\ SaveInv /\ FailsInv /\ LimitInv /\ RetryInv  BY DEF IInv
<1>1. /\ TypeInv'
      /\ mem' = Aged(mem) /\ UNCHANGED <<at, streak, raced, retried>>
      /\ limit' = IF limit > 0 THEN limit - 1 ELSE 0
      /\ \A t \in Threads : /\ writes'[t] = AgedSeq(writes[t])
                            /\ writes'[t] = <<>> <=> writes[t] = <<>>
                            /\ Saving(t)' <=> Saving(t)
                            /\ \A p : Writes(t, p)' <=> Writes(t, p)
      /\ \A f \in Field : Saved'[f] = IF f \in Timed THEN Older(Saved[f]) ELSE Saved[f]
  BY <1>0, TickFacts
<1>2. \A p : \A t \in Threads : Alone(t, p)' <=> Alone(t, p)  BY <1>1 DEF Alone
<1>3. \A f \in Field : mem'[f] = IF f \in Timed THEN Older(mem[f]) ELSE mem[f]
  BY <1>0, <1>1, AgedTyped DEF TypeInv, Timed
<1>4. ASSUME NEW t \in Threads, Saving(t)
      PROVE  /\ writes'[t][1].field = writes[t][1].field /\ writes[t][1].field \in Field
             /\ writes'[t][1].value = IF writes[t][1].field \in Timed
                                      THEN Older(writes[t][1].value) ELSE writes[t][1].value
  <2>1. writes[t] \in Seqs /\ writes[t] # <<>> /\ writes[t][1].op \in {"update", "replace"}
    BY <1>0, <1>4 DEF Saving, TypeInv
  <2>2. writes[t][1] \in Fit /\ writes'[t][1] = AgedWrite(writes[t][1])
    BY <1>1, <2>1, AgedSeqFacts, SeqFacts
  <2> QED BY <2>1, <2>2, AgedWriteFit, FitFields
<1>5. SaveInv'
  <2> SUFFICES ASSUME NEW p \in Parts \ raced
               PROVE  /\ \A t \in Threads : Writes(t, p)' => Alone(t, p)'
                      /\ \A t \in Threads : Writes(t, p)' /\ Saving(t)' =>
                            writes'[t][1].value = mem'[writes'[t][1].field]
                      /\ \A f \in PartFields(p) :
                            \/ mem'[f] = Saved'[f]
                            \/ \E t \in Threads : Saving(t)' /\ writes'[t][1].field = f
    BY <1>1 DEF SaveInv
  <2>1. \A t \in Threads : Writes(t, p)' => Alone(t, p)'
    BY <1>0, <1>1, <1>2 DEF SaveInv
  <2>2. ASSUME NEW t \in Threads, Writes(t, p)', Saving(t)'
        PROVE  writes'[t][1].value = mem'[writes'[t][1].field]
    <3>1. Saving(t) /\ writes[t][1].value = mem[writes[t][1].field]
      BY <1>0, <1>1, <2>2 DEF SaveInv
    <3> QED BY <1>3, <1>4, <3>1
  <2>3. ASSUME NEW f \in PartFields(p)
        PROVE  \/ mem'[f] = Saved'[f]
               \/ \E t \in Threads : Saving(t)' /\ writes'[t][1].field = f
    <3>1. f \in Field  BY FieldParts
    <3>2. CASE mem[f] = Saved[f]  BY <1>1, <1>3, <3>1, <3>2
    <3>3. CASE \E t \in Threads : Saving(t) /\ writes[t][1].field = f
      BY <1>1, <1>4, <3>3
    <3> QED BY <1>0, <3>2, <3>3 DEF SaveInv
  <2> QED BY <2>1, <2>2, <2>3
<1>6. ASSUME NEW t \in Threads, NEW f \in Field
      PROVE  \/ Out(t, f)' = Out(t, f)
             \/ f \in Timed /\ Out(t, f)' = Older(Out(t, f))
  BY <1>0, <1>1, OutAged DEF Out, TypeInv
<1>7. \A t \in Threads : /\ Out(t, "failure_count")' = Out(t, "failure_count")
                         /\ Out(t, "tmr_limit_wait")' = Out(t, "tmr_limit_wait")
  BY <1>6 DEF Timed, Field
<1>8. ASSUME NEW t \in Threads
      PROVE  /\ Out(t, "failure_count") \in Nat
             /\ Out(t, "failure_time") \in Age /\ Out(t, "tmr_limit_time") \in Age
             /\ Out(t, "tmr_limit_wait") \in Age
  BY <1>0, OutTyped, Ages DEF Field, FieldType, Count
<1>9. FailsInv'
  <2> SUFFICES ASSUME "fails" \notin raced, NEW t \in Threads, Alone(t, "fails")
               PROVE  /\ Out(t, "failure_count")' = streak
                      /\ Out(t, "failure_count")' = 0 \/ Out(t, "failure_time")' # None
    BY <1>1, <1>2 DEF FailsInv
  <2>1. Out(t, "failure_time") # None => Out(t, "failure_time")' # None
    <3>1. \/ Out(t, "failure_time")' = Out(t, "failure_time")
          \/ Out(t, "failure_time")' = Older(Out(t, "failure_time"))
      BY <1>6 DEF Field
    <3>2. Out(t, "failure_time") # None => Older(Out(t, "failure_time")) # None
      BY <1>8, Ages DEF Older, Age, Least
    <3> QED BY <3>1, <3>2
  <2> QED BY <1>0, <1>7, <2>1 DEF FailsInv
<1>10. ASSUME NEW t \in Threads
       PROVE  /\ OutLeft(t) \in Nat /\ OutLeft(t)' \in Nat
              /\ OutLeft(t)' <= OutLeft(t) /\ OutLeft(t)' + 1 >= OutLeft(t)
  <2>1. \/ Out(t, "tmr_limit_time")' = Out(t, "tmr_limit_time")
        \/ Out(t, "tmr_limit_time")' = Older(Out(t, "tmr_limit_time"))
    BY <1>6 DEF Field
  <2> DEFINE a == Out(t, "tmr_limit_time")
             b == Out(t, "tmr_limit_wait")
  <2>2. a \in Age /\ b \in Age /\ Older(a) \in Age  BY <1>8, OlderTyped
  <2>3. OutLeft(t) = LeftOf(a, b) /\ OutLeft(t)' \in {LeftOf(a, b), LeftOf(Older(a), b)}
    BY <1>7, <2>1 DEF OutLeft
  <2> HIDE DEF a, b
  <2>4. LeftOf(a, b) \in Nat /\ LeftOf(Older(a), b) \in Nat
        /\ LeftOf(Older(a), b) <= LeftOf(a, b) /\ LeftOf(Older(a), b) + 1 >= LeftOf(a, b)
    BY <2>2, LeftFacts
  <2> QED BY <2>3, <2>4
<1>11. LimitInv'
  <2> SUFFICES ASSUME "limit" \notin raced, NEW t \in Threads
               PROVE  /\ Alone(t, "limit") => OutLeft(t)' >= limit'
                      /\ at[t] = "clear" => limit' = 0
    BY <1>1, <1>2 DEF LimitInv
  <2>1. limit \in Nat  BY <1>0, Ages DEF TypeInv
  <2> QED BY <1>0, <1>1, <1>10, <2>1 DEF LimitInv
<1>12. RetryInv'
  <2> SUFFICES ASSUME NEW r \in Threads, retried = r
               PROVE  /\ \A u \in Threads \ {r} : writes'[u] = <<>> /\ at[u] # "retry"
                      /\ OutLeft(r)' = 0
                      /\ "fails" \notin raced /\ at[r] # "retry" =>
                            \/ Out(r, "failure_count")' < 3
                            \/ Out(r, "failure_time")' >= WaitAfter(Out(r, "failure_count")', 2)
    <3>1. retried' = retried /\ retried \in Threads \cup {None}  BY <1>0, <1>1 DEF TypeInv
    <3>2. CASE retried = None  BY <3>1, <3>2 DEF RetryInv
    <3>3. CASE retried \in Threads
      <4> DEFINE r == retried
      <4>1. /\ \A u \in Threads \ {r} : writes'[u] = <<>> /\ at[u] # "retry"
            /\ OutLeft(retried)' = 0
            /\ "fails" \notin raced /\ at[r] # "retry" =>
                  \/ Out(retried, "failure_count")' < 3
                  \/ Out(retried, "failure_time")' >= WaitAfter(Out(retried, "failure_count")', 2)
        BY <3>1, <3>3 DEF OutLeft, Out
      <4> QED BY <1>1, <3>1, <4>1 DEF RetryInv
    <3> QED BY <3>1, <3>2, <3>3
  <2>0. /\ \A u \in Threads \ {r} : writes[u] = <<>> /\ at[u] # "retry"
        /\ OutLeft(r) = 0
        /\ "fails" \notin raced /\ at[r] # "retry" =>
              \/ Out(r, "failure_count") < 3
              \/ Out(r, "failure_time") >= WaitAfter(Out(r, "failure_count"), 2)
    <3>1. retried # None  BY BackoffAssumption
    <3> QED BY <1>0, <3>1 DEF RetryInv
  <2>2. \A u \in Threads \ {r} : writes'[u] = <<>> /\ at[u] # "retry"
    BY <1>1, <2>0
  <2>3. OutLeft(r)' = 0  BY <1>10, <2>0
  <2>4. ASSUME "fails" \notin raced, at[r] # "retry", ~(Out(r, "failure_count") < 3)
        PROVE  Out(r, "failure_time")' >= WaitAfter(Out(r, "failure_count"), 2)
    <3> DEFINE a == Out(r, "failure_time")
               w == WaitAfter(Out(r, "failure_count"), 2)
    <3>1. a >= w  BY <2>0, <2>4
    <3>2. Alone(r, "fails")  BY <2>0 DEF Alone, Writes
    <3>3. Out(r, "failure_count") # 0  BY <2>4
    <3>4. a # None /\ a \in Age  BY <1>0, <1>8, <2>4, <3>2, <3>3 DEF FailsInv
    <3>5. w \in 1..MaxAge  BY <1>8, Waits
    <3>6. Out(r, "failure_time")' \in {a, Older(a)}  BY <1>6 DEF Field
    <3> HIDE DEF a, w
    <3>7. Older(a) >= w  BY <3>1, <3>4, <3>5, Ages DEF Older, Least, Age
    <3> QED BY <3>1, <3>6, <3>7 DEF w
  <2> QED BY <1>7, <2>2, <2>3, <2>4
<1> QED BY <1>1, <1>5, <1>9, <1>11, <1>12 DEF IInv

(***************************************************************************)
(* A restart.  A part that no thread was writing, and that is in order, is *)
(* read as it was.                                                         *)
(***************************************************************************)
LEMMA QuietSaved ==
    ASSUME SaveInv, NEW p \in Parts, Quiet(p), NEW f \in PartFields(p)
    PROVE  mem[f] = Saved[f]
<1>1. SUFFICES ASSUME NEW t \in Threads, Saving(t), writes[t][1].field = f PROVE FALSE
  BY DEF SaveInv, Quiet
<1>2. Writes(t, p)  BY <1>1, FieldParts DEF Writes, PartOf, Saving
<1> QED BY <1>2 DEF Quiet

LEMMA QuietOut ==
    ASSUME TypeInv, NEW p \in Parts, Quiet(p), NEW t \in Threads
    PROVE  Alone(t, p) /\ \A f \in PartFields(p) : Out(t, f) = mem[f]
BY OutOthers DEF Quiet, Alone

LEMMA RestartStep ==
    ASSUME IInv, Restart
    PROVE  IInv'
<1>0. TypeInv /\ SaveInv /\ FailsInv /\ LimitInv  BY DEF IInv
<1>1. /\ mem' = Saved /\ row' = row /\ retried' = None /\ Remembers(limit, streak)
      /\ at' = [t \in Threads |-> "idle"] /\ writes' = [t \in Threads |-> <<>>]
      /\ raced' = raced \cup {PartOf(writes[t]) : t \in {u \in Threads : writes[u] # <<>>}}
  BY DEF Restart
<1>2. limit \in 0..MaxAge /\ streak \in Count  BY <1>0 DEF TypeInv
<1>3. /\ limit' \in 0..MaxAge /\ streak' \in Count
      /\ limit' = IF "limit" \in raced' THEN 0 ELSE limit
      /\ streak' = IF "fails" \in raced' THEN 0 ELSE streak
  BY <1>1, <1>2, RemembersTyped
<1>4. <<>> \in Seqs
  <2>1. <<>> \in Seq(Fit) /\ Len(<<>>) = 0  OBVIOUS
  <2> QED BY <2>1 DEF Seqs
<1>5. raced' \subseteq Parts
  <2>1. \A t \in Threads : writes[t] # <<>> => PartOf(writes[t]) \in Parts
    BY <1>0, ThreadFacts, FieldParts DEF PartOf
  <2> QED BY <1>0, <1>1, <2>1 DEF TypeInv, Parts
<1>6. TypeInv'
  BY <1>0, <1>1, <1>3, <1>4, <1>5, SavedTyped DEF TypeInv, Steps, Parts
<1>7. \A p : p \notin raced' => Quiet(p)  BY <1>1 DEF Quiet, Writes
<1>8. \A p \in Parts : p \notin raced' => \A f \in PartFields(p) : mem'[f] = mem[f]
  BY <1>0, <1>1, <1>7, QuietSaved
<1>9. SaveInv'
  <2>1. Saved' = Saved  BY <1>1 DEF Saved
  <2> QED BY <1>1, <2>1 DEF SaveInv, Writes
<1>10. \A t \in Threads : \A f : Out(t, f)' = mem'[f]
  <2>1. \A t \in Threads : writes'[t] = <<>>  BY <1>1
  <2>2. Len(<<>>) = 0  OBVIOUS
  <2> QED BY <2>1, <2>2 DEF Out, OutOf
<1>11. ASSUME NEW p \in Parts, p \notin raced', NEW t \in Threads
       PROVE  Alone(t, p) /\ \A f \in PartFields(p) : Out(t, f)' = Out(t, f)
  BY <1>0, <1>7, <1>8, <1>10, <1>11, QuietOut
<1>12. FailsInv'
  <2> SUFFICES ASSUME "fails" \notin raced', NEW t \in Threads
               PROVE  /\ Out(t, "failure_count")' = streak'
                      /\ Out(t, "failure_count")' = 0 \/ Out(t, "failure_time")' # None
    BY DEF FailsInv
  <2>1. "fails" \notin raced /\ "fails" \in Parts /\ streak' = streak  BY <1>1, <1>3 DEF Parts
  <2>2. Alone(t, "fails") /\ Out(t, "failure_count")' = Out(t, "failure_count")
        /\ Out(t, "failure_time")' = Out(t, "failure_time")
    BY <1>11, <2>1, FieldParts
  <2> QED BY <1>0, <2>1, <2>2 DEF FailsInv
<1>13. LimitInv'
  <2> SUFFICES ASSUME "limit" \notin raced', NEW t \in Threads
               PROVE  OutLeft(t)' >= limit' /\ at'[t] # "clear"
    BY DEF LimitInv
  <2>1. "limit" \notin raced /\ "limit" \in Parts /\ limit' = limit  BY <1>1, <1>3 DEF Parts
  <2>2. Alone(t, "limit") /\ Out(t, "tmr_limit_time")' = Out(t, "tmr_limit_time")
        /\ Out(t, "tmr_limit_wait")' = Out(t, "tmr_limit_wait")
    BY <1>11, <2>1, FieldParts
  <2>3. OutLeft(t)' = OutLeft(t)  BY <2>2 DEF OutLeft
  <2>4. at'[t] = "idle"  BY <1>1
  <2> QED BY <1>0, <2>1, <2>2, <2>3, <2>4 DEF LimitInv
<1> QED BY <1>1, <1>6, <1>9, <1>12, <1>13, RetryForgotten DEF IInv

(***************************************************************************)
(* All steps, and what follows.                                            *)
(***************************************************************************)
LEMMA Initially == Init => IInv
<1> SUFFICES ASSUME Init PROVE IInv  OBVIOUS
<1>1. /\ mem = NoRow /\ row = None /\ limit = 0 /\ streak = 0 /\ raced = {} /\ retried = None
      /\ \A t \in Threads : at[t] = "idle" /\ writes[t] = <<>>
      /\ at = [t \in Threads |-> "idle"] /\ writes = [t \in Threads |-> <<>>]
  BY DEF Init
<1>2. TypeInv
  <2>1. <<>> \in Seq(Fit) /\ Len(<<>>) = 0  OBVIOUS
  <2>2. <<>> \in Seqs  BY <2>1 DEF Seqs
  <2> QED BY <1>1, <2>2, Ages, NoRowTyped DEF TypeInv, Steps, Count
<1>3. Saved = mem  BY <1>1 DEF Saved
<1>4. \A t \in Threads : \A f : Out(t, f) = NoRow[f]
  <2>1. Len(<<>>) = 0  OBVIOUS
  <2> QED BY <1>1, <2>1 DEF Out, OutOf
<1>5. SaveInv  BY <1>1, <1>3 DEF SaveInv, Writes
<1>6. FailsInv  BY <1>1, <1>4, NoRowTyped DEF FailsInv
<1>7. LimitInv  BY <1>1, <1>4, NoRowTyped DEF LimitInv, OutLeft, LeftOf
<1>8. RetryInv  BY <1>1 DEF RetryInv
<1> QED BY <1>2, <1>5, <1>6, <1>7, <1>8 DEF IInv

LEMMA Inductive ==
    ASSUME IInv, [Next]_vars
    PROVE  IInv'
<1>1. CASE UNCHANGED vars
  BY <1>1 DEF vars, IInv, TypeInv, SaveInv, FailsInv, LimitInv, RetryInv, Saved, Saving, Writes,
              PartOf, Alone, Out, OutLeft
<1>2. CASE Tick  BY <1>2, TickStep
<1>3. CASE Restart  BY <1>3, RestartStep
<1>4. ASSUME NEW t \in Threads, Step(t) \/ RetryLimit(t) PROVE IInv'
  <2>0. TypeInv  BY DEF IInv
  <2>1. CASE Assign(t)  BY <2>1, AssignStep
  <2>2. CASE Save(t)  BY <2>2, SaveStep
  <2>3. CASE LimitExpired(t)  BY <2>3, LimitExpiredStep
  <2>4. CASE Clear(t)  BY <2>4, ClearStep
  <2>5. CASE TimeMissing(t)  BY <2>5, TimeMissingStep
  <2>6. CASE Skips(t)
    <3>1. at[t] # "retry" /\ Goes(t, "idle") /\ Remembers(limit, streak) /\ UNCHANGED retried
      BY <2>6 DEF Skips, At
    <3> QED BY <3>1, GoesStep DEF Steps
  <2>7. CASE Passes(t)
    <3>1. at[t] # "retry" /\ Goes(t, "open") /\ Remembers(limit, streak) /\ UNCHANGED retried
      BY <2>7 DEF Passes, NoLimit, At
    <3> QED BY <3>1, GoesStep DEF Steps
  <2>8. CASE Told(t)
    <3>1. at[t] # "retry" /\ Goes(t, "idle") /\ Remembers(limit, streak) /\ UNCHANGED retried
      BY <2>8 DEF Told, At
    <3> QED BY <3>1, GoesStep DEF Steps
  <2>9. CASE Succeeds(t)  BY <2>9, SucceedsStep
  <2>10. CASE Fails(t, FALSE) \/ Fails(t, TRUE)  BY <2>10, FailsStep
  <2>11. CASE Limited(t)
    <3>1. PICK wait \in Given \cup {WaitAfter(mem.failure_count, 0)} : LimitedTo(t, wait)
      BY <2>11 DEF Limited
    <3>2. mem.failure_count \in Nat  BY <2>0, RecordFields DEF TypeInv
    <3>3. wait \in 1..MaxAge  BY <3>2, Ages, Waits
    <3> QED BY <3>1, <3>3, LimitedStep
  <2>12. CASE RetryFails(t)  BY <2>12, RetryFailsStep
  <2>13. CASE RetryLimit(t)  BY <2>13, RetryLimitStep
  <2> QED BY <1>4, <2>1, <2>2, <2>3, <2>4, <2>5, <2>6, <2>7, <2>8, <2>9, <2>10, <2>11, <2>12,
             <2>13 DEF Step, Asks
<1> QED BY <1>1, <1>2, <1>3, <1>4 DEF Next

LEMMA Always == Spec => []IInv
<1>1. Init => IInv  BY Initially
<1>2. IInv /\ [Next]_vars => IInv'  BY Inductive
<1> QED BY <1>1, <1>2, PTL DEF Spec

\* The attributes, the row and what is still to be written are what the setters
\* and _save_fail_value may make of them, whoever writes when.
THEOREM TypeCorrect == Spec => []TypeOK
<1>1. IInv => TypeOK
  <2> SUFFICES ASSUME TypeInv PROVE TypeOK
    BY DEF IInv
  <2>1. \A t \in Threads : writes[t] \in Seq(Write)  BY SeqFacts DEF TypeInv
  <2> QED BY <2>1 DEF TypeInv, TypeOK
<1> QED BY <1>1, Always, PTL

\* What _load_fail_values would read is what is in use, for each part that no
\* thread is writing and no two have written at once.
THEOREM SavedIsUsed == Spec => []SavedIsMemory
<1>1. IInv => SavedIsMemory
  BY QuietSaved DEF IInv, SavedIsMemory, Parts
<1> QED BY <1>1, Always, PTL

\* should_skip leaves a provider alone for at least as long as its server asked
\* tmr_limit_update for, over restarts, failures and successes.
THEOREM LimitsAreKept == Spec => []LimitKept
<1>1. IInv => LimitKept
  <2> SUFFICES ASSUME IInv, Quiet("limit") PROVE LimitLeft(mem) >= limit
    BY DEF LimitKept
  <2>0. TypeInv /\ LimitInv  BY DEF IInv
  <2>1. PICK t \in Threads : TRUE  BY BackoffAssumption
  <2>2. Alone(t, "limit") /\ \A f \in PartFields("limit") : Out(t, f) = mem[f]
    BY <2>0, QuietOut DEF Parts
  <2>3. OutLeft(t) = LimitLeft(mem)
    BY <2>0, <2>2, FieldParts, LimitIsLeft DEF OutLeft, TypeInv
  <2> QED BY <2>0, <2>2, <2>3 DEF LimitInv, Quiet
<1> QED BY <1>1, Always, PTL

\* failure_count is the number of failures since the last success.
THEOREM FailuresAreCounted == Spec => []FailuresCounted
<1>1. IInv => FailuresCounted
  <2> SUFFICES ASSUME IInv, Quiet("fails") PROVE mem.failure_count = streak
    BY DEF FailuresCounted
  <2>0. TypeInv /\ FailsInv  BY DEF IInv
  <2>1. PICK t \in Threads : TRUE  BY BackoffAssumption
  <2>2. Alone(t, "fails") /\ \A f \in PartFields("fails") : Out(t, f) = mem[f]
    BY <2>0, QuietOut DEF Parts
  <2>3. mem.failure_count = mem["failure_count"]  BY <2>0, RecordFields DEF TypeInv
  <2> QED BY <2>0, <2>2, <2>3, FieldParts DEF FailsInv, Quiet
<1> QED BY <1>1, Always, PTL

\* A provider whose retry_next no other write has disturbed is not skipped.
THEOREM RetriesUnblock == Spec => []RetryUnblocks
<1>1. IInv => RetryUnblocks
  <2> SUFFICES ASSUME IInv, NEW t \in Threads, retried = t, At(t, "idle"), Quiet("fails"),
                      Quiet("limit")
               PROVE  ~Blocked(mem)
    BY DEF RetryUnblocks, IInv, TypeInv
  <2>0. TypeInv /\ FailsInv /\ RetryInv  BY DEF IInv
  <2>1. t # None  BY BackoffAssumption
  <2>2. /\ Alone(t, "fails")
        /\ \A f \in PartFields("fails") : Out(t, f) = mem[f]
        /\ \A f \in PartFields("limit") : Out(t, f) = mem[f]
    BY <2>0, QuietOut DEF Parts
  <2>3. LimitLeft(mem) = 0
    BY <2>0, <2>1, <2>2, FieldParts, LimitIsLeft DEF OutLeft, TypeInv, RetryInv
  <2>4. /\ mem.failure_count = mem["failure_count"] /\ mem.failure_time = mem["failure_time"]
        /\ mem.failure_count \in Nat /\ mem.failure_time \in Age
    BY <2>0, RecordFields DEF TypeInv
  <2>5. \/ mem.failure_count < 3
        \/ mem.failure_time >= WaitAfter(mem.failure_count, 2)
    BY <2>0, <2>1, <2>2, <2>4, FieldParts DEF RetryInv, Quiet, At
  <2>6. mem.failure_count = 0 \/ mem.failure_time # None
    BY <2>0, <2>2, <2>4, FieldParts DEF FailsInv, Quiet
  <2>7. WaitAfter(mem.failure_count, 2) \in Nat
    <3>1. WaitAfter(mem.failure_count, 2) \in 1..MaxAge  BY <2>4, Waits
    <3> QED BY <3>1, Ages
  <2> QED BY <2>3, <2>4, <2>5, <2>6, <2>7 DEF Blocked, IsWaiting, CoolDown, Age
<1> QED BY <1>1, Always, PTL

(***************************************************************************)
(* One thread: what the histories excuse does not happen.                  *)
(***************************************************************************)
Only(t) == Threads = {t}

\* A restart does not come between the attribute and the column.
WholeRestart(t) == Restart => writes[t] = <<>>

Replacing(t) == writes[t] # <<>> /\ writes[t][1].op = "replace"

\* What has found no row replaces none.
RowIsMissing == \A t \in Threads : Replacing(t) => row = None

NoneRaced == raced = {}

\* Nothing is left of a limit once the thread has decided that it has expired.
LimitIsOver ==
    /\ "limit" \in raced => limit = 0
    /\ \A t \in Threads : at[t] \in {"clear", "cleared", "waiting"} => limit = 0

LEMMA DropsHead ==
    ASSUME TypeInv, NEW t \in Threads, writes[t] # <<>>, Then(t, <<>>)
    PROVE  ~Saving(t)'
<1>1. writes[t] \in Seqs /\ Len(writes[t]) \in {1, 2}
  BY ThreadFacts, SeqFacts
<1>2. writes'[t] = <<>> \o Tail(writes[t])
  BY DEF TypeInv, Then
<1>3. /\ writes'[t] \in Seqs /\ Len(writes'[t]) = Len(writes[t]) - 1
      /\ Len(writes'[t]) = 1 => writes'[t][1] = writes[t][2]
  BY <1>1, <1>2, Drop
<1>4. Len(writes[t]) = 2 => writes[t][2].op = "set"
  BY <1>1, SeqFacts
<1>5. CASE Len(writes[t]) = 1
  <2>1. writes'[t] = <<>>  BY <1>3, <1>5, SeqFacts
  <2> QED BY <2>1 DEF Saving
<1>6. CASE Len(writes[t]) = 2
  <2>1. writes'[t][1].op = "set"  BY <1>3, <1>4, <1>6
  <2> QED BY <2>1 DEF Saving
<1> QED BY <1>1, <1>5, <1>6

LEMMA HeadOf ==
    ASSUME TypeInv, NEW t \in Threads, writes[t] # <<>>, NEW x \in Fit,
           x.field = writes[t][1].field, Then(t, <<x>>)
    PROVE  writes'[t][1] = x
<1>1. writes[t] \in Seqs  BY DEF TypeInv
<1>2. writes'[t] = <<x>> \o Tail(writes[t])  BY DEF TypeInv, Then
<1> QED BY <1>1, <1>2, Repl

LEMMA ReplaceStep ==
    ASSUME TypeInv, TypeInv', RowIsMissing, [Next]_vars, NEW t, Only(t), Restart => writes[t] = <<>>
    PROVE  RowIsMissing' /\ (raced' \subseteq raced)
<1>0. t \in Threads /\ \A u \in Threads : u = t
  BY DEF Only
<1>2. CASE Restart
  BY <1>0, <1>2 DEF Restart, RowIsMissing, Replacing
<1>3. CASE Tick
  <2>1. \A u \in Threads : Replacing(u)' => Replacing(u)
    <3> SUFFICES ASSUME NEW u \in Threads PROVE Replacing(u)' => Replacing(u)
      OBVIOUS
    <3>1. writes[u] \in Seqs /\ writes'[u] = AgedSeq(writes[u])
      BY <1>3, TickFacts DEF TypeInv
    <3>2. writes'[u] = <<>> <=> writes[u] = <<>>  BY <3>1, AgedSeqFacts
    <3>3. writes[u] # <<>> => writes'[u][1].op = writes[u][1].op
      BY <3>1, AgedSeqFacts, AgedWriteFit, SeqFacts
    <3> QED BY <3>2, <3>3 DEF Replacing
  <2>2. (row = None => row' = None) /\ raced' = raced  BY <1>3 DEF Tick
  <2> QED BY <2>1, <2>2 DEF RowIsMissing
<1>4. CASE UNCHANGED vars
  BY <1>4 DEF vars, RowIsMissing, Replacing
<1>5. CASE Save(t)
  <2> DEFINE w == writes[t][1]
  <2>1. writes[t] # <<>> /\ Head(writes[t]) = w /\ w \in Fit
    BY <1>0, <1>5, ThreadFacts DEF Save
  <2>2. CASE w.op = "update" /\ row = None
    BY <1>5, <2>1, <2>2 DEF Save, RowIsMissing
  <2>3. CASE (w.op = "update" /\ row # None) \/ w.op = "replace"
    <3>1. Then(t, <<>>)  BY <1>5, <2>1, <2>3 DEF Save
    <3>2. ~Saving(t)'  BY <1>0, <2>1, <3>1, DropsHead
    <3>3. w.op = "replace" => row = None
      BY <1>0, <2>1 DEF RowIsMissing, Replacing
    <3>4. raced' = raced
      BY <1>5, <2>1, <2>3, <3>3 DEF Save
    <3> QED BY <1>0, <3>2, <3>4 DEF RowIsMissing, Replacing, Saving
  <2> QED BY <1>5, <2>1, <2>2, <2>3 DEF Save
<1>6. CASE Assign(t)
  <2> DEFINE w == writes[t][1]
  <2>1. writes[t] # <<>> /\ Head(writes[t]) = w /\ w \in Fit /\ raced' = raced
    BY <1>0, <1>6, ThreadFacts DEF Assign
  <2>2. ~Replacing(t)'
    <3>1. CASE w.op = "inc"
      <4> DEFINE x == Set(w.field, Least(mem[w.field] + 1, MaxCount))
      <4>1. Then(t, <<x>>)  BY <1>6, <2>1, <3>1 DEF Assign
      <4>2. x \in Fit /\ x.op = "set" /\ x.field = w.field
        <5>1. w.field = "failure_count"  BY <2>1, <3>1, FitFields
        <5>2. mem[w.field] \in Nat  BY <5>1, RecordFields DEF TypeInv
        <5>3. Least(mem[w.field] + 1, MaxCount) \in Count
          BY <5>2, Ages DEF Least, Count
        <5> QED BY <5>1, <5>3, SetFit DEF FieldType, Set, Field
      <4> HIDE DEF x
      <4>3. writes'[t][1] = x  BY <1>0, <2>1, <4>1, <4>2, HeadOf
      <4> QED BY <4>2, <4>3 DEF Replacing
    <3>2. CASE w.op = "set" /\ mem[w.field] = w.value
      <4>1. Then(t, <<>>)  BY <1>6, <2>1, <3>2 DEF Assign
      <4> QED BY <1>0, <2>1, <4>1, DropsHead DEF Replacing, Saving
    <3>3. CASE w.op = "set" /\ mem[w.field] # w.value
      <4>1. Then(t, <<With(w, "update")>>)  BY <1>6, <2>1, <3>3 DEF Assign, With
      <4>2. With(w, "update") \in Fit /\ With(w, "update").op = "update"
            /\ With(w, "update").field = w.field
        BY <2>1, WithFit
      <4>3. writes'[t][1] = With(w, "update")  BY <1>0, <2>1, <4>1, <4>2, HeadOf
      <4> QED BY <4>2, <4>3 DEF Replacing
    <3> QED BY <1>6, <2>1, <3>1, <3>2, <3>3 DEF Assign
  <2> QED BY <1>0, <2>1, <2>2 DEF RowIsMissing
<1>7. ASSUME UNCHANGED <<row, writes>>, raced' \subseteq raced PROVE RowIsMissing' /\ raced' \subseteq raced
  BY <1>7 DEF RowIsMissing, Replacing
<1>8. CASE LimitExpired(t)
  BY <1>0, <1>7, <1>8 DEF LimitExpired, Busy
<1>9. CASE Skips(t) \/ Passes(t) \/ Told(t)
  BY <1>7, <1>9 DEF Skips, Passes, Told, Goes
<1>10. ASSUME NEW s, s[1].op # "replace", NEW step, Begins(t, s, step)
       PROVE  RowIsMissing' /\ raced' \subseteq raced
  <2>1. writes'[t] = s  BY <1>0, <1>10 DEF Begins, TypeInv
  <2>2. ~Busy(t, PartOf(s))  BY <1>0 DEF Busy
  <2>3. raced' \subseteq raced  BY <1>10, <2>2 DEF Begins, Races
  <2> QED BY <1>0, <1>10, <2>1, <2>3 DEF RowIsMissing, Replacing
<1>11. \A x, y : <<x>>[1] = x /\ <<x, y>>[1] = x
  OBVIOUS
<1>12. \A f, v : Set(f, v).op = "set" /\ Inc(f).op = "inc"
  BY DEF Set, Inc
<1>13. CASE Clear(t) \/ TimeMissing(t) \/ Succeeds(t)
  BY <1>10, <1>11, <1>12, <1>13 DEF Clear, TimeMissing, Succeeds
<1>14. CASE Fails(t, FALSE) \/ Fails(t, TRUE)
  BY <1>10, <1>11, <1>12, <1>14 DEF Fails
<1>15. CASE Limited(t)
  BY <1>10, <1>11, <1>12, <1>15 DEF Limited, LimitedTo
<1>16. CASE RetryFails(t) \/ RetryLimit(t)
  <2>1. ASSUME NEW step, Goes(t, step) PROVE RowIsMissing' /\ raced' \subseteq raced
    BY <1>7, <2>1 DEF Goes
  <2> QED BY <1>10, <1>11, <1>12, <1>16, <2>1 DEF RetryFails, RetryLimit
<1> QED
  BY <1>0, <1>2, <1>3, <1>4, <1>5, <1>6, <1>8, <1>9, <1>13, <1>14, <1>15, <1>16
  DEF Next, Step, Asks

\* One thread, whose writes no restart cuts: between its writes the row is what
\* is in use, the limit lasts as long as the server asked, and every failure
\* since the last success is counted, without exception.
THEOREM OneThreadKeepsAll ==
    ASSUME NEW t, Only(t)
    PROVE  Spec /\ [][WholeRestart(t)]_vars =>
             [](writes[t] = <<>> => /\ mem = Saved
                                    /\ LimitLeft(mem) >= limit
                                    /\ mem.failure_count = streak)
<1>1. Init => RowIsMissing /\ NoneRaced
  BY DEF Init, RowIsMissing, Replacing, NoneRaced
<1>2. IInv /\ IInv' /\ RowIsMissing /\ NoneRaced /\ [Next]_vars /\ [WholeRestart(t)]_vars =>
        RowIsMissing' /\ NoneRaced'
  <2> SUFFICES ASSUME IInv, IInv', RowIsMissing, NoneRaced, [Next]_vars, [WholeRestart(t)]_vars
               PROVE  RowIsMissing' /\ NoneRaced'
    OBVIOUS
  <2>1. CASE UNCHANGED vars
    BY <2>1 DEF vars, RowIsMissing, Replacing, NoneRaced
  <2>2. CASE WholeRestart(t)
    <3>1. TypeInv /\ TypeInv'  BY DEF IInv
    <3> QED BY <2>2, <3>1, ReplaceStep DEF WholeRestart, NoneRaced
  <2> QED BY <2>1, <2>2
<1>3. IInv /\ SavedIsMemory /\ LimitKept /\ FailuresCounted /\ NoneRaced =>
        (writes[t] = <<>> => /\ mem = Saved
                             /\ LimitLeft(mem) >= limit
                             /\ mem.failure_count = streak)
  <2> SUFFICES ASSUME IInv, SavedIsMemory, LimitKept, FailuresCounted, NoneRaced, writes[t] = <<>>
               PROVE  mem = Saved /\ LimitLeft(mem) >= limit /\ mem.failure_count = streak
    OBVIOUS
  <2>1. Quiet("limit") /\ Quiet("fails")
    BY DEF Quiet, Writes, Only, NoneRaced
  <2>2. \A f \in Field : mem[f] = Saved[f]
    BY <2>1, FieldParts DEF SavedIsMemory, Field
  <2>3. mem \in Record /\ Saved \in Record
    BY SavedTyped DEF IInv, TypeInv
  <2>4. mem = Saved
    BY <2>2, <2>3 DEF Record, Field
  <2> QED BY <2>1, <2>4 DEF LimitKept, FailuresCounted
<1> QED
  BY <1>1, <1>2, <1>3, Always, SavedIsUsed, LimitsAreKept, FailuresAreCounted, PTL DEF Spec

LEMMA NoLimitLeft ==
    ASSUME IInv, LimitKept, LimitIsOver, NEW t, Only(t),
           \/ NoLimit(t)
           \/ At(t, "idle") /\ LimitLeft(mem) = 0
           \/ At(t, "waiting")
    PROVE  limit = 0
<1>1. t \in Threads /\ limit \in Nat
  BY Ages DEF Only, IInv, TypeInv
<1>2. CASE at[t] \in {"cleared", "waiting"} \/ "limit" \in raced
  BY <1>1, <1>2 DEF LimitIsOver
<1>3. CASE at[t] = "idle" /\ "limit" \notin raced
  <2>1. Quiet("limit") /\ LimitLeft(mem) = 0
    BY <1>3 DEF NoLimit, At, Quiet, Writes, Only, LimitLeft
  <2> QED BY <1>1, <2>1 DEF LimitKept
<1> QED BY <1>2, <1>3 DEF NoLimit, At

LEMMA LimitOverStep ==
    ASSUME IInv, LimitKept, LimitIsOver, NEW t, Only(t), [Next]_vars
    PROVE  LimitIsOver'
<1>0. t \in Threads /\ (\A u \in Threads : u = t) /\ at \in [Threads -> Steps] /\ limit \in Nat
  BY Ages DEF Only, IInv, TypeInv
<1>1. ASSUME NEW left, NEW count, Remembers(left, count)
      PROVE  limit' = IF "limit" \in raced' THEN 0 ELSE left
  BY <1>1 DEF Remembers
\* a step that forgets the limit with the part, and where it was over or is not used
<1>2. ASSUME NEW left, NEW count, Remembers(left, count),
             at'[t] \in {"clear", "cleared", "waiting"} => left = 0
      PROVE  LimitIsOver'
  BY <1>0, <1>1, <1>2 DEF LimitIsOver
<1>3. ASSUME NEW step, at' = [at EXCEPT ![t] = step] PROVE at'[t] = step
  BY <1>0, <1>3
<1>4. CASE UNCHANGED vars
  BY <1>4 DEF vars, LimitIsOver
<1>5. CASE Restart
  BY <1>0, <1>2, <1>5 DEF Restart
<1>6. CASE Tick
  <2>1. UNCHANGED <<at, raced>> /\ (limit = 0 => limit' = 0)
    BY <1>6 DEF Tick
  <2> QED BY <2>1 DEF LimitIsOver
<1>7. CASE Assign(t)
  BY <1>7 DEF Assign, LimitIsOver
<1>8. CASE Save(t)
  <2>1. at' = at /\ Remembers(limit, streak)  BY <1>8 DEF Save
  <2> QED BY <1>0, <1>2, <2>1 DEF LimitIsOver
<1>9. CASE LimitExpired(t)
  <2>1. At(t, "idle") /\ LimitLeft(mem) = 0 /\ Remembers(limit, streak)  BY <1>9 DEF LimitExpired
  <2> QED BY <1>2, <2>1, NoLimitLeft
<1>10. CASE Clear(t)
  <2>1. at[t] = "clear" /\ Remembers(limit, streak)  BY <1>10 DEF Clear, At
  <2> QED BY <1>0, <1>2, <2>1 DEF LimitIsOver
<1>11. CASE TimeMissing(t)
  <2>1. NoLimit(t) /\ Remembers(limit, streak)  BY <1>11 DEF TimeMissing
  <2> QED BY <1>2, <2>1, NoLimitLeft
\* wherever else a thread goes, a limit may stand
<1>12. ASSUME NEW left, NEW count, Remembers(left, count), NEW s, NEW step \in {"idle", "open", "retry"},
              Begins(t, s, step) \/ Goes(t, step)
       PROVE  LimitIsOver'
  <2>1. at'[t] = step  BY <1>3, <1>12 DEF Begins, Goes
  <2> QED BY <1>2, <1>12, <2>1
<1>13. CASE Skips(t) \/ Passes(t) \/ Told(t)
  BY <1>12, <1>13 DEF Skips, Passes, Told
<1>14. CASE Succeeds(t) \/ Fails(t, FALSE) \/ Fails(t, TRUE)
  BY <1>12, <1>14 DEF Succeeds, Fails
<1>15. CASE Limited(t)
  BY <1>12, <1>15 DEF Limited, LimitedTo
<1>16. CASE RetryFails(t) \/ RetryLimit(t)
  BY <1>12, <1>16 DEF RetryFails, RetryLimit
<1> QED
  BY <1>0, <1>4, <1>5, <1>6, <1>7, <1>8, <1>9, <1>10, <1>11, <1>13, <1>14, <1>15, <1>16
  DEF Next, Step, Asks

\* One thread does not ask a provider before its server's limit has passed: not
\* after a restart that cut its writes either, nor once it has cleared an earlier
\* limit.  (With two, one may pass on the strength of a limit it has cleared
\* although the other has been told a new one since.)
THEOREM OneThreadWaits ==
    ASSUME NEW t, Only(t)
    PROVE  Spec => [][Passes(t) => limit = 0]_vars
<1>1. Init => LimitIsOver
  BY DEF Init, LimitIsOver
<1>2. IInv /\ LimitKept /\ LimitIsOver /\ [Next]_vars => LimitIsOver'
  BY LimitOverStep
<1>3. IInv /\ LimitKept /\ LimitIsOver => [Passes(t) => limit = 0]_vars
  <2> SUFFICES ASSUME IInv, LimitKept, LimitIsOver, Passes(t) PROVE limit = 0
    OBVIOUS
  <2> QED BY NoLimitLeft DEF Passes
<1> QED
  BY <1>1, <1>2, <1>3, Always, LimitsAreKept, PTL DEF Spec
=============================================================================
