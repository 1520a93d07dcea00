-------------------------- MODULE FreshnessProofs ---------------------------
(* Proofs about Freshness. *)
EXTENDS Freshness, Sums, FiniteSetTheorems, TLAPS

----------------------------------------------------------------------------
(* Minutes *)

\* A tick is its minutes and what is left of the last one.
LEMMA Division ==
  ASSUME NEW t \in Nat
  PROVE  /\ t \div Minute \in Nat
         /\ t = Minute * (t \div Minute) + (t % Minute)
         /\ t % Minute \in 0 .. Minute - 1
  BY FreshnessAssumption, Z3

\* date_trunc('minute', t) is at most t, and less than a minute before it.
LEMMA TruncBounds ==
  ASSUME NEW t \in Nat
  PROVE  /\ Trunc(t) \in Nat /\ Trunc(t) <= t /\ t < Trunc(t) + Minute
         /\ Trunc(t) = Minute * (t \div Minute)
  BY Division, FreshnessAssumption DEF Trunc

LEMMA TimesMonotone ==
  ASSUME NEW m \in Nat \ {0}, NEW i \in Int, NEW j \in Int
  PROVE  /\ i <= j => m * i <= m * j
         /\ m * i < m * j + m => i <= j
  <1>1. i <= j => m * i <= m * j
    BY Z3
  <1>2. i > j => m * i >= m * (j + 1)
    BY Z3
  <1>3. m * (j + 1) = m * j + m
    BY Z3
  <1>4. m * i \in Int /\ m * j \in Int
    BY Z3
  <1> QED
    BY <1>1, <1>2, <1>3, <1>4

\* Later ticks have later minutes.
LEMMA TruncMonotone ==
  ASSUME NEW s \in Nat, NEW t \in Nat, s <= t
  PROVE  Trunc(s) <= Trunc(t)
  <1> DEFINE i == s \div Minute
             j == t \div Minute
  <1>1. i \in Nat /\ j \in Nat /\ Trunc(s) = Minute * i /\ Trunc(t) = Minute * j
    BY Division, TruncBounds
  <1>0. Trunc(s) \in Nat /\ Trunc(t) \in Nat /\ Trunc(s) <= s /\ t < Trunc(t) + Minute
    BY TruncBounds
  <1>2. Minute * i < Minute * j + Minute
    <2>1. Trunc(s) < Trunc(t) + Minute
      BY <1>0, FreshnessAssumption
    <2> QED
      BY <1>1, <2>1
  <1> HIDE DEF i, j
  <1>3. i <= j
    BY <1>1, <1>2, TimesMonotone, FreshnessAssumption
  <1> QED
    BY <1>1, <1>3, TimesMonotone, FreshnessAssumption

\* The tolerance is a number of minutes: what is less than the tolerance and a
\* minute after a whole minute is logged within the tolerance of it.
LEMMA TruncWithin ==
  ASSUME NEW b \in Nat, NEW t \in Nat, t < Trunc(b) + Gap + Minute
  PROVE  Trunc(t) <= Trunc(b) + Gap
  <1> DEFINE i == b \div Minute
             j == t \div Minute
             g == Gap \div Minute
  <1>1. /\ i \in Nat /\ j \in Nat
        /\ Trunc(b) = Minute * i /\ Trunc(t) = Minute * j
    BY Division, TruncBounds, FreshnessAssumption
  <1>6. g \in Nat /\ Gap = Minute * g
    <2>1. Gap \in Nat /\ Gap % Minute = 0
      BY FreshnessAssumption
    <2>2. g \in Nat /\ Gap = Minute * g + (Gap % Minute)
      BY <2>1, Division
    <2>3. Minute * g \in Nat
      BY <2>2, FreshnessAssumption, Z3
    <2> QED
      BY <2>1, <2>2, <2>3
  <1>7. Trunc(b) \in Nat /\ Trunc(t) \in Nat /\ Trunc(t) <= t
    BY TruncBounds
  <1> HIDE DEF i, j, g
  <1>2. Minute * (i + g) = Minute * i + Minute * g
    BY <1>1, <1>6, FreshnessAssumption, Z3
  <1>3. Minute * j < Minute * (i + g) + Minute
    <2>1. Trunc(t) < Trunc(b) + Gap + Minute
      BY <1>7, FreshnessAssumption
    <2> QED
      BY <1>1, <1>2, <1>6, <2>1
  <1>4. j <= i + g
    BY <1>1, <1>6, <1>3, TimesMonotone, FreshnessAssumption
  <1>5. Minute * j <= Minute * (i + g)
    BY <1>1, <1>6, <1>4, TimesMonotone, FreshnessAssumption
  <1> QED
    BY <1>1, <1>2, <1>5, <1>6

----------------------------------------------------------------------------
(* The least and the greatest of the calls *)

Least(S) == \E x \in S : \A y \in S : x <= y
Greatest(S) == \E x \in S : \A y \in S : y <= x

\* Calls come one after the other, so every set of them has a first and a last.
Ordered == \A S \in SUBSET calls : S # {} => Least(S) /\ Greatest(S)

LEMMA OrderedGrows ==
  ASSUME Ordered, calls \subseteq 0 .. now, now \in Nat
  PROVE  \A S \in SUBSET (calls \cup {now}) : S # {} => Least(S) /\ Greatest(S)
  <1> SUFFICES ASSUME NEW S \in SUBSET (calls \cup {now}), S # {}
               PROVE  Least(S) /\ Greatest(S)
    OBVIOUS
  <1> DEFINE T == S \ {now}
  <1>1. CASE T = {}
    <2>1. S = {now}
      BY <1>1
    <2> QED
      BY <2>1 DEF Least, Greatest
  <1>2. CASE T # {}
    <2>1. T \in SUBSET calls
      OBVIOUS
    <2>2. Least(T) /\ Greatest(T)
      BY <1>2, <2>1 DEF Ordered
    <2>3. Least(S)
      <3>1. PICK x \in T : \A y \in T : x <= y
        BY <2>2 DEF Least
      <3>2. x <= now
        BY <2>1
      <3> QED
        BY <3>1, <3>2 DEF Least
    <2>4. CASE now \in S
      <3>1. \A y \in S : y <= now
        OBVIOUS
      <3> QED
        BY <2>3, <2>4, <3>1 DEF Greatest
    <2>5. CASE now \notin S
      BY <2>2, <2>5
    <2> QED
      BY <2>4, <2>5
  <1> QED
    BY <1>1, <1>2

\* So have the minutes of a set of calls.
LEMMA RowsOrdered ==
  ASSUME Ordered, calls \subseteq Nat,
         NEW S \in SUBSET {Trunc(t) : t \in calls}, S # {}
  PROVE  Least(S) /\ Greatest(S)
  <1> DEFINE T == {t \in calls : Trunc(t) \in S}
  <1>1. T \in SUBSET calls /\ T # {}
    OBVIOUS
  <1>2. \A x \in S : \E t \in T : x = Trunc(t)
    OBVIOUS
  <1>3. PICK a \in T : \A t \in T : a <= t
    BY <1>1 DEF Ordered, Least
  <1>4. PICK b \in T : \A t \in T : t <= b
    BY <1>1 DEF Ordered, Greatest
  <1>5. \A t \in T : Trunc(a) <= Trunc(t)
    BY <1>1, <1>3, TruncMonotone
  <1>6. \A t \in T : Trunc(t) <= Trunc(b)
    BY <1>1, <1>4, TruncMonotone
  <1>7. Trunc(a) \in S /\ Trunc(b) \in S
    OBVIOUS
  <1> QED
    BY <1>2, <1>5, <1>6, <1>7 DEF Least, Greatest

\* Where the walk stops is a row from which the log is unbroken, and the first.
LEMMA RunStartIsLeast ==
  ASSUME Ordered, calls \subseteq Nat,
         NEW rows \in SUBSET {Trunc(t) : t \in calls}, rows # {}
  PROVE  /\ RunStart(rows) \in rows /\ Unbroken(rows, RunStart(rows))
         /\ \A q \in rows : Unbroken(rows, q) => RunStart(rows) <= q
  <1> DEFINE S == {q \in rows : Unbroken(rows, q)}
  <1>1. PICK r \in rows : \A y \in rows : y <= r
    BY RowsOrdered DEF Greatest
  <1>2. rows \subseteq Nat
    BY TruncBounds
  <1>3. r \in S
    BY <1>1, <1>2 DEF Unbroken
  <1>4. Least(S)
    <2>1. S \in SUBSET {Trunc(t) : t \in calls} /\ S # {}
      BY <1>3
    <2> HIDE DEF S
    <2> QED
      BY <2>1, RowsOrdered
  <1>5. \E m \in rows : Unbroken(rows, m) /\ \A q \in rows : Unbroken(rows, q) => m <= q
    BY <1>4 DEF Least
  <1> QED
    BY <1>5 DEF RunStart

----------------------------------------------------------------------------
(* The invariant *)

\* A completed update was posted, and not later.
Stamped == \A u \in Update : first[u] # None => ts[u] # None /\ ts[u] <= first[u]

\* The beat of tick d is in the log, or was there until it was pruned.
Logged(d) == Trunc(d) \in beats \/ Trunc(d) < now - Retention

\* Behind a call the throttle swallowed there is a logged one, less than the
\* interval before it.
Throttled ==
  /\ \A w \in Worker : last[w] # Never => Logged(last[w])
  /\ \A c \in calls : \E d \in calls : c - Interval < d /\ d <= c /\ Logged(d)

\* The same of the log the report read, for the calls of earlier ticks.
SeenOK ==
  stage # "none" =>
    /\ \A r \in seen : \E t \in calls : t <= seenAt /\ r = Trunc(t)
    /\ \A c \in calls : c < seenAt =>
         \E d \in calls : /\ c - Interval < d /\ d <= c
                          /\ Trunc(d) \in seen \/ Trunc(d) <= seenAt - Retention

\* What is scored was posted in the run; what was posted in the run and was
\* complete when the receipts were read is scored.
ScoredOK ==
  /\ stage # "done" => scored = {}
  /\ stage = "done" =>
       /\ \A u \in scored : seen # {} /\ ts[u] # None /\ ts[u] >= RunStart(seen)
       /\ \A u \in Update :
            /\ seen # {}
            /\ ts[u] # None /\ first[u] # None /\ first[u] < scoredAt
            /\ ts[u] >= RunStart(seen)
            => u \in scored

Inv == TypeOK /\ Ordered /\ Stamped /\ Throttled /\ SeenOK /\ ScoredOK

LEMMA InitInv == Init => Inv
  <1> SUFFICES ASSUME Init PROVE Inv
    OBVIOUS
  <1>1. TypeOK
    BY FreshnessAssumption DEF Init, TypeOK
  <1>2. Ordered /\ Stamped /\ Throttled /\ SeenOK /\ ScoredOK
    BY DEF Init, Ordered, Stamped, Throttled, SeenOK, ScoredOK
  <1> QED
    BY <1>1, <1>2 DEF Inv

\* Tick, and the steps that change neither the log nor the calls.
LEMMA TickInv == Inv /\ Tick => Inv'
  <1> SUFFICES ASSUME Inv, Tick PROVE Inv'
    OBVIOUS
  <1> USE DEF Inv, Tick, report, worker, db
  <1>0. now \in Nat /\ now' = now + 1 /\ now' \in 0 .. Horizon
    BY FreshnessAssumption DEF TypeOK
  <1>1. TypeOK'
    BY <1>0 DEF TypeOK
  <1>2. Ordered' /\ Stamped' /\ SeenOK' /\ ScoredOK'
    BY DEF Ordered, Stamped, SeenOK, ScoredOK
  <1>3. Throttled'
    <2>1. \A d \in calls : Logged(d) => Logged(d)'
      <3> TAKE d \in calls
      <3>1. Trunc(d) \in Nat
        BY TruncBounds DEF TypeOK
      <3> QED
        BY <1>0, <3>1, FreshnessAssumption DEF Logged, Trunc
    <2> QED
      BY <2>1 DEF Throttled, TypeOK
  <1> QED
    BY <1>1, <1>2, <1>3

LEMMA PostInv == ASSUME NEW u \in Update PROVE Inv /\ Post(u) => Inv'
  <1> SUFFICES ASSUME Inv, Post(u) PROVE Inv'
    OBVIOUS
  <1> USE DEF Inv, Post, report, worker, db
  <1>0. now \in Nat /\ Trunc(now) \in 0 .. now /\ Trunc(now) # None
    BY TruncBounds, FreshnessAssumption DEF TypeOK
  <1>1. TypeOK'
    BY <1>0 DEF TypeOK
  <1>2. Ordered' /\ Throttled' /\ SeenOK'
    BY DEF Ordered, Throttled, SeenOK, Logged
  <1>3. Stamped'
    BY DEF Stamped, TypeOK
  <1>4. ScoredOK'
    BY <1>3 DEF ScoredOK, TypeOK, Stamped
  <1> QED
    BY <1>1, <1>2, <1>3, <1>4

LEMMA CompleteInv ==
  ASSUME NEW w \in Worker, NEW u \in Update PROVE Inv /\ Complete(w, u) => Inv'
  <1> SUFFICES ASSUME Inv, Complete(w, u) PROVE Inv'
    OBVIOUS
  <1> USE DEF Inv, Complete, Goto, report
  <1>0. now \in Nat /\ now # None
    BY FreshnessAssumption DEF TypeOK
  <1>1. TypeOK'
    BY <1>0 DEF TypeOK
  <1>2. Ordered' /\ Throttled' /\ SeenOK'
    BY DEF Ordered, Throttled, SeenOK, Logged
  <1>3. Stamped'
    BY <1>0 DEF Stamped, TypeOK
  <1>4. ScoredOK'
    BY <1>0 DEF ScoredOK, TypeOK
  <1> QED
    BY <1>1, <1>2, <1>3, <1>4

LEMMA RestartInv == ASSUME NEW w \in Worker PROVE Inv /\ Restart(w) => Inv'
  <1> SUFFICES ASSUME Inv, Restart(w) PROVE Inv'
    OBVIOUS
  <1> USE DEF Inv, Restart, Goto, report, db
  <1>1. TypeOK'
    BY DEF TypeOK
  <1>2. Ordered' /\ Stamped' /\ SeenOK' /\ ScoredOK'
    BY DEF Ordered, Stamped, SeenOK, ScoredOK
  <1>3. Throttled'
    BY DEF Throttled, Logged, TypeOK
  <1> QED
    BY <1>1, <1>2, <1>3

\* A beat: a call of the tick, logged unless the same process logged one less
\* than the interval ago.
LEMMA BeatInv == ASSUME NEW w \in Worker PROVE Inv /\ BeatAfterOrIdle(w) => Inv'
  <1> SUFFICES ASSUME Inv, BeatAfterOrIdle(w) PROVE Inv'
    OBVIOUS
  <1> USE DEF Inv, BeatAfterOrIdle, Beat, Goto, report
  <1>0. /\ now \in Nat /\ calls' = calls \cup {now} /\ now \in calls'
        /\ calls \subseteq 0 .. now /\ Trunc(now)' = Trunc(now)
    BY FreshnessAssumption DEF TypeOK, Trunc
  <1>1. TypeOK'
    <2>1. beats' \subseteq beats \cup {Trunc(now)}
      OBVIOUS
    <2>2. beats' \subseteq {Trunc(t) : t \in calls'} /\ seen' \subseteq {Trunc(t) : t \in calls'}
      BY <1>0, <2>1 DEF TypeOK
    <2>3. calls' \subseteq 0 .. now' /\ last' \in [Worker -> calls' \cup {Never}]
      BY <1>0 DEF TypeOK
    <2> QED
      BY <2>2, <2>3 DEF TypeOK
  <1>2. Ordered'
    BY <1>0, OrderedGrows DEF Ordered
  <1>3. Stamped' /\ ScoredOK'
    BY DEF Stamped, ScoredOK
  <1>4. Throttled'
    <2> DEFINE Kept(d) == Trunc(d) \in beats' \/ Trunc(d) < now' - Retention
    <2>1. \A d : Logged(d) => Kept(d)
      BY DEF Logged
    <2>0. now' = now
      OBVIOUS
    <2>2. \E d \in calls' : now - Interval < d /\ d <= now /\ Kept(d)
      <3>1. CASE now - last[w] < Interval
        <4>1. last[w] # Never
          BY <1>0, <3>1, FreshnessAssumption DEF Never
        <4>2. last[w] \in calls /\ Logged(last[w])
          BY <4>1 DEF TypeOK, Throttled
        <4>0. last[w] \in 0 .. now /\ last[w] \in calls' /\ Interval \in Int
          <5>1. Interval \in Int
            BY FreshnessAssumption
          <5>2. last[w] \in calls
            BY <4>2
          <5>3. calls \subseteq calls' /\ calls \subseteq 0 .. now
            BY <1>0
          <5> QED
            BY <5>1, <5>2, <5>3
        <4>3. last[w] \in calls' /\ now - Interval < last[w] /\ last[w] <= now
          <5> DEFINE l == last[w]
          <5>1. l \in 0 .. now /\ now - l < Interval
            BY <3>1, <4>0
          <5> HIDE DEF l
          <5>2. now - Interval < l /\ l <= now
            BY <1>0, <4>0, <5>1
          <5> QED
            BY <4>0, <5>2 DEF l
        <4>4. Kept(last[w])
          BY <2>1, <4>2
        <4> HIDE DEF Kept
        <4> QED
          BY <4>3, <4>4
      <3>2. CASE ~ (now - last[w] < Interval)
        <4>1. Kept(now)
          BY <1>0, <3>2
        <4> QED
          BY <1>0, <4>1, FreshnessAssumption
      <3> QED
        BY <3>1, <3>2
    <2>3. \A c \in calls' : \E d \in calls' : c - Interval < d /\ d <= c /\ Kept(d)
      BY <1>0, <2>1, <2>2 DEF Throttled
    <2>4. \A v \in Worker : last'[v] # Never => Kept(last'[v])
      <3>0. ~ (now - last[w] < Interval) => Kept(now)
        BY <1>0
      <3> HIDE DEF Kept
      <3>1. CASE now - last[w] < Interval
        BY <2>1, <3>1 DEF Throttled
      <3>2. CASE ~ (now - last[w] < Interval)
        <4>1. Kept(now)
          BY <3>0, <3>2
        <4>2. \A v \in Worker : last'[v] = now \/ last'[v] = last[v]
          BY <3>2 DEF TypeOK
        <4> QED
          BY <2>1, <4>1, <4>2 DEF Throttled
      <3> QED
        BY <3>1, <3>2
    <2> QED
      BY <2>3, <2>4 DEF Throttled, Logged, Trunc
  <1>5. SeenOK'
    <2>1. seenAt \in 0 .. now
      BY DEF TypeOK
    <2>2. \A c \in calls' : c < seenAt => c \in calls
      BY <1>0, <2>1
    <2> QED
      BY <1>0, <2>2 DEF SeenOK
  <1> QED
    BY <1>1, <1>2, <1>3, <1>4, <1>5

LEMMA PruneInv == Inv /\ Prune => Inv'
  <1> SUFFICES ASSUME Inv, Prune PROVE Inv'
    OBVIOUS
  <1> USE DEF Inv, Prune, report, worker
  <1>1. TypeOK'
    BY DEF TypeOK
  <1>2. Ordered' /\ Stamped' /\ SeenOK' /\ ScoredOK'
    BY DEF Ordered, Stamped, SeenOK, ScoredOK
  <1>3. Throttled'
    <2>1. \A d \in calls : Logged(d) => Logged(d)'
      <3> TAKE d \in calls
      <3>1. Trunc(d) \in Nat /\ now \in Nat
        BY TruncBounds, FreshnessAssumption DEF TypeOK
      <3> QED
        BY <3>1, FreshnessAssumption DEF Logged, Trunc
    <2> QED
      BY <2>1 DEF Throttled, TypeOK
  <1> QED
    BY <1>1, <1>2, <1>3

LEMMA ReadLogInv == Inv /\ ReadLog => Inv'
  <1> SUFFICES ASSUME Inv, ReadLog PROVE Inv'
    OBVIOUS
  <1> USE DEF Inv, ReadLog, worker, db
  <1>0. now \in Nat /\ calls \subseteq 0 .. now
    BY FreshnessAssumption DEF TypeOK
  <1>1. TypeOK'
    BY <1>0 DEF TypeOK
  <1>2. Ordered' /\ Stamped' /\ ScoredOK'
    BY DEF Ordered, Stamped, ScoredOK
  <1>3. Throttled'
    BY DEF Throttled, Logged
  <1>4. SeenOK'
    <2>1. \A r \in seen' : \E t \in calls : t <= now /\ r = Trunc(t)
      BY <1>0 DEF TypeOK
    <2>2. \A d \in calls : Logged(d) => Trunc(d) \in seen' \/ Trunc(d) <= now - Retention
      <3> TAKE d \in calls
      <3>1. Trunc(d) \in Nat
        BY <1>0, TruncBounds
      <3> QED
        BY <1>0, <3>1, FreshnessAssumption DEF Logged
    <2>3. \A c \in calls : \E d \in calls :
            /\ c - Interval < d /\ d <= c
            /\ Trunc(d) \in seen' \/ Trunc(d) <= now - Retention
      BY <2>2 DEF Throttled
    <2> QED
      BY <2>1, <2>3 DEF SeenOK, Trunc
  <1> QED
    BY <1>1, <1>2, <1>3, <1>4

LEMMA ReadReceiptsInv == Inv /\ ReadReceipts => Inv'
  <1> SUFFICES ASSUME Inv, ReadReceipts PROVE Inv'
    OBVIOUS
  <1> USE DEF Inv, ReadReceipts, worker, db
  <1>0. now \in Nat
    BY FreshnessAssumption DEF TypeOK
  <1>1. TypeOK'
    BY <1>0 DEF TypeOK, InRun
  <1>2. Ordered' /\ Stamped' /\ Throttled' /\ SeenOK'
    BY DEF Ordered, Stamped, Throttled, SeenOK, Logged
  <1>3. ScoredOK'
    <2>1. RunStart(seen)' = RunStart(seen)
      BY DEF RunStart, Unbroken
    <2>2. \A u \in scored' : seen # {} /\ ts[u] # None /\ ts[u] >= RunStart(seen)
      BY DEF InRun
    <2>3. ASSUME NEW u \in Update, seen # {}, ts[u] # None, first[u] # None,
                 ts[u] >= RunStart(seen)
          PROVE  u \in scored'
      <3>1. RunStart(seen) \in Nat
        <4>1. RunStart(seen) \in seen
          BY <2>3, RunStartIsLeast DEF TypeOK
        <4> QED
          BY <4>1, TruncBounds DEF TypeOK
      <3>2. ts[u] <= first[u] /\ ts[u] \in Nat /\ first[u] \in Nat
        BY <1>0, <2>3 DEF Stamped, TypeOK
      <3>3. first[u] >= RunStart(seen)
        BY <2>3, <3>1, <3>2
      <3> QED
        BY <2>3, <3>3 DEF InRun
    <2> QED
      BY <2>1, <2>2, <2>3 DEF ScoredOK
  <1> QED
    BY <1>1, <1>2, <1>3

LEMMA FinishInv == Inv /\ Finish => Inv'
  <1> SUFFICES ASSUME Inv, Finish PROVE Inv'
    OBVIOUS
  <1> USE DEF Inv, Finish, worker, db
  <1>1. TypeOK'
    BY FreshnessAssumption DEF TypeOK
  <1>2. Ordered' /\ Stamped' /\ Throttled' /\ SeenOK' /\ ScoredOK'
    BY DEF Ordered, Stamped, Throttled, SeenOK, Logged, ScoredOK
  <1> QED
    BY <1>1, <1>2

LEMMA NextInv == Inv /\ [Next]_vars => Inv'
  <1> SUFFICES ASSUME Inv, [Next]_vars PROVE Inv'
    OBVIOUS
  <1>1. CASE UNCHANGED vars
    BY <1>1 DEF vars, report, worker, db, Inv, TypeOK, Ordered, Stamped, Throttled, SeenOK,
                ScoredOK, Logged
  <1>2. CASE Next
    BY <1>2, TickInv, PruneInv, ReadLogInv, ReadReceiptsInv, FinishInv, PostInv, CompleteInv,
       BeatInv, RestartInv DEF Next, Embedder
  <1> QED
    BY <1>1, <1>2

LEMMA Invariance == Spec => []Inv
  <1> QED
    BY InitInv, NextInv, PTL DEF Spec

\* Type correctness, for any tolerance that is a number of minutes and any
\* interval up to it.
THEOREM TypeCorrect == Spec => []TypeOK
  <1>1. Inv => TypeOK
    BY DEF Inv
  <1> QED
    BY <1>1, Invariance, PTL

----------------------------------------------------------------------------
(* The walk stops at an outage *)

LEMMA InvNumbers ==
  Inv => /\ now \in Nat /\ seenAt \in Nat /\ calls \subseteq Nat
         /\ seen \subseteq {Trunc(t) : t \in calls} /\ seen \subseteq Nat
  <1>1. Inv => /\ now \in Nat /\ seenAt \in Nat /\ calls \subseteq Nat
               /\ seen \subseteq {Trunc(t) : t \in calls}
    BY FreshnessAssumption DEF Inv, TypeOK
  <1> QED
    BY <1>1, TruncBounds

LEMMA RunStartsAfterOutage ==
  ASSUME Inv, NEW x \in calls, NEW y \in calls, Outage(x, y), Trunc(y) \in seen
  PROVE  RunStart(seen) >= Trunc(y)
  <1> DEFINE r == RunStart(seen)
             before == {q \in seen : q < Trunc(y)}
  <1>1. /\ calls \subseteq Nat /\ seen \subseteq Nat /\ Ordered
        /\ seen \in SUBSET {Trunc(t) : t \in calls}
    BY InvNumbers DEF Inv
  <1>2. r \in seen /\ Unbroken(seen, r)
    BY <1>1, RunStartIsLeast
  <1>3. r \in Nat /\ Trunc(y) \in Nat
    BY <1>1, <1>2
  <1> SUFFICES ASSUME r < Trunc(y) PROVE FALSE
    BY <1>3
  <1> HIDE DEF r
  <1>4. PICK g \in before : \A q \in before : q <= g
    <2>1. before \in SUBSET {Trunc(t) : t \in calls} /\ before # {}
      BY <1>1, <1>2
    <2> HIDE DEF before
    <2> QED
      BY <1>1, <2>1, RowsOrdered DEF Greatest
  <1>5. g \in Nat /\ g \in seen /\ g < Trunc(y) /\ r <= g
    BY <1>1, <1>2, <1>4
  <1>6. g <= x
    <2>1. PICK t \in calls : g = Trunc(t)
      BY <1>1, <1>5
    <2>2. t \in Nat /\ x \in Nat /\ y \in Nat /\ Trunc(t) \in Nat /\ Trunc(t) <= t
      BY <1>1, TruncBounds
    <2>3. ~ (t >= y)
      <3>1. t >= y => Trunc(y) <= Trunc(t)
        BY <2>2, TruncMonotone
      <3> QED
        BY <1>3, <1>5, <2>1, <3>1
    <2>4. t <= x
      BY <2>3 DEF Outage
    <2> QED
      BY <2>1, <2>2, <2>4
  <1>7. PICK z \in seen : g < z /\ z <= g + Gap
    BY <1>2, <1>5 DEF Unbroken
  <1>8. z \in Nat /\ ~ (z < Trunc(y))
    BY <1>1, <1>4, <1>5, <1>7
  <1>9. /\ x \in Nat /\ y \in Nat /\ y < Trunc(y) + Minute /\ y - x >= Gap + Minute
        /\ Gap \in Nat /\ Minute \in Nat
    BY <1>1, TruncBounds, FreshnessAssumption DEF Outage
  <1> QED
    BY <1>3, <1>5, <1>6, <1>7, <1>8, <1>9

LEMMA CatchUpInv == Inv => CatchUpIsExcluded
  <1> SUFFICES ASSUME Inv, NEW u \in scored, NEW x \in calls, NEW y \in calls,
                      Outage(x, y), Trunc(y) \in seen
               PROVE  ts[u] >= Trunc(y)
    BY DEF CatchUpIsExcluded
  <1>1. ts[u] # None /\ ts[u] >= RunStart(seen)
    BY DEF Inv, ScoredOK
  <1>2. RunStart(seen) >= Trunc(y)
    BY RunStartsAfterOutage
  <1>3. ts[u] \in Nat
    BY <1>1, InvNumbers DEF Inv, TypeOK
  <1>4. RunStart(seen) \in Nat /\ Trunc(y) \in Nat
    BY InvNumbers, RunStartIsLeast DEF Inv
  <1> QED
    BY <1>1, <1>2, <1>3, <1>4

\* No update that was posted before the end of an outage the report could see
\* is scored: the walk over minutes misses no pause of the tolerance and a
\* minute, however the updates and the beats fall into minutes.
THEOREM NoCatchUpIsScored == Spec => []CatchUpIsExcluded
  BY Invariance, CatchUpInv, PTL

----------------------------------------------------------------------------
(* The walk does not stop before *)

\* In the log of a steady run every row from the one behind call s on is
\* followed within the tolerance.
LEMMA SteadyRunIsUnbroken ==
  ASSUME Inv, stage # "none", NEW s \in calls, SteadySince(s),
         NEW e \in calls, s - Interval < e, e <= s,
         Trunc(e) \in seen, Trunc(e) > seenAt - Retention
  PROVE  Unbroken(seen, Trunc(e))
  <1> SUFFICES ASSUME NEW x \in seen, Trunc(e) <= x, NEW z \in seen, z > x
               PROVE  \E y \in seen : x < y /\ y <= x + Gap
    BY DEF Unbroken
  <1>1. /\ calls \subseteq Nat /\ seen \subseteq Nat /\ Ordered /\ seenAt \in Nat
        /\ s \in Nat /\ e \in Nat /\ x \in Nat /\ z \in Nat
        /\ Gap \in Nat /\ Minute \in Nat /\ Retention \in Nat
        /\ Interval \in 1 .. Gap
    BY InvNumbers, FreshnessAssumption DEF Inv
  \* c is the call that logged z, b the last one of minute x or before.
  <1>2. PICK c \in calls : c <= seenAt /\ z = Trunc(c)
    BY DEF Inv, SeenOK
  <1>3. PICK b \in calls : Trunc(b) <= x /\ \A t \in calls : Trunc(t) <= x => t <= b
    <2> DEFINE S == {t \in calls : Trunc(t) <= x}
    <2>1. S \in SUBSET calls /\ S # {}
      OBVIOUS
    <2> HIDE DEF S
    <2>2. PICK b \in S : \A t \in S : t <= b
      BY <1>1, <2>1 DEF Ordered, Greatest
    <2> QED
      BY <2>2 DEF S
  <1>4. x = Trunc(b)
    <2>1. PICK t \in calls : t <= seenAt /\ x = Trunc(t)
      BY DEF Inv, SeenOK
    <2>2. t <= b /\ t \in Nat /\ b \in Nat
      BY <1>1, <1>3, <2>1
    <2>3. Trunc(t) <= Trunc(b)
      BY <2>2, TruncMonotone
    <2> QED
      BY <1>1, <1>3, <2>1, <2>2, <2>3, TruncBounds
  <1>5. c \in Nat /\ b \in Nat /\ e <= b /\ b < c
    <2>1. c \in Nat /\ b \in Nat /\ e <= b
      BY <1>1, <1>3
    <2>2. c <= b => Trunc(c) <= Trunc(b)
      BY <2>1, TruncMonotone
    <2> QED
      BY <1>1, <1>2, <1>4, <2>1, <2>2
  <1>6. \A t \in Nat : t <= b + Gap => Trunc(t) <= x + Gap
    <2> TAKE t \in Nat
    <2>1. b < Trunc(b) + Minute
      BY <1>5, TruncBounds
    <2>2. Trunc(b) \in Nat
      BY <1>5, TruncBounds
    <2>3. t <= b + Gap => t < Trunc(b) + Gap + Minute
      BY <1>1, <1>5, <2>1, <2>2
    <2> QED
      BY <1>4, <1>5, <2>3, TruncWithin
  <1>7. CASE c <= b + Gap
    <2>1. z <= x + Gap
      BY <1>2, <1>5, <1>6, <1>7
    <2> QED
      BY <2>1
  <1>8. CASE c > b + Gap
    \* p is the last call the logged beat b may have throttled, a the next one.
    <2>1. PICK p \in calls : p < b + Interval /\ \A t \in calls : t < b + Interval => t <= p
      <3> DEFINE S == {t \in calls : t < b + Interval}
      <3>1. b \in S
        BY <1>1, <1>5
      <3>2. S \in SUBSET calls /\ S # {}
        BY <3>1
      <3> HIDE DEF S
      <3>3. PICK p \in S : \A t \in S : t <= p
        BY <1>1, <3>2 DEF Ordered, Greatest
      <3> QED
        BY <3>3 DEF S
    <2>2. p \in Nat /\ s <= p /\ p < c
      BY <1>1, <1>5, <1>8, <2>1
    <2>3. PICK a \in calls : p < a /\ a <= p + Pause
      BY <1>2, <2>2 DEF SteadySince
    <2>4. a \in Nat /\ a >= b + Interval /\ a <= b + Gap
      <3>1. a \in Nat
        BY <1>1
      <3>2. ~ (a < b + Interval)
        BY <1>1, <2>1, <2>2, <2>3, <3>1
      <3> QED
        BY <1>1, <1>5, <2>1, <2>2, <2>3, <3>1, <3>2 DEF Pause
    <2>5. a < seenAt
      BY <1>1, <1>2, <1>5, <1>8, <2>4
    <2>6. PICK d \in calls : /\ a - Interval < d /\ d <= a
                             /\ Trunc(d) \in seen \/ Trunc(d) <= seenAt - Retention
      BY <2>5 DEF Inv, SeenOK
    <2>7. d \in Nat /\ Trunc(d) \in Nat /\ d > b /\ d <= b + Gap
      <3>1. d \in Nat
        BY <1>1
      <3>2. Trunc(d) \in Nat
        BY <3>1, TruncBounds
      <3>3. d > b /\ d <= b + Gap
        BY <1>1, <1>5, <2>4, <2>6, <3>1
      <3> QED
        BY <3>1, <3>2, <3>3
    <2>8. Trunc(d) > x
      BY <1>1, <1>3, <1>5, <2>7
    <2>9. Trunc(d) \in seen
      <3>1. Trunc(e) \in Nat
        BY <1>1, TruncBounds
      <3> QED
        BY <1>1, <2>6, <2>7, <2>8, <3>1
    <2> QED
      BY <1>6, <2>7, <2>8, <2>9
  <1> QED
    BY <1>1, <1>5, <1>7, <1>8

LEMMA LiveInv == Inv => LiveArrivalsAreScored
  <1> SUFFICES ASSUME Inv, stage = "done", NEW u \in Update, NEW s \in calls,
                      SteadySince(s), Retained(s),
                      ts[u] # None, ts[u] >= Trunc(s), first[u] # None, first[u] < scoredAt
               PROVE  u \in scored
    BY DEF LiveArrivalsAreScored
  <1>1. /\ calls \subseteq Nat /\ seen \subseteq Nat /\ Ordered /\ seenAt \in Nat /\ s \in Nat
        /\ seen \in SUBSET {Trunc(t) : t \in calls}
        /\ Minute \in Nat /\ Retention \in Nat /\ Interval \in Nat
    BY InvNumbers, FreshnessAssumption DEF Inv
  <1>2. s < seenAt
    BY DEF SteadySince
  <1>3. PICK e \in calls : /\ s - Interval < e /\ e <= s
                           /\ Trunc(e) \in seen \/ Trunc(e) <= seenAt - Retention
    BY <1>2 DEF Inv, SeenOK
  <1>4. e \in Nat /\ Trunc(e) \in Nat /\ e < Trunc(e) + Minute
    BY <1>1, TruncBounds
  <1>5. Trunc(e) > seenAt - Retention
    <2>1. s - Interval - Minute >= seenAt - Retention
      BY DEF Retained
    <2>2. s - Interval < e
      BY <1>3
    <2> QED
      BY <1>1, <1>4, <2>1, <2>2
  <1>6. Trunc(e) \in seen
    BY <1>1, <1>3, <1>4, <1>5
  <1>7. Unbroken(seen, Trunc(e))
    <2>1. stage # "none" /\ SteadySince(s) /\ s - Interval < e /\ e <= s
      BY <1>3
    <2> QED
      BY <1>5, <1>6, <2>1, SteadyRunIsUnbroken
  <1>8. RunStart(seen) <= Trunc(e) /\ RunStart(seen) \in Nat
    BY <1>1, <1>6, <1>7, RunStartIsLeast
  <1>9. Trunc(e) <= Trunc(s) /\ Trunc(s) \in Nat
    <2>1. e <= s
      BY <1>3
    <2> QED
      BY <1>1, <1>4, <2>1, TruncMonotone, TruncBounds
  <1>10. ts[u] \in Nat
    BY InvNumbers DEF Inv, TypeOK
  <1>11. ts[u] >= RunStart(seen)
    BY <1>4, <1>8, <1>9, <1>10
  <1> QED
    BY <1>6, <1>11 DEF Inv, ScoredOK

\* Neither the throttle, nor a restart that forgets it, nor the truncation of
\* beats to their minute, nor the pruning of old ones splits a run in which the
\* embedders never paused for longer than the tolerance less the interval.
THEOREM NoLiveArrivalIsLost == Spec => []LiveArrivalsAreScored
  BY Invariance, LiveInv, PTL

----------------------------------------------------------------------------
(***************************************************************************)
(* The batch arm.  Whenever an update was posted, the phases of the batch  *)
(* boundary give it every staleness from one tick to the interval exactly  *)
(* once; so the sweep adds up to the same for every update.                *)
(***************************************************************************)

\* A quotient and a remainder that fit are those of the division.
LEMMA DivisionIsUnique ==
  ASSUME NEW m \in Nat \ {0}, NEW n \in Int, NEW q \in Int, NEW s \in 0 .. m - 1, n = m * q + s
  PROVE  n % m = s
  <1> DEFINE d == n \div m
             r == n % m
  <1>1. d \in Int /\ r \in 0 .. m - 1 /\ n = m * d + r
    BY Z3
  <1> HIDE DEF d, r
  <1>2. m * d \in Int /\ m * q \in Int
    BY <1>1, Z3
  <1>3. m * q < m * d + m /\ m * d < m * q + m
    BY <1>1, <1>2
  <1>4. q <= d /\ d <= q
    BY <1>1, <1>3, TimesMonotone
  <1>5. m * d = m * q
    BY <1>1, <1>4
  <1>6. r = s
    BY <1>1, <1>2, <1>5
  <1> QED
    BY <1>6 DEF r

LEMMA BatchStalenessIs ==
  ASSUME NEW p \in Nat, NEW k \in 0 .. Batch - 1
  PROVE  /\ p % Batch \in 0 .. Batch - 1
         /\ BatchStaleness(p, k) =
              IF k <= p % Batch THEN Batch - (p % Batch) + k ELSE k - (p % Batch)
  <1> DEFINE q == p \div Batch
             r == p % Batch
  <1>1. Batch \in Nat \ {0}
    BY FreshnessAssumption
  <1>2. q \in Int /\ r \in 0 .. Batch - 1 /\ p = Batch * q + r
    BY <1>1, Z3
  <1> HIDE DEF q, r
  <1>3. Batch * q \in Int /\ q - 1 \in Int /\ Batch * (q - 1) = Batch * q - Batch
    BY <1>1, <1>2, Z3
  <1>4. CASE k <= r
    <2>1. p - k = Batch * q + (r - k) /\ r - k \in 0 .. Batch - 1 /\ p - k \in Int
      BY <1>1, <1>2, <1>3, <1>4
    <2>2. (p - k) % Batch = r - k
      BY <1>1, <1>2, <2>1, DivisionIsUnique
    <2>3. BatchStaleness(p, k) = Batch - r + k
      BY <1>1, <1>2, <2>2 DEF BatchStaleness
    <2> QED
      BY <1>2, <1>4, <2>3 DEF r
  <1>5. CASE ~(k <= r)
    <2>1. /\ p - k = Batch * (q - 1) + (Batch + r - k) /\ Batch + r - k \in 0 .. Batch - 1
          /\ p - k \in Int
      BY <1>1, <1>2, <1>3, <1>5
    <2>2. (p - k) % Batch = Batch + r - k
      BY <1>1, <1>2, <1>3, <2>1, DivisionIsUnique
    <2>3. BatchStaleness(p, k) = k - r
      BY <1>1, <1>2, <2>2 DEF BatchStaleness
    <2> QED
      BY <1>2, <1>5, <2>3 DEF r
  <1> QED
    BY <1>4, <1>5

Phases == 0 .. Batch - 1
StalenessOf(p) == [k \in Phases |-> BatchStaleness(p, k)]

LEMMA PhasesAreFinite == IsFiniteSet(Phases)
  <1>1. 0 \in Int /\ Batch - 1 \in Int
    BY FreshnessAssumption
  <1> QED
    BY <1>1, FS_Interval DEF Phases

\* The phases are the stalenesses, in another order.
LEMMA StalenessIsBijective ==
  ASSUME NEW p \in Nat
  PROVE  StalenessOf(p) \in Bijection(Phases, 1 .. Batch)
  <1> DEFINE r == p % Batch
             b == StalenessOf(p)
             back(j) == IF j >= Batch - r THEN j - (Batch - r) ELSE j + r
  <1>1. Batch \in Nat \ {0} /\ 0 \in Phases
    BY FreshnessAssumption DEF Phases
  <1>2. r \in 0 .. Batch - 1
    BY <1>1, BatchStalenessIs DEF Phases
  <1>3. \A k \in Phases : b[k] = IF k <= r THEN Batch - r + k ELSE k - r
    BY BatchStalenessIs DEF StalenessOf, Phases
  <1> HIDE DEF r, b
  <1>4. \A k \in Phases : b[k] \in 1 .. Batch /\ back(b[k]) = k
    BY <1>1, <1>2, <1>3 DEF Phases
  <1>5. \A j \in 1 .. Batch : back(j) \in Phases /\ b[back(j)] = j
    BY <1>1, <1>2, <1>3 DEF Phases
  <1> HIDE DEF back
  <1>6. b \in [Phases -> 1 .. Batch]
    BY <1>4 DEF b, StalenessOf
  <1>7. \A k, l \in Phases : b[k] = b[l] => k = l
    BY <1>4
  <1>8. b \in Bijection(Phases, 1 .. Batch)
    BY <1>5, <1>6, <1>7 DEF Bijection, Injection, Surjection, IsInjective
  <1> QED
    BY <1>8 DEF b

\* The triangular numbers.
Count == [k \in Nat |-> k]
LEMMA SumOfCount ==
  ASSUME NEW n \in Nat
  PROVE  2 * SumFunctionOnSet(Count, 1 .. n) = n * (n + 1)
  <1> DEFINE Sum(m) == SumFunctionOnSet(Count, 1 .. m)
             T == {m \in Nat : 2 * Sum(m) = m * (m + 1)}
  <1>1. 0 \in T
    <2>1. 1 .. 0 = {}
      OBVIOUS
    <2> QED
      BY <2>1, SumOfNone
  <1>2. ASSUME NEW m \in T PROVE m + 1 \in T
    <2>1. IsFiniteSet(1 .. m + 1) /\ \A k \in 1 .. m + 1 : Count[k] \in Int
      BY FS_Interval DEF Count
    <2>2. m + 1 \in 1 .. m + 1 /\ (1 .. m + 1) \ {m + 1} = 1 .. m /\ Count[m + 1] = m + 1
      BY DEF Count
    <2>3. Sum(m + 1) = (m + 1) + Sum(m) /\ Sum(m) \in Int
      BY <2>1, <2>2, SumTakesOut
    <2>4. 2 * Sum(m) = m * (m + 1) /\ m \in Nat
      OBVIOUS
    <2> HIDE DEF Sum
    <2>5. 2 * Sum(m + 1) = 2 * (m + 1) + m * (m + 1)
      <3>1. 2 * Sum(m + 1) = 2 * (m + 1) + 2 * Sum(m)
        BY <2>3, <2>4
      <3> QED
        BY <2>4, <3>1
    <2>6. 2 * (m + 1) + m * (m + 1) = (m + 1) * ((m + 1) + 1)
      BY <2>4, Z3
    <2> QED
      BY <2>4, <2>5, <2>6
  <1>3. T \in SUBSET Nat
    OBVIOUS
  <1> HIDE DEF T
  <1>4. n \in T
    BY <1>1, <1>2, <1>3, InductiveSet
  <1> QED
    BY <1>4 DEF T

LEMMA SweepOfOne ==
  ASSUME NEW p \in Nat
  PROVE  /\ SumFunctionOnSet(StalenessOf(p), Phases) \in Int
         /\ 2 * SumFunctionOnSet(StalenessOf(p), Phases) = Batch * (Batch + 1)
  <1> DEFINE b == StalenessOf(p)
  <1>1. b \in Bijection(Phases, 1 .. Batch)
    BY StalenessIsBijective
  <1>2. \A k \in Phases : b[k] \in 1 .. Batch
    BY <1>1 DEF Bijection, Injection
  <1> HIDE DEF b
  <1>3. \A k \in Phases : b[k] = Count[b[k]] /\ b[k] \in Int
    BY <1>2 DEF Count
  <1>4. SumFunctionOnSet(b, Phases) = SumFunctionOnSet(Count, 1 .. Batch)
    BY <1>1, <1>3, PhasesAreFinite, SumReindexed
  <1>5. SumFunctionOnSet(b, Phases) \in Int
    BY <1>3, PhasesAreFinite, SumIsInt
  <1> QED
    BY <1>4, <1>5, SumOfCount, FreshnessAssumption DEF b

\* One update more adds its own stalenesses to the sweep.
LEMMA SweepAdds ==
  ASSUME NEW S, IsFiniteSet(S), \A u \in S : ts[u] \in Nat, NEW x \in S
  PROVE  \A k \in Phases : /\ Sweep(S)[k] = StalenessOf(ts[x])[k] + Sweep(S \ {x})[k]
                           /\ StalenessOf(ts[x])[k] \in Int /\ Sweep(S \ {x})[k] \in Int
  <1> SUFFICES ASSUME NEW k \in Phases
               PROVE  /\ Sweep(S)[k] = StalenessOf(ts[x])[k] + Sweep(S \ {x})[k]
                      /\ StalenessOf(ts[x])[k] \in Int /\ Sweep(S \ {x})[k] \in Int
    OBVIOUS
  <1> DEFINE f == [u \in S |-> BatchStaleness(ts[u], k)]
             g == [u \in S \ {x} |-> BatchStaleness(ts[u], k)]
  <1>1. \A u \in S : BatchStaleness(ts[u], k) \in Int
    <2> TAKE u \in S
    <2>1. StalenessOf(ts[u]) \in Bijection(Phases, 1 .. Batch)
      BY StalenessIsBijective
    <2>2. StalenessOf(ts[u])[k] \in 1 .. Batch
      BY <2>1 DEF Bijection, Injection
    <2> QED
      BY <2>2 DEF StalenessOf
  <1>2. /\ SumFunctionOnSet(f, S \ {x}) \in Int
        /\ SumFunctionOnSet(f, S) = f[x] + SumFunctionOnSet(f, S \ {x})
    BY <1>1, SumTakesOut
  <1>3. SumFunctionOnSet(g, S \ {x}) = SumFunctionOnSet(f, S \ {x})
    BY <1>1, FS_RemoveElement, SumOfSame
  <1>4. Sweep(S)[k] = SumFunctionOnSet(f, S) /\ Sweep(S \ {x})[k] = SumFunctionOnSet(g, S \ {x})
    BY DEF Sweep, SumFunction, Phases
  <1>5. StalenessOf(ts[x])[k] = f[x] /\ f[x] \in Int
    BY <1>1 DEF StalenessOf
  <1> QED
    BY <1>2, <1>3, <1>4, <1>5

LEMMA SweepAddsUp ==
  ASSUME NEW S, IsFiniteSet(S), \A u \in S : ts[u] \in Nat
  PROVE  2 * SumFunction(Sweep(S)) = Cardinality(S) * Batch * (Batch + 1)
  <1> DEFINE Sum(R) == SumFunctionOnSet(Sweep(R), Phases)
             G == {R \in SUBSET S : Sum(R) \in Int /\ 2 * Sum(R) = Cardinality(R) * Batch * (Batch + 1)}
  <1>1. \A R : DOMAIN Sweep(R) = Phases
    BY DEF Sweep, Phases
  <1>2. {} \in G
    <2>1. \A k \in Phases : Sweep({})[k] = 0
      <3>1. \A k \in Phases : Sweep({})[k] = SumFunctionOnSet([u \in {} |-> BatchStaleness(ts[u], k)], {})
        BY DEF Sweep, SumFunction, Phases
      <3> QED
        BY <3>1, SumOfNone
    <2>2. Sum({}) = Sum({}) + Sum({}) /\ Sum({}) \in Int
      <3>1. \A k \in Phases : Sweep({})[k] \in Int /\ Sweep({})[k] = Sweep({})[k] + Sweep({})[k]
        BY <2>1
      <3> QED
        BY <3>1, PhasesAreFinite, SumIsInt, SumTermByTerm
    <2> HIDE DEF Sum
    <2>3. Sum({}) = 0
      <3>1. \A z \in Int : z = z + z => z = 0
        OBVIOUS
      <3> QED
        BY <2>2, <3>1
    <2>4. Cardinality({}) * Batch * (Batch + 1) = 0
      BY FS_EmptySet, FreshnessAssumption, Z3
    <2> QED
      BY <2>3, <2>4
  <1>3. ASSUME NEW R \in SUBSET S, NEW x \in R, R \ {x} \in G PROVE R \in G
    <2> DEFINE one == SumFunctionOnSet(StalenessOf(ts[x]), Phases)
    <2>1. IsFiniteSet(R) /\ (\A u \in R : ts[u] \in Nat)
      BY FS_Subset
    <2>2. Sum(R) = one + Sum(R \ {x})
      BY <2>1, SweepAdds, PhasesAreFinite, SumTermByTerm
    <2>3. one \in Int /\ 2 * one = Batch * (Batch + 1)
      BY <2>1, SweepOfOne
    <2>4. Cardinality(R) = Cardinality(R \ {x}) + 1 /\ Cardinality(R \ {x}) \in Nat
      <3>1. IsFiniteSet(R \ {x}) /\ Cardinality(R \ {x}) = Cardinality(R) - 1
        BY <2>1, FS_RemoveElement
      <3>2. Cardinality(R) \in Nat /\ Cardinality(R \ {x}) \in Nat
        BY <2>1, <3>1, FS_CardinalityType
      <3> QED
        BY <3>1, <3>2
    <2>5. Sum(R \ {x}) \in Int
          /\ 2 * Sum(R \ {x}) = Cardinality(R \ {x}) * Batch * (Batch + 1)
      BY <1>3
    <2> HIDE DEF Sum, one
    <2>6. \A c \in Nat : c * Batch * (Batch + 1) + Batch * (Batch + 1) = (c + 1) * Batch * (Batch + 1)
      BY FreshnessAssumption, Z3
    <2>7. Sum(R) \in Int /\ 2 * Sum(R) = 2 * Sum(R \ {x}) + 2 * one
      BY <2>2, <2>3, <2>5
    <2>8. 2 * Sum(R) = Cardinality(R) * Batch * (Batch + 1)
      BY <2>3, <2>4, <2>5, <2>6, <2>7
    <2> QED
      BY <2>7, <2>8
  <1>4. G \in SUBSET SUBSET S
    OBVIOUS
  <1> HIDE DEF G
  <1>5. S \in G
    BY <1>2, <1>3, <1>4, FiniteInduction
  <1> QED
    BY <1>1, <1>5 DEF G, SumFunction

\* The provider posts one update after the other.
Posted == {u \in Update : ts[u] # None}
PostedIsFinite == IsFiniteSet(Posted)

LEMMA PostedNext == PostedIsFinite /\ Inv /\ [Next]_vars => PostedIsFinite'
  <1> SUFFICES ASSUME PostedIsFinite, Inv, [Next]_vars PROVE PostedIsFinite'
    OBVIOUS
  <1>1. CASE \E u \in Update : Post(u)
    <2>1. PICK u \in Update : ts' = [ts EXCEPT ![u] = Trunc(now)]
      BY <1>1 DEF Post
    <2>2. Posted' \subseteq Posted \cup {u}
      BY <2>1 DEF Posted, Inv, TypeOK
    <2> QED
      BY <2>2, FS_AddElement, FS_Subset DEF PostedIsFinite
  <1>2. CASE UNCHANGED ts
    <2>1. Posted' = Posted
      BY <1>2 DEF Posted
    <2> QED
      BY <2>1 DEF PostedIsFinite
  <1> QED
    BY <1>1, <1>2 DEF Next, Tick, Prune, ReadLog, ReadReceipts, Finish, Embedder, Complete,
       BeatAfterOrIdle, Restart, vars

\* "Arrivals clustered at one phase inflate that phase's mean without moving
\* this distribution's own mean": whatever updates are scored, the batch arm
\* sums to half the interval and a tick for each of them and every phase.
THEOREM BatchArmDoesNotMove == Spec => []BatchArmIsNeutral
  <1>1. Init => PostedIsFinite
    <2>1. Init => Posted = {}
      BY DEF Init, Posted
    <2> QED
      BY <2>1, FS_EmptySet DEF PostedIsFinite
  <1>2. Inv /\ PostedIsFinite => BatchArmIsNeutral
    <2> SUFFICES ASSUME Inv, PostedIsFinite, stage = "done"
                 PROVE  2 * SumFunction(Sweep(scored)) = Cardinality(scored) * Batch * (Batch + 1)
      BY DEF BatchArmIsNeutral
    <2>1. scored \subseteq Posted
      BY DEF Inv, ScoredOK, TypeOK, Posted
    <2>2. IsFiniteSet(scored)
      BY <2>1, FS_Subset DEF PostedIsFinite
    <2>3. \A u \in scored : ts[u] \in Nat
      BY InvNumbers DEF Inv, TypeOK, ScoredOK
    <2> QED
      BY <2>2, <2>3, SweepAddsUp
  <1> QED
    BY <1>1, <1>2, Invariance, PostedNext, PTL DEF Spec
=============================================================================
