----------------------------- MODULE Freshness ------------------------------
(***************************************************************************)
(* The freshness measurement: the embedder's heartbeat (freshet/common/    *)
(* heartbeat.py), the receipts it leaves on completed events               *)
(* (freshet/pipeline/embedder.py), and the report that scores the updates  *)
(* of the current continuous run (freshet/eval/freshness.py).              *)
(*                                                                         *)
(* `now` is the clock of the database, in ticks; a beat is logged by its   *)
(* minute, and the provider stamps an update with the minute it posts it.  *)
(* Updates reach the embedders whenever the upstream gets to it, perhaps   *)
(* more than once; embedders take as long as they like over a message,     *)
(* beat when they have indexed one or have nothing to do, and may be dead  *)
(* for any time.  The report reads the log in one statement and the        *)
(* receipts in another.                                                    *)
(***************************************************************************)
EXTENDS Integers, FiniteSets, Functions

CONSTANTS
  Worker,      \* embedder processes; they beat for one component
  Update,      \* provider updates, one event each
  Minute,      \* ticks in a minute
  Interval,    \* BEAT_INTERVAL_S
  Gap,         \* GAP_TOLERANCE_S
  Retention,   \* HEARTBEAT_RETENTION_DAYS
  Batch,       \* BATCH_INTERVAL_S, with one alignment per tick
  Horizon,     \* bound on the clock
  None         \* SQL NULL

ASSUME FreshnessAssumption ==
  /\ Minute \in Nat \ {0} /\ Interval \in 1 .. Gap
  /\ Gap \in Nat /\ Gap % Minute = 0
  /\ Retention \in Nat /\ Batch \in Nat \ {0} /\ Horizon \in Nat
  /\ None \notin Int

VARIABLES
  now,
  ts,          \* the provider's stamp of an update, None before it is posted
  \* Postgres
  beats,       \* pipeline_heartbeat_log, the minutes of component "embedder"
  first,       \* event_indexing.first_queryable_at
  \* the embedders
  pc,
  last,        \* Heartbeat._last
  \* a report
  stage,
  seen, seenAt,    \* the log it read, and when
  scored, scoredAt,
  \* history used only to state properties
  calls        \* ticks in which an embedder called beat()

db == <<beats, first>>
worker == <<pc, last>>
report == <<stage, seen, seenAt, scored, scoredAt>>
vars == <<now, ts, db, worker, report, calls>>

----------------------------------------------------------------------------

\* date_trunc('minute', t).
Trunc(t) == t - (t % Minute)

\* _last of a process that has not beaten yet.
Never == -Interval

Goto(w, l) == pc' = [pc EXCEPT ![w] = l]

Init ==
  /\ now = 0
  /\ ts = [u \in Update |-> None]
  /\ beats = {} /\ first = [u \in Update |-> None]
  /\ pc = [w \in Worker |-> "poll"] /\ last = [w \in Worker |-> Never]
  /\ stage = "none" /\ seen = {} /\ seenAt = 0 /\ scored = {} /\ scoredAt = 0
  /\ calls = {}

Tick ==
  /\ now < Horizon /\ now' = now + 1
  /\ UNCHANGED <<ts, db, worker, report, calls>>

Post(u) ==
  /\ ts[u] = None
  /\ ts' = [ts EXCEPT ![u] = Trunc(now)]
  /\ UNCHANGED <<now, db, worker, report, calls>>

----------------------------------------------------------------------------
(* The embedder. *)

\* A message is handled to its receipt, however long ago its update was posted
\* and whether or not it was handled before: the first completion stays.
Complete(w, u) ==
  /\ pc[w] = "poll" /\ ts[u] # None
  /\ first' = [first EXCEPT ![u] = IF @ = None THEN now ELSE @]
  /\ Goto(w, "beat")
  /\ UNCHANGED <<now, ts, beats, last, report, calls>>

\* Seeded bug: the throttle is wound up again by the calls it swallows.
BeatStarved(w) ==
  /\ calls' = calls \cup {now}
  /\ last' = [last EXCEPT ![w] = now]
  /\ IF now - last[w] < Interval
       THEN UNCHANGED beats
       ELSE beats' = beats \cup {Trunc(now)}

\* Seeded bug: the beat is logged by the tick.
BeatExact(w) ==
  /\ calls' = calls \cup {now}
  /\ IF now - last[w] < Interval
       THEN UNCHANGED <<last, beats>>
       ELSE /\ last' = [last EXCEPT ![w] = now]
            /\ beats' = beats \cup {now}

\* Heartbeat.beat: at the end of a handler that indexed, and when idle.  A
\* handler that dead-letters its message does not beat.
Beat(w) ==
  /\ calls' = calls \cup {now}
  /\ IF now - last[w] < Interval
       THEN UNCHANGED <<last, beats>>
       ELSE /\ last' = [last EXCEPT ![w] = now]
            /\ beats' = beats \cup {Trunc(now)}

BeatAfterOrIdle(w) ==
  /\ Beat(w)
  /\ Goto(w, "poll")
  /\ UNCHANGED <<now, ts, first, report>>

\* The process is replaced, and `_last` forgotten.  A process that is down and
\* one that takes its time are the same to the log.
Restart(w) ==
  /\ Goto(w, "poll")
  /\ last' = [last EXCEPT ![w] = Never]
  /\ UNCHANGED <<now, ts, db, report, calls>>

\* Seeded bug: prune_log cuts into the window that the report reads.
PruneEarly ==
  /\ beats' = {r \in beats : r >= now - Retention + 2 * Minute}
  /\ UNCHANGED <<now, ts, first, worker, report, calls>>

\* prune_log, by the autopilot's maintenance.
Prune ==
  /\ beats' = {r \in beats : r >= now - Retention}
  /\ UNCHANGED <<now, ts, first, worker, report, calls>>

----------------------------------------------------------------------------
(* The report. *)

\* Every row from r on but the newest is followed within the tolerance.
Unbroken(rows, r) ==
  \A x \in rows : r <= x /\ (\E z \in rows : z > x) =>
    \E y \in rows : x < y /\ y <= x + Gap

\* continuous_run_start: where the walk back from the newest row stops.
RunStart(rows) ==
  CHOOSE r \in rows : Unbroken(rows, r) /\ \A q \in rows : Unbroken(rows, q) => r <= q

ReadLog ==
  /\ stage = "none" /\ stage' = "run"
  /\ seen' = {r \in beats : r > now - Retention} /\ seenAt' = now
  /\ UNCHANGED <<now, ts, db, worker, scored, scoredAt, calls>>

\* Seeded bug: what was indexed in the run is scored, whenever it was posted.
InRunByReceipt(u, start) == ts[u] # None /\ first[u] # None /\ first[u] >= start

\* The query of main(): a pipeline that never beat has nothing to score.
InRun(u, start) ==
  /\ ts[u] # None /\ first[u] # None
  /\ ts[u] >= start /\ first[u] >= start

ReadReceipts ==
  /\ stage = "run" /\ stage' = "done"
  /\ scored' = IF seen = {} THEN {} ELSE {u \in Update : InRun(u, RunStart(seen))}
  /\ scoredAt' = now
  /\ UNCHANGED <<now, ts, db, worker, seen, seenAt, calls>>

\* Seeded bug: the phase is added after the remainder is taken.
BatchStalenessShifted(posted, phase) == Batch - ((posted % Batch) - phase)

\* batch_staleness, and the sweep over every phase of the boundary (times the
\* number of updates, which the code divides by).
BatchStaleness(posted, phase) == Batch - ((posted - phase) % Batch)
Sweep(S) == [phase \in 0 .. Batch - 1 |->
               SumFunction([u \in S |-> BatchStaleness(ts[u], phase)])]

\* The report is printed; another may be made.
Finish ==
  /\ stage = "done" /\ stage' = "none"
  /\ seen' = {} /\ seenAt' = 0 /\ scored' = {} /\ scoredAt' = 0
  /\ UNCHANGED <<now, ts, db, worker, calls>>

----------------------------------------------------------------------------

Embedder(w) ==
  \/ BeatAfterOrIdle(w) \/ Restart(w)
  \/ \E u \in Update : Complete(w, u)

Next ==
  \/ Tick \/ Prune \/ ReadLog \/ ReadReceipts \/ Finish
  \/ \E u \in Update : Post(u)
  \/ \E w \in Worker : Embedder(w)

Spec == Init /\ [][Next]_vars

----------------------------------------------------------------------------
(* Properties *)

\* Every variable has its type, and the log holds whole minutes of beats.
TypeOK ==
  /\ now \in 0 .. Horizon
  /\ ts \in [Update -> (0 .. now) \cup {None}] /\ first \in [Update -> (0 .. now) \cup {None}]
  /\ calls \subseteq 0 .. now /\ beats \subseteq {Trunc(t) : t \in calls}
  /\ pc \in [Worker -> {"poll", "beat"}]
  /\ last \in [Worker -> calls \cup {Never}]
  /\ stage \in {"none", "run", "done"}
  /\ seen \subseteq {Trunc(t) : t \in calls} /\ seenAt \in 0 .. now
  /\ scored \subseteq Update /\ scoredAt \in 0 .. now

\* Nobody called beat() between the calls x and y, for longer than the
\* tolerance and the minute that truncation may hide.
Outage(x, y) ==
  /\ x \in calls /\ y \in calls /\ y - x >= Gap + Minute
  /\ \A t \in calls : t <= x \/ t >= y

\* "Score only updates posted inside a window where the pipeline was
\* demonstrably running" (heartbeat.py): what was posted before the end of an
\* outage is not scored, however late or often it was indexed, provided that
\* the beat that ended the outage was in the log the report read.  A beat that
\* comes between its two statements leaves RunStart before the outage, and a
\* receipt that comes with it is scored.
CatchUpIsExcluded ==
  \A u \in scored : \A x, y \in calls :
    Outage(x, y) /\ Trunc(y) \in seen => ts[u] >= Trunc(y)

\* From call s until the report read the log, embedders called beat() with no
\* pause that the throttle and the truncation could stretch over the tolerance.
Pause == Gap + 1 - Interval
SteadySince(s) ==
  /\ s \in calls /\ s < seenAt
  /\ \A x \in calls : s <= x /\ (\E z \in calls : x < z /\ z <= seenAt) =>
       \E y \in calls : x < y /\ y <= x + Pause
Retained(s) == s - Interval - Minute >= seenAt - Retention

\* "An ordinary crash-and-restart does not break the run" (supervisor.py): what
\* was posted while the embedders beat steadily and was indexed when the report
\* was made is scored, although a restart forgets the throttle, beats are
\* logged by the minute and old ones are pruned.
LiveArrivalsAreScored ==
  stage = "done" =>
    \A u \in Update, s \in calls :
      /\ SteadySince(s) /\ Retained(s)
      /\ ts[u] # None /\ ts[u] >= Trunc(s)
      /\ first[u] # None /\ first[u] < scoredAt
      => u \in scored

\* "Arrivals clustered at one phase inflate that phase's mean without moving
\* this distribution's own mean" (freshness.py): the batch arm of the report
\* does not depend on when in the interval its updates were posted.
BatchArmIsNeutral ==
  stage = "done" =>
    2 * SumFunction(Sweep(scored)) = Cardinality(scored) * Batch * (Batch + 1)
=============================================================================
