----------------------------- MODULE MCDelivery -----------------------------
(* Small instances of Delivery for TLC. *)
EXTENDS Delivery, TLC

CONSTANTS i1, i2, w1, w2

OneIncident == {i1}
TwoIncidents == {i1, i2}
OneWorker == {w1}
TwoWorkers == {w1, w2}

Ev1(type, ts) == [type |-> type, ts |-> ts]
Opened(ts) == Ev1("opened", ts)
InProgress(ts) == Ev1("in_progress", ts)
Resolved(ts) == Ev1("resolved", ts)

\* A whole lifecycle.
FullLog == {<<Opened(1), InProgress(2), Resolved(3)>>}

\* Events older than MAX_BRIEF_AGE_S, an incident first seen in
\* mid-life, a resolution before its opening, and an opening emitted twice by a
\* resubmitted Flink job.
OddLogs ==
  {<<Opened(1), Resolved(2)>>, <<Opened(0), Resolved(2)>>,
   <<InProgress(1)>>, <<Resolved(1), Opened(2)>>,
   <<Opened(1), Opened(1)>>}

\* A lifecycle, and a resolution nobody was briefed on.
ShortLogs == {<<Opened(1), Resolved(2)>>, <<Resolved(1)>>}

\* One incident with an odd log, or two of which the one that is never briefed
\* may keep the other out of a drain query with LIMIT.
LiveLogs == OddLogs \cup ShortLogs \cup {<<>>}
Alone == log[i2] = <<>>
LiveInit ==
  /\ Init /\ owner = [i \in Incident |-> w1]
  /\ \/ log[i1] \in OddLogs /\ Alone
     \/ log[i1] = <<Resolved(1)>> /\ log[i2] = <<Opened(1), Resolved(2)>>

\* Nothing happens to an incident without events; two are watched without faults.
LiveNext ==
  /\ Next
  /\ IF Alone THEN UNCHANGED <<opened[i2], owner[i2]>> ELSE UNCHANGED faults
LiveSpec == LiveInit /\ [][LiveNext]_vars /\ Fairness
=============================================================================
