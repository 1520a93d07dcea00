---------------------------- MODULE MCFreshness -----------------------------
(* A small instance of Freshness for TLC. *)
EXTENDS Freshness, TLC

CONSTANTS w1, w2, u1, u2

OneWorker == {w1}
TwoWorkers == {w1, w2}
OneUpdate == {u1}
TwoUpdates == {u1, u2}

\* The loop of continuous_run_start, from the newest row back.
SetMax(S) == CHOOSE x \in S : \A y \in S : y <= x
RECURSIVE Walk(_, _)
Walk(rows, start) ==
  LET rest == {r \in rows : r < start} IN
    IF rest = {} \/ start - SetMax(rest) > Gap THEN start ELSE Walk(rows, SetMax(rest))
ASSUME WalkIsRunStart ==
  \A rows \in SUBSET (0 .. 9) \ {{}} : Walk(rows, SetMax(rows)) = RunStart(rows)

\* A finished report is looked at before anything else happens.
ReportNext == Next /\ (stage = "done" => stage' = "none")
ReportSpec == Init /\ [][ReportNext]_vars
=============================================================================
