------------------------------- MODULE Budget -------------------------------
(***************************************************************************)
(* The table llm_budget that caps LLM calls (freshet/rag/budget.py): one   *)
(* row per clock hour, read and written one statement at a time by every   *)
(* composer.  Rows are kept by their age, the current hour first; older    *)
(* ones than the day that _DAY_SQL sums up are never read again.           *)
(***************************************************************************)
EXTENDS Naturals, FiniteSets, Functions

CONSTANTS
  HourlyCap,   \* FRESHET_LLM_HOURLY_CAP
  DailyCap,    \* FRESHET_LLM_DAILY_CAP
  DayHours     \* the 24 hours of _DAY_SQL

ASSUME BudgetAssumption ==
  HourlyCap \in Nat /\ DailyCap \in Nat /\ DayHours \in Nat \ {0}

VARIABLE calls

Age == 0 .. DayHours - 1
BudgetTypeOK == calls \in [Age -> Nat]
BudgetInit == calls = [a \in Age |-> 0]

DayCalls == SumFunction(calls)

\* Mutant: off by one.
DayAllowsOneMore == HourlyCap > 0 /\ DailyCap > 0 /\ DayCalls <= DailyCap

\* The two refusals of _spend: caps of zero and the day's sum, then the hour.
DayAllows == HourlyCap > 0 /\ DailyCap > 0 /\ DayCalls < DailyCap
HourAllows == calls[0] = 0 \/ calls[0] < HourlyCap

\* Mutant: the hour is read with the day and written later.
SpendStale == calls' = [calls EXCEPT ![0] = @ + 1]

\* _SPEND_SQL checks the hour and counts the call in one statement.
SpendHour == HourAllows /\ calls' = [calls EXCEPT ![0] = @ + 1]
Refuse == ~HourAllows /\ UNCHANGED calls

HourTurns == calls' = [a \in Age |-> IF a = 0 THEN 0 ELSE calls[a - 1]]

\* No hour sees more calls than its cap, whoever makes them and however often
\* processes start anew: the check and the count of _SPEND_SQL are one step.
HourlyCapHolds == \A a \in Age : calls[a] <= HourlyCap
=============================================================================
