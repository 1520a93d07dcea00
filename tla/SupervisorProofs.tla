-------------------------- MODULE SupervisorProofs --------------------------
(***************************************************************************)
(* Theorems about Supervisor, for any list of children and any back-off,   *)
(* poll interval and limits with FAST_DEATH_S <= RESTART_BACKOFF_S.        *)
(***************************************************************************)
EXTENDS Supervisor, TLAPS

\* In the middle of a back-off the loop is at a dead child, and what is left of
\* the sleep completes the back-off of that child.
SleepInv ==
  pc = "backoff" =>
    /\ next <= Len(Order)
    /\ ~alive[Order[next]]
    /\ timer + age[Order[next]] >= Backoff

\* Nobody has reached the limit while the loop runs.
CountInv == pc \in Running => ~halted /\ \A c \in Child : fast[c] < MaxFast

TypeInv == TypeOK /\ SleepInv /\ CountInv

USE DEF TypeInv, TypeOK, ChildOK, LoopOK, HistoryOK

LEMMA InOrder ==
  ASSUME NEW n \in Nat \ {0}, n <= Len(Order)
  PROVE  n \in DOMAIN Order /\ Order[n] \in Child
BY SupervisorAssumption DEF Child

LEMMA Constants ==
  /\ Len(Order) \in Nat /\ Backoff \in Nat /\ FastDeath \in Nat /\ FastDeath <= Backoff
  /\ MaxFast \in Nat \ {0} /\ Poll \in Nat \ {0} /\ MaxDowntime \in Nat /\ Slack \in Nat
BY SupervisorAssumption

LEMMA InitTypeInv == Init => TypeInv
<1>. SUFFICES ASSUME Init PROVE TypeInv
  OBVIOUS
<1>1. ChildOK /\ HistoryOK /\ CountInv /\ SleepInv
  BY Constants DEF Init, CountInv, SleepInv
<1>2. 1 \in 1 .. Len(Order) + 1 /\ 0 \in 0 .. Backoff /\ 0 <= Backoff
  BY Constants
<1>3. LoopOK
  BY <1>2 DEF Init, PC
<1>. QED
  BY <1>1, <1>3

LEMMA ExitType == ASSUME TypeInv, NEW c \in Child, Exit(c) PROVE TypeInv'
<1>. USE DEF Exit, self
<1>1. ChildOK' /\ LoopOK'
  OBVIOUS
<1>2. HistoryOK'
  <2>1. young[c] \in 0 .. MaxFast
    OBVIOUS
  <2>2. AtMost(young[c] + 1, MaxFast) \in 0 .. MaxFast /\ 0 \in 0 .. MaxFast
    BY <2>1, Constants DEF AtMost
  <2>. QED
    BY <2>2
<1>3. CountInv'
  BY DEF CountInv
<1>4. SleepInv'
  <2>. SUFFICES ASSUME pc = "backoff" PROVE SleepInv'
    BY DEF SleepInv
  <2>1. next <= Len(Order) /\ ~alive[Order[next]] /\ timer + age[Order[next]] >= Backoff
    BY DEF SleepInv
  <2>2. ~alive'[Order[next]]
    BY <2>1
  <2>. QED
    BY <2>1, <2>2 DEF SleepInv
<1>. QED
  BY <1>1, <1>2, <1>3, <1>4

LEMMA TickType == ASSUME TypeInv, Tick PROVE TypeInv'
<1>1. ASSUME NEW c \in Child
      PROVE  age'[c] \in 0 .. Backoff /\ (age'[c] = age[c] + 1 \/ age'[c] = Backoff)
  BY Constants DEF Tick, AtMost
<1>2. ChildOK'
  BY <1>1 DEF Tick
<1>3. HistoryOK' /\ CountInv'
  BY Constants DEF Tick, AtMost, CountInv
<1>4. LoopOK'
  BY Constants DEF Tick
<1>5. SleepInv'
  <2>. SUFFICES ASSUME pc = "backoff" PROVE SleepInv'
    BY DEF Tick, SleepInv
  <2>. DEFINE c == Order[next]
  <2>1. next <= Len(Order) /\ ~alive[c] /\ timer + age[c] >= Backoff /\ c \in Child
    BY InOrder, Constants DEF SleepInv
  <2>2. timer > 0 /\ timer' = timer - 1 /\ UNCHANGED <<alive, next>>
    BY DEF Tick
  <2>3. /\ timer \in Nat /\ age[c] \in Nat
        /\ age'[c] \in Nat /\ (age'[c] = age[c] + 1 \/ age'[c] = Backoff)
    BY <1>1, <2>1, Constants
  <2>. HIDE DEF c
  <2>4. timer' + age'[c] >= Backoff
    BY <2>1, <2>2, <2>3, Constants
  <2>. QED
    BY <2>1, <2>2, <2>4 DEF SleepInv, c
<1>. QED
  BY <1>2, <1>3, <1>4, <1>5

LEMMA LoopType == ASSUME TypeInv, Loop PROVE TypeInv'
BY Constants DEF Loop, SleepInv, CountInv, Running, PC, child

LEMMA FindDeadType == ASSUME TypeInv, FindDead PROVE TypeInv'
<1>. DEFINE c == Order[next]
<1>1. c \in Child /\ age[c] \in 0 .. Backoff
  BY InOrder, Constants DEF FindDead
<1>2. /\ pc = "scan" /\ next <= Len(Order) /\ ~alive[c]
      /\ waited' = age[c] /\ timer' = Backoff - age[c] /\ pc' = "backoff"
      /\ UNCHANGED <<alive, age, fast, next, stopping, halted, young, down>>
  BY DEF FindDead, child
<1>3. timer' \in Nat /\ timer' <= Backoff /\ timer' + age[c] >= Backoff
  BY <1>1, <1>2, Constants
<1>. QED
  BY <1>1, <1>2, <1>3 DEF SleepInv, CountInv, Running, PC

LEMMA RestartType == ASSUME TypeInv, Restart PROVE TypeInv'
<1>. DEFINE c == Order[next]
<1>1. pc = "backoff" /\ next <= Len(Order) /\ c \in Child
  BY InOrder, Constants DEF Restart, SleepInv
<1>2. fast[c] \in Nat /\ fast[c] < MaxFast /\ ~halted /\ FastCount(c) \in 0 .. MaxFast
  BY <1>1, Constants DEF FastCount, CountInv, Running
<1>3. fast' = [fast EXCEPT ![c] = FastCount(c)] /\ UNCHANGED <<timer, waited, stopping, young>>
  BY DEF Restart
<1>4. CASE FastCount(c) >= MaxFast
  <2>1. halted' /\ pc' = "terminate" /\ UNCHANGED <<alive, age, next, down>>
    BY <1>4 DEF Restart
  <2>. QED
    BY <1>2, <1>3, <2>1 DEF SleepInv, CountInv, Running, PC
<1>5. CASE ~(FastCount(c) >= MaxFast)
  <2>1. /\ alive' = [alive EXCEPT ![c] = TRUE] /\ age' = [age EXCEPT ![c] = 0]
        /\ down' = [down EXCEPT ![c] = 0] /\ next' = next + 1 /\ pc' = "scan"
        /\ UNCHANGED halted
    BY <1>5 DEF Restart
  <2>2. next' \in 1 .. Len(Order) + 1
    BY <1>1, <2>1, Constants
  <2>3. ChildOK'
    BY <1>1, <1>2, <1>3, <2>1, Constants
  <2>4. HistoryOK'
    BY <1>1, <1>3, <2>1, Constants
  <2>5. CountInv'
    BY <1>1, <1>2, <1>3, <1>5, <2>1, Constants DEF CountInv, Running
  <2>. QED
    BY <1>3, <2>1, <2>2, <2>3, <2>4, <2>5 DEF SleepInv, PC
<1>. QED
  BY <1>4, <1>5

LEMMA OtherType ==
  ASSUME TypeInv, \/ BeginScan \/ EndScan \/ SkipAlive \/ Terminate \/ Reap \/ Ended
                  \/ Signal \/ UNCHANGED vars
  PROVE  TypeInv'
<1>. USE DEF SleepInv, CountInv, Running, PC
<1>1. CASE BeginScan \/ EndScan \/ Terminate \/ Ended
  BY <1>1, Constants DEF BeginScan, EndScan, Terminate, Ended, child
<1>2. CASE SkipAlive
  BY <1>2, Constants DEF SkipAlive, child
<1>3. CASE Reap
  <2>1. next \in Nat \ {0} /\ next <= Len(Order) /\ next' = next + 1 /\ pc = "wait"
        /\ UNCHANGED <<age, fast, pc, timer, waited, stopping, halted, young, down>>
    BY <1>3 DEF Reap
  <2>2. next' \in 1 .. Len(Order) + 1
    BY <2>1, Constants
  <2>3. alive' = alive \/ alive' = [alive EXCEPT ![Order[next]] = FALSE]
    BY <1>3 DEF Reap
  <2>4. alive' \in [Child -> BOOLEAN]
    BY <2>3
  <2>. QED
    BY <2>1, <2>2, <2>4
<1>4. CASE Signal
  BY <1>4 DEF Signal, child
<1>5. CASE UNCHANGED vars
  BY <1>5 DEF vars, child, self
<1>. QED
  BY <1>1, <1>2, <1>3, <1>4, <1>5

LEMMA NextTypeInv == ASSUME TypeInv, [Next]_vars PROVE TypeInv'
BY ExitType, TickType, LoopType, FindDeadType, RestartType, OtherType DEF Next, Supervise

\* Every variable keeps its type: in particular no sleep is longer than the
\* back-off or the poll interval.
THEOREM SupervisorTypes == Spec => []TypeOK
<1>1. TypeInv => TypeOK
  OBVIOUS
<1>. QED
  BY <1>1, InitTypeInv, NextTypeInv, PTL DEF Spec

----------------------------------------------------------------------------

\* Two starts of a child are at least RESTART_BACKOFF_S apart, whatever the
\* other children made the loop wait for.
THEOREM RestartsThrottled == Spec => RestartsAreThrottled
<1>. DEFINE Throttled == \A c \in Child : ~alive[c] /\ alive'[c] => age[c] >= Backoff
<1>1. ASSUME TypeInv, [Next]_vars, NEW c \in Child, ~alive[c], alive'[c]
      PROVE  age[c] >= Backoff
  <2>1. Restart
    BY <1>1 DEF Next, Supervise, vars, child, Exit, Tick, Signal, Loop, BeginScan, EndScan,
       SkipAlive, FindDead, Terminate, Reap, Ended
  <2>2. Order[next] \in Child /\ timer = 0 /\ pc = "backoff"
    BY <1>1, <2>1, InOrder, Constants DEF Restart, SleepInv, Awake
  <2>3. c = Order[next]
    BY <1>1, <2>1, <2>2 DEF Restart
  <2>. QED
    BY <1>1, <2>2, <2>3, Constants DEF SleepInv
<1>2. TypeInv /\ [Next]_vars => [Throttled]_vars
  BY <1>1
<1>. QED
  BY <1>2, InitTypeInv, NextTypeInv, PTL DEF Spec, RestartsAreThrottled

----------------------------------------------------------------------------
(***************************************************************************)
(* No false alarm.  fast_deaths counts at most the deaths the children     *)
(* really died young: what the loop measures is never shorter than the     *)
(* life, and a life it measures as long ends the row.                      *)
(***************************************************************************)
AlarmInv ==
  /\ \A c \in Child :
       /\ alive[c] => fast[c] <= young[c]
       /\ ~alive[c] /\ age[c] < FastDeath /\ pc \in Running => fast[c] < young[c]
  /\ pc = "backoff" /\ waited < FastDeath => fast[Order[next]] < young[Order[next]]
  /\ halted => \E c \in Child : ~alive[c] /\ young[c] >= MaxFast
  /\ halted => pc \notin Running

LEMMA AlarmExit ==
  ASSUME TypeInv, AlarmInv, Slack = 0, NEW c \in Child, Exit(c) PROVE AlarmInv'
<1>0. age[c] + Slack = age[c]
  OBVIOUS
<1>1. /\ alive[c] /\ alive' = [alive EXCEPT ![c] = FALSE]
      /\ young' = [young EXCEPT ![c] = IF age[c] < FastDeath THEN AtMost(young[c] + 1, MaxFast) ELSE 0]
      /\ UNCHANGED <<age, fast, pc, next, timer, waited, stopping, halted>>
  BY <1>0 DEF Exit, self
<1>2. ASSUME pc \in Running, age[c] < FastDeath PROVE fast[c] < young'[c]
  BY <1>1, <1>2, Constants DEF AtMost, AlarmInv, CountInv
<1>3. pc = "backoff" => Order[next] \in Child /\ Order[next] # c
  BY <1>1, InOrder, Constants DEF SleepInv
<1>. QED
  BY <1>1, <1>2, <1>3 DEF AlarmInv

LEMMA AlarmTick == ASSUME TypeInv, AlarmInv, Tick PROVE AlarmInv'
<1>1. \A c \in Child : age'[c] < FastDeath => age[c] < FastDeath
  BY Constants DEF Tick, AtMost
<1>. QED
  BY <1>1 DEF AlarmInv, Tick

LEMMA AlarmFindDead == ASSUME TypeInv, AlarmInv, FindDead PROVE AlarmInv'
<1>1. Order[next] \in Child
  BY InOrder, Constants DEF FindDead
<1>. QED
  BY <1>1 DEF AlarmInv, FindDead, child, Running

LEMMA AlarmRestart == ASSUME TypeInv, AlarmInv, Restart PROVE AlarmInv'
<1>. DEFINE c == Order[next]
<1>1. pc = "backoff" /\ c \in Child /\ ~alive[c]
  BY InOrder, Constants DEF Restart, SleepInv
<1>2. FastCount(c) <= young[c] /\ FastCount(c) \in Nat
  BY <1>1 DEF FastCount, AlarmInv
<1>3. fast' = [fast EXCEPT ![c] = FastCount(c)] /\ UNCHANGED <<timer, waited, stopping, young>>
  BY DEF Restart
<1>4. CASE FastCount(c) >= MaxFast
  <2>1. halted' /\ pc' = "terminate" /\ UNCHANGED <<alive, age, next, down>>
    BY <1>4 DEF Restart
  <2>2. young'[c] >= MaxFast /\ ~alive'[c]
    BY <1>1, <1>2, <1>3, <1>4, <2>1, Constants
  <2>. QED
    BY <1>1, <1>2, <1>3, <2>1, <2>2 DEF AlarmInv, Running
<1>5. CASE ~(FastCount(c) >= MaxFast)
  <2>1. /\ alive' = [alive EXCEPT ![c] = TRUE] /\ age' = [age EXCEPT ![c] = 0]
        /\ pc' = "scan" /\ UNCHANGED halted
    BY <1>5 DEF Restart
  <2>. QED
    BY <1>1, <1>2, <1>3, <2>1 DEF AlarmInv, CountInv, Running
<1>. QED
  BY <1>4, <1>5

LEMMA AlarmOther ==
  ASSUME TypeInv, AlarmInv,
         \/ Loop \/ BeginScan \/ EndScan \/ SkipAlive \/ Terminate \/ Reap \/ Ended
         \/ Signal \/ UNCHANGED vars
  PROVE  AlarmInv'
<1>. USE DEF AlarmInv, Running
<1>1. CASE Loop \/ BeginScan \/ EndScan \/ SkipAlive \/ Terminate \/ Ended
  BY <1>1 DEF Loop, BeginScan, EndScan, SkipAlive, Terminate, Ended, child
<1>2. CASE Reap
  <2>1. /\ pc = "wait" /\ UNCHANGED <<age, fast, pc, waited, halted, young>>
        /\ \A c \in Child : alive'[c] => alive[c]
    BY <1>2 DEF Reap
  <2>. QED
    BY <2>1
<1>3. CASE Signal \/ UNCHANGED vars
  BY <1>3 DEF Signal, vars, child, self
<1>. QED
  BY <1>1, <1>2, <1>3

\* DependencyDown is raised only when some child really died MAX_FAST_DEATHS
\* times in a row within FAST_DEATH_S of its own start.
THEOREM NoFalseAlarm ==
  ASSUME Slack = 0
  PROVE  Spec => []HaltMeansOutage
<1>1. Init => AlarmInv
  BY DEF Init, AlarmInv
<1>2. TypeInv /\ AlarmInv /\ [Next]_vars => AlarmInv'
  BY AlarmExit, AlarmTick, AlarmFindDead, AlarmRestart, AlarmOther DEF Next, Supervise
<1>3. AlarmInv => HaltMeansOutage
  BY DEF AlarmInv, HaltMeansOutage
<1>. QED
  BY <1>1, <1>2, <1>3, InitTypeInv, NextTypeInv, PTL DEF Spec

----------------------------------------------------------------------------
(***************************************************************************)
(* No orphans.  When the shutdown has passed a child, it is dead or cannot *)
(* be killed, and nothing starts it again.                                 *)
(***************************************************************************)
Reaped(n) == \A k \in DOMAIN Order : k < n /\ alive[Order[k]] => Order[k] \in Unkillable

ReapInv ==
  /\ pc = "wait" => Reaped(next)
  /\ pc = "ended" => Reaped(Len(Order) + 1)

LEMMA Places ==
  /\ \A k \in DOMAIN Order : k \in Nat \ {0} /\ k <= Len(Order) /\ Order[k] \in Child
  /\ \A n \in Nat \ {0} : n <= Len(Order) => n \in DOMAIN Order
  /\ \A k, n \in DOMAIN Order : Order[k] = Order[n] => k = n
  /\ \A c \in Child : \E k \in DOMAIN Order : Order[k] = c
BY SupervisorAssumption DEF Child

LEMMA ReapReap == ASSUME TypeInv, ReapInv, Reap PROVE ReapInv'
<1>1. Order[next] \in Child /\ next \in Nat \ {0} /\ next <= Len(Order)
  BY InOrder, Constants DEF Reap
<1>2. \A d \in Child : alive'[d] => alive[d] /\ (d = Order[next] => d \in Unkillable)
  BY <1>1 DEF Reap
<1>3. ASSUME NEW k \in DOMAIN Order, k < next + 1, alive'[Order[k]]
      PROVE  Order[k] \in Unkillable
  BY <1>1, <1>2, <1>3, Places, Constants DEF Reap, ReapInv, Reaped
<1>. QED
  BY <1>1, <1>3, Constants DEF Reap, ReapInv, Reaped

LEMMA ReapOther ==
  ASSUME TypeInv, ReapInv,
         \/ Tick \/ Signal \/ Loop \/ BeginScan \/ EndScan \/ SkipAlive \/ FindDead
         \/ Restart \/ Terminate \/ Ended \/ (\E c \in Child : Exit(c)) \/ UNCHANGED vars
  PROVE  ReapInv'
<1>1. CASE Tick \/ UNCHANGED vars
  BY <1>1 DEF Tick, vars, child, self, ReapInv, Reaped
<1>2. CASE Signal \/ Loop \/ BeginScan \/ EndScan \/ SkipAlive \/ FindDead \/ Restart
  <2>1. pc' \notin {"wait", "ended"}
    BY <1>2 DEF Signal, Loop, BeginScan, EndScan, SkipAlive, FindDead, Restart, Running
  <2>. QED
    BY <2>1 DEF ReapInv
<1>3. CASE Terminate
  BY <1>3, Places, Constants DEF Terminate, ReapInv, Reaped
<1>4. CASE Ended
  BY <1>4, Places, Constants DEF Ended, child, ReapInv, Reaped
<1>5. CASE \E c \in Child : Exit(c)
  <2>1. \A d \in Child : alive'[d] => alive[d]
    BY <1>5 DEF Exit
  <2>. QED
    BY <1>5, <2>1, Places DEF Exit, self, ReapInv, Reaped
<1>. QED
  BY <1>1, <1>2, <1>3, <1>4, <1>5

\* When the supervisor has ended every child is dead, one that even SIGKILL
\* cannot end excepted, although children go on dying beside the shutdown.
THEOREM EndedLeavesNobody == Spec => []NoOrphans
<1>1. Init => ReapInv
  BY DEF Init, ReapInv
<1>2. TypeInv /\ ReapInv /\ [Next]_vars => ReapInv'
  BY ReapReap, ReapOther DEF Next, Supervise
<1>3. TypeInv /\ ReapInv => NoOrphans
  <2>. SUFFICES ASSUME TypeInv, ReapInv, pc = "ended", NEW c \in Child, alive[c]
                PROVE  c \in Unkillable
    BY DEF NoOrphans
  <2>1. PICK k \in DOMAIN Order : Order[k] = c
    BY Places
  <2>2. k < Len(Order) + 1
    BY Places, Constants
  <2>. QED
    BY <2>1, <2>2 DEF ReapInv, Reaped
<1>. QED
  BY <1>1, <1>2, <1>3, InitTypeInv, NextTypeInv, PTL DEF Spec

----------------------------------------------------------------------------
(***************************************************************************)
(* Downtime.  The loop sleeps for one child after the other, but every age *)
(* advances with every sleep.  A child has been down for no longer than    *)
(* any child before it in the list has lived, as long as the pass has both *)
(* before it or both behind it: the sleeps before its turn end when those  *)
(* ages reach the back-off.  A child the pass has visited was alive then,  *)
(* and the children still to be visited had rested a poll before the pass  *)
(* began, so the pass leaves a poll of its back-off to the next sleep.     *)
(***************************************************************************)
InPass == pc \in {"scan", "backoff"}

ClockInv ==
  /\ pc \in {"loop", "scan"} => timer = 0
  /\ pc = "backoff" => timer + age[Order[next]] = Backoff
  /\ \A c \in Child : alive[c] => down[c] = 0

Together(i, j) == pc \in {"loop", "poll"} \/ (InPass /\ (i < next \/ j >= next))

OutlivedInv ==
  \A i, j \in DOMAIN Order : j <= i /\ Together(i, j) => down[Order[i]] <= age[Order[j]]

BetweenInv ==
  /\ pc = "loop" => \A c \in Child : down[c] + Poll <= Backoff
  /\ pc = "poll" => \A c \in Child : down[c] + timer <= Backoff /\ Poll <= age[c] + timer

PassInv == InPass =>
  /\ \A j \in DOMAIN Order : j >= next => Poll <= age[Order[j]]
  /\ \A i \in DOMAIN Order : i < next =>
       /\ down[Order[i]] + Poll <= Backoff
       /\ \A j \in DOMAIN Order : j >= next => down[Order[i]] + Poll <= age[Order[j]]

DownInv == ClockInv /\ OutlivedInv /\ BetweenInv /\ PassInv

\* The types the arithmetic needs.
LEMMA Types ==
  ASSUME TypeInv
  PROVE  /\ \A c \in Child : /\ age[c] \in Nat /\ age[c] <= Backoff
                             /\ down[c] \in Nat /\ down[c] <= MaxDowntime + 1
         /\ timer \in Nat /\ next \in Nat \ {0} /\ next <= Len(Order) + 1
         /\ pc = "backoff" => next <= Len(Order)
<1>1. \A c \in Child : age[c] \in 0 .. Backoff /\ down[c] \in 0 .. MaxDowntime + 1
  OBVIOUS
<1>. QED
  BY <1>1, Constants DEF SleepInv

HIDE DEF TypeInv, TypeOK, ChildOK, LoopOK, HistoryOK

\* What a tick does to an age and to a downtime.
LEMMA TickClocks ==
  ASSUME TypeInv, Tick, NEW c \in Child
  PROVE  /\ age'[c] \in Nat /\ down'[c] \in Nat
         /\ age'[c] >= age[c] /\ age'[c] <= Backoff
         /\ age[c] < Backoff => age'[c] = age[c] + 1
         /\ age[c] >= Backoff => age'[c] = Backoff
         /\ down'[c] <= down[c] + 1 /\ (alive[c] => down'[c] = 0)
<1>1. age'[c] = AtMost(age[c] + 1, Backoff)
  BY DEF Tick
<1>2. down'[c] = IF alive[c] THEN 0 ELSE AtMost(down[c] + 1, MaxDowntime + 1)
  BY DEF Tick
<1>. QED
  BY <1>1, <1>2, Types, Constants DEF AtMost

\* A downtime stays behind an age it is behind, up to the back-off.
LEMMA TickKeepsOrder ==
  ASSUME TypeInv, Tick, NEW c \in Child, NEW d \in Child,
         down[c] <= age[d], down'[c] <= Backoff
  PROVE  down'[c] <= age'[d]
<1>1. /\ age[d] \in Nat /\ age[d] <= Backoff /\ down[c] \in Nat
      /\ Backoff \in Nat
  BY Types, Constants
<1>2. down'[c] \in Nat /\ down'[c] <= down[c] + 1
  BY TickClocks
<1>3. CASE age[d] < Backoff
  <2>1. age'[d] = age[d] + 1
    BY <1>3, TickClocks
  <2>. QED
    BY <1>1, <1>2, <2>1
<1>4. CASE age[d] = Backoff
  <2>1. age'[d] = Backoff
    BY <1>1, <1>4, TickClocks
  <2>. QED
    BY <2>1
<1>. QED
  BY <1>1, <1>3, <1>4

LEMMA DownTickPoll ==
  ASSUME TypeInv, DownInv, Tick, pc = "poll", Poll <= Backoff
  PROVE  DownInv'
<1>1. /\ timer \in Nat /\ timer > 0 /\ timer' = timer - 1
      /\ UNCHANGED <<alive, pc, next>>
  BY Types DEF Tick
<1>2. ASSUME NEW c \in Child
      PROVE  down'[c] + timer' <= Backoff /\ Poll <= age'[c] + timer'
  <2>1. down[c] + timer <= Backoff /\ Poll <= age[c] + timer
    BY DEF DownInv, BetweenInv
  <2>2. /\ down[c] \in Nat /\ down'[c] \in Nat /\ down'[c] <= down[c] + 1
        /\ age[c] \in Nat /\ age'[c] \in Nat
        /\ age'[c] = age[c] + 1 \/ age'[c] = Backoff
    BY TickClocks, Types, Constants
  <2>3. Poll \in Nat /\ Backoff \in Nat
    BY Constants
  <2>4. down'[c] + timer' <= Backoff
    BY <1>1, <2>1, <2>2, <2>3
  <2>5. Poll <= age'[c] + timer'
    <3>1. CASE age'[c] = age[c] + 1
      BY <1>1, <2>1, <2>2, <2>3, <3>1
    <3>2. CASE age'[c] = Backoff
      BY <1>1, <2>2, <2>3, <3>2
    <3>. QED
      BY <2>2, <3>1, <3>2
  <2>. QED
    BY <2>4, <2>5
<1>3. ASSUME NEW i \in DOMAIN Order, NEW j \in DOMAIN Order, j <= i
      PROVE  down'[Order[i]] <= age'[Order[j]]
  <2>1. Order[i] \in Child /\ Order[j] \in Child
    BY Places
  <2>2. down[Order[i]] <= age[Order[j]]
    BY <1>3 DEF DownInv, OutlivedInv, Together
  <2>3. down'[Order[i]] <= Backoff
    BY <1>1, <1>2, <2>1, TickClocks, Constants
  <2>. QED
    BY <2>1, <2>2, <2>3, TickKeepsOrder
<1>4. ClockInv'
  BY <1>1, TickClocks DEF ClockInv
<1>. QED
  BY <1>1, <1>2, <1>3, <1>4 DEF DownInv, OutlivedInv, Together, BetweenInv, PassInv, InPass

LEMMA DownTickBackoff ==
  ASSUME TypeInv, DownInv, Tick, pc = "backoff", Poll <= Backoff
  PROVE  DownInv'
<1>. DEFINE n == Order[next]
<1>1. /\ timer \in Nat /\ timer > 0 /\ timer' = timer - 1
      /\ UNCHANGED <<alive, pc, next>> /\ next \in Nat \ {0} /\ InPass
  BY Types DEF Tick, InPass
<1>2. next \in DOMAIN Order /\ n \in Child
  <2>1. next \in Nat \ {0} /\ next <= Len(Order)
    BY Types
  <2>. QED
    BY <2>1, Places
<1>3. /\ timer + age[n] = Backoff /\ age[n] < Backoff /\ age'[n] = age[n] + 1
      /\ timer' + age'[n] = Backoff
  BY <1>1, <1>2, TickClocks, Types, Constants DEF DownInv, ClockInv
<1>4. ClockInv'
  BY <1>1, <1>3, TickClocks DEF ClockInv
<1>5. ASSUME NEW j \in DOMAIN Order, j >= next PROVE Poll <= age'[Order[j]]
  <2>1. Order[j] \in Child /\ Poll <= age[Order[j]]
    BY <1>1, <1>5, Places DEF DownInv, PassInv
  <2>2. age[Order[j]] \in Nat /\ age'[Order[j]] \in Nat /\ age'[Order[j]] >= age[Order[j]]
    BY <2>1, TickClocks, Types
  <2>. QED
    BY <2>1, <2>2, Constants
<1>6. ASSUME NEW i \in DOMAIN Order, i < next
      PROVE  /\ Order[i] \in Child /\ down[Order[i]] + Poll <= age[n]
             /\ down'[Order[i]] + Poll <= Backoff
  <2>1. Order[i] \in Child
    BY Places
  <2>2. down[Order[i]] + Poll <= age[n]
    BY <1>1, <1>2, <1>6 DEF DownInv, PassInv
  <2>3. /\ down[Order[i]] \in Nat /\ down'[Order[i]] \in Nat
        /\ down'[Order[i]] <= down[Order[i]] + 1
    BY <2>1, TickClocks, Types
  <2>4. age[n] \in Nat /\ Poll \in Nat /\ Backoff \in Nat
    BY <1>2, Types, Constants
  <2>. QED
    BY <1>3, <2>1, <2>2, <2>3, <2>4
<1>7. ASSUME NEW i \in DOMAIN Order, NEW j \in DOMAIN Order, i < next, j >= next
      PROVE  down'[Order[i]] + Poll <= age'[Order[j]]
  <2>1. Order[i] \in Child /\ Order[j] \in Child
    BY Places
  <2>2. down[Order[i]] + Poll <= age[Order[j]]
    BY <1>1, <1>7 DEF DownInv, PassInv
  <2>3. /\ down[Order[i]] \in Nat /\ down'[Order[i]] \in Nat
        /\ down'[Order[i]] <= down[Order[i]] + 1
    BY <2>1, TickClocks, Types
  <2>4. /\ age[Order[j]] \in Nat
        /\ age'[Order[j]] = age[Order[j]] + 1 \/ age'[Order[j]] = Backoff
    BY <2>1, TickClocks, Types, Constants
  <2>5. down'[Order[i]] + Poll <= Backoff /\ Poll \in Nat
    BY <1>6, <1>7, Constants
  <2>. QED
    BY <2>2, <2>3, <2>4, <2>5
<1>8. ASSUME NEW i \in DOMAIN Order, NEW j \in DOMAIN Order, j <= i, i < next \/ j >= next
      PROVE  down'[Order[i]] <= age'[Order[j]]
  <2>1. Order[i] \in Child /\ Order[j] \in Child /\ i \in Nat /\ j \in Nat
    BY Places
  <2>2. down[Order[i]] <= age[Order[j]]
    BY <1>1, <1>8 DEF DownInv, OutlivedInv, Together
  <2>3. down[Order[i]] <= age[n]
    <3>1. CASE i < next
      BY <1>2, <1>6, <2>1, <3>1, Types, Constants
    <3>2. CASE j >= next
      <4>1. next <= i
        BY <1>1, <1>8, <2>1, <3>2
      <4>. QED
        BY <1>1, <1>2, <4>1 DEF DownInv, OutlivedInv, Together
    <3>. QED
      BY <1>8, <3>1, <3>2
  <2>4. /\ down[Order[i]] \in Nat /\ down'[Order[i]] \in Nat
        /\ down'[Order[i]] <= down[Order[i]] + 1
    BY <2>1, TickClocks, Types
  <2>5. age[n] \in Nat /\ Backoff \in Nat
    BY <1>2, Types, Constants
  <2>6. down'[Order[i]] <= Backoff
    BY <1>3, <2>3, <2>4, <2>5
  <2>. QED
    BY <2>1, <2>2, <2>6, TickKeepsOrder
<1>. QED
  BY <1>1, <1>4, <1>5, <1>6, <1>7, <1>8
     DEF DownInv, OutlivedInv, Together, BetweenInv, PassInv, InPass

LEMMA DownTick ==
  ASSUME TypeInv, DownInv, Tick, Poll <= Backoff
  PROVE  DownInv'
<1>1. CASE pc \notin Running
  <2>1. UNCHANGED <<alive, pc>>
    BY DEF Tick
  <2>. QED
    BY <1>1, <2>1, TickClocks
       DEF DownInv, ClockInv, OutlivedInv, Together, BetweenInv, PassInv, InPass, Running
<1>2. CASE pc \in {"loop", "scan"}
  BY <1>2 DEF Tick, DownInv, ClockInv
<1>. QED
  BY <1>1, <1>2, DownTickPoll, DownTickBackoff DEF Running

\* The pass goes on behind a child that is alive, or has just been started.
LEMMA DownVisit ==
  ASSUME TypeInv, DownInv, SkipAlive \/ Restart, pc' = "scan", Poll <= Backoff
  PROVE  DownInv'
<1>. DEFINE n == Order[next]
<1>1. /\ next \in DOMAIN Order /\ n \in Child /\ next \in Nat \ {0} /\ InPass
  <2>1. next \in Nat \ {0} /\ next <= Len(Order) /\ InPass
    BY Types DEF SkipAlive, Restart, InPass
  <2>. QED
    BY <2>1, Places
<1>2. next' = next + 1 /\ timer' = 0
  BY DEF SkipAlive, Restart, Awake, DownInv, ClockInv
<1>3. down'[n] = 0 /\ age'[n] \in Nat
  <2>1. CASE SkipAlive
    BY <1>1, <2>1, Types DEF SkipAlive, child, DownInv, ClockInv
  <2>2. CASE Restart
    BY <1>1, <2>2 DEF Restart, TypeInv, TypeOK, ChildOK, HistoryOK
  <2>. QED
    BY <2>1, <2>2
<1>4. \A d \in Child \ {n} :
        /\ age'[d] = age[d] /\ down'[d] = down[d] /\ alive'[d] = alive[d]
  BY DEF SkipAlive, Restart, child, TypeInv, TypeOK, ChildOK, HistoryOK
<1>5. \A k \in DOMAIN Order : k \in Nat /\ (k # next => Order[k] \in Child \ {n})
  BY <1>1, Places
<1>6. ClockInv'
  BY <1>2, <1>3, <1>4 DEF DownInv, ClockInv
<1>7. ASSUME NEW j \in DOMAIN Order, j >= next'
      PROVE  /\ j # next /\ j >= next /\ age'[Order[j]] = age[Order[j]]
             /\ Poll <= age'[Order[j]]
  BY <1>1, <1>2, <1>4, <1>5, <1>7 DEF DownInv, PassInv
<1>8. ASSUME NEW i \in DOMAIN Order, i < next'
      PROVE  i = next \/ (i < next /\ down'[Order[i]] = down[Order[i]])
  BY <1>1, <1>2, <1>4, <1>5, <1>8
<1>9. ASSUME NEW i \in DOMAIN Order, i < next'
      PROVE  /\ down'[Order[i]] + Poll <= Backoff
             /\ \A j \in DOMAIN Order : j >= next' => down'[Order[i]] + Poll <= age'[Order[j]]
  <2>1. CASE i = next
    BY <1>3, <1>7, <2>1, Constants
  <2>2. CASE i < next /\ down'[Order[i]] = down[Order[i]]
    BY <1>1, <1>7, <2>2 DEF DownInv, PassInv
  <2>. QED
    BY <1>8, <1>9, <2>1, <2>2
<1>10. ASSUME NEW i \in DOMAIN Order, NEW j \in DOMAIN Order, j <= i, i < next' \/ j >= next'
       PROVE  down'[Order[i]] <= age'[Order[j]]
  <2>1. CASE i = next
    <3>1. j = next \/ age'[Order[j]] = age[Order[j]]
      BY <1>4, <1>5
    <3>. QED
      BY <1>3, <1>5, <2>1, <3>1, Types, Places
  <2>2. CASE i # next
    <3>1. (i < next \/ j > next) /\ j # next
      BY <1>1, <1>2, <1>5, <1>10, <2>2
    <3>2. down[Order[i]] <= age[Order[j]]
      BY <1>1, <1>5, <1>10, <3>1 DEF DownInv, OutlivedInv, Together
    <3>. QED
      BY <1>4, <1>5, <2>2, <3>1, <3>2
  <2>. QED
    BY <2>1, <2>2
<1>. QED
  BY <1>6, <1>7, <1>9, <1>10
     DEF DownInv, OutlivedInv, Together, BetweenInv, PassInv, InPass

\* Outside a pass and between two passes.
LEMMA DownOutside ==
  ASSUME TypeInv, DownInv, UNCHANGED down, pc' \notin Running,
         \A c \in Child : alive'[c] => alive[c]
  PROVE  DownInv'
BY DEF DownInv, ClockInv, OutlivedInv, Together, BetweenInv, PassInv, InPass, Running

LEMMA DownOther ==
  ASSUME TypeInv, DownInv, Poll <= Backoff,
         \/ Signal \/ Loop \/ BeginScan \/ EndScan \/ FindDead
         \/ (\E c \in Child : Exit(c)) \/ UNCHANGED vars
  PROVE  DownInv'
<1>1. CASE Signal \/ UNCHANGED vars
  BY <1>1 DEF Signal, vars, child, self, DownInv, ClockInv, OutlivedInv, Together,
              BetweenInv, PassInv, InPass
<1>2. CASE \E c \in Child : Exit(c)
  <2>1. \A d \in Child : alive'[d] => alive[d]
    BY <1>2 DEF Exit, TypeInv, TypeOK, ChildOK
  <2>2. UNCHANGED <<age, down, pc, next, timer>>
    BY <1>2 DEF Exit, self
  <2>. QED
    BY <2>1, <2>2 DEF DownInv, ClockInv, OutlivedInv, Together, BetweenInv, PassInv, InPass
<1>3. CASE Loop
  <2>1. pc = "loop" /\ UNCHANGED <<alive, age, down, next>>
    BY <1>3 DEF Loop, child
  <2>2. CASE pc' = "terminate"
    BY <2>1, <2>2, DownOutside DEF Running
  <2>3. CASE pc' = "poll" /\ timer' = Poll
    <3>1. BetweenInv'
      BY <2>1, <2>3, Types, Constants DEF DownInv, BetweenInv
    <3>. QED
      BY <2>1, <2>3, <3>1 DEF DownInv, ClockInv, OutlivedInv, Together, PassInv, InPass
  <2>. QED
    BY <1>3, <2>2, <2>3 DEF Loop
<1>4. CASE BeginScan
  <2>1. /\ pc = "poll" /\ timer = 0 /\ pc' = "scan" /\ next' = 1
        /\ UNCHANGED <<alive, age, timer, down>>
    BY <1>4 DEF BeginScan, Awake, child
  <2>2. \A c \in Child : Poll <= age[c]
    BY <2>1, Types, Constants DEF DownInv, BetweenInv
  <2>3. PassInv'
    BY <2>1, <2>2, Places DEF PassInv
  <2>. QED
    BY <2>1, <2>3 DEF DownInv, ClockInv, OutlivedInv, Together, BetweenInv
<1>5. CASE EndScan
  <2>1. /\ pc = "scan" /\ next > Len(Order) /\ next \in Nat /\ pc' = "loop"
        /\ UNCHANGED <<alive, age, timer, down>>
    BY <1>5, Types DEF EndScan, child
  <2>2. \A k \in DOMAIN Order : k < next
    BY <2>1, Places, Constants
  <2>3. \A c \in Child : down[c] + Poll <= Backoff
    BY <2>1, <2>2, Places DEF DownInv, PassInv, InPass
  <2>. QED
    BY <2>1, <2>2, <2>3 DEF DownInv, ClockInv, OutlivedInv, Together, BetweenInv, PassInv, InPass
<1>6. CASE FindDead
  <2>1. /\ pc = "scan" /\ pc' = "backoff" /\ UNCHANGED <<alive, age, next, down>>
        /\ timer' = Backoff - age[Order[next]] /\ Order[next] \in Child
    BY <1>6, Types, Places DEF FindDead, child
  <2>2. timer' + age'[Order[next']] = Backoff
    BY <2>1, Types, Constants
  <2>. QED
    BY <2>1, <2>2 DEF DownInv, ClockInv, OutlivedInv, Together, BetweenInv, PassInv, InPass
<1>. QED
  BY <1>1, <1>2, <1>3, <1>4, <1>5, <1>6

LEMMA DownNext == ASSUME TypeInv, DownInv, [Next]_vars, Poll <= Backoff PROVE DownInv'
<1>1. CASE SkipAlive \/ Restart
  <2>1. pc' = "scan" \/ (pc' \notin Running /\ UNCHANGED <<alive, down>>)
    BY <1>1 DEF SkipAlive, Restart, Running
  <2>. QED
    BY <1>1, <2>1, DownVisit, DownOutside
<1>2. CASE Terminate \/ Reap \/ Ended
  <2>1. pc' \notin Running /\ UNCHANGED down
    BY <1>2 DEF Terminate, Reap, Ended, Running
  <2>2. \A c \in Child : alive'[c] => alive[c]
    BY <1>2 DEF Terminate, Reap, Ended, child, TypeInv, TypeOK, ChildOK
  <2>. QED
    BY <2>1, <2>2, DownOutside
<1>. QED
  BY <1>1, <1>2, DownTick, DownOther DEF Next, Supervise

\* With a poll that is no longer than the back-off, no child waits longer than
\* one back-off for its restart, however many children there are and however
\* they die: the sleeps of the loop run together.
THEOREM OneBackoffAtMost ==
  ASSUME Poll <= Backoff, Backoff <= MaxDowntime
  PROVE  Spec => []DowntimeIsBounded
<1>1. Init => DownInv
  <2>. SUFFICES ASSUME Init PROVE DownInv
    OBVIOUS
  <2>1. /\ pc = "loop" /\ timer = 0
        /\ \A c \in Child : age[c] = 0 /\ down[c] = 0
    BY DEF Init
  <2>. QED
    BY <2>1, Places, Constants
       DEF DownInv, ClockInv, OutlivedInv, BetweenInv, PassInv, InPass
<1>2. TypeInv /\ DownInv => DowntimeIsBounded
  <2>. SUFFICES ASSUME TypeInv, DownInv, pc \in Running, NEW c \in Child
                PROVE  down[c] <= MaxDowntime
    BY DEF DowntimeIsBounded
  <2>1. CASE pc \in {"loop", "poll"}
    BY <2>1, Types, Constants DEF DownInv, BetweenInv
  <2>2. CASE InPass
    <3>1. PICK k \in DOMAIN Order : Order[k] = c
      BY Places
    <3>2. CASE k < next
      BY <2>2, <3>1, <3>2, Types, Constants DEF DownInv, PassInv
    <3>3. CASE k >= next
      BY <2>2, <3>1, <3>3, Types, Places, Constants DEF DownInv, OutlivedInv, Together
    <3>. QED
      BY <3>1, <3>2, <3>3, Places, Types
  <2>. QED
    BY <2>1, <2>2 DEF Running, InPass
<1>. QED
  BY <1>1, <1>2, DownNext, InitTypeInv, NextTypeInv, PTL DEF Spec
=============================================================================
