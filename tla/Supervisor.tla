----------------------------- MODULE Supervisor -----------------------------
(***************************************************************************)
(* The process supervisor (freshet/ops/supervisor.py): one thread that     *)
(* polls its children, sleeps off the restart back-off of each dead one in *)
(* turn, restarts it, halts when a child keeps dying young, and shuts all  *)
(* of them down.                                                           *)
(*                                                                         *)
(* Time is discrete and passes only while the supervisor sleeps; children  *)
(* die, and signals arrive, at any moment.  Ages matter only up to the     *)
(* back-off, so they stop counting there.                                  *)
(***************************************************************************)
EXTENDS Integers, Sequences

CONSTANTS
  Order,        \* the children, in the order of the list
  Backoff,      \* RESTART_BACKOFF_S
  FastDeath,    \* FAST_DEATH_S
  MaxFast,      \* MAX_FAST_DEATHS
  Poll,         \* POLL_INTERVAL_S
  Slack,        \* how long before FAST_DEATH_S a death counts as young in `young`
  MaxDowntime,  \* the longest outage of one child that is acceptable
  Unkillable    \* children that survive SIGKILL (a process stuck in the kernel)

Child == {Order[k] : k \in DOMAIN Order}

ASSUME SupervisorAssumption ==
  /\ Order \in Seq(Child) /\ \A k, n \in DOMAIN Order : Order[k] = Order[n] => k = n
  /\ Backoff \in Nat /\ FastDeath \in Nat /\ FastDeath <= Backoff
  /\ MaxFast \in Nat \ {0} /\ Poll \in Nat \ {0}
  /\ Slack \in Nat /\ MaxDowntime \in Nat /\ Unkillable \subseteq Child

VARIABLES
  alive,      \* child.proc has not exited
  age,        \* time since child.started_at, up to Backoff
  fast,       \* child.fast_deaths
  pc,         \* where supervise() is
  next,       \* the position in the list its for loop has reached
  timer,      \* what is left of the sleep it is in
  waited,     \* the local `waited`
  stopping,   \* SIGTERM or SIGINT has arrived
  halted,     \* DependencyDown was raised
  \* history used only to state properties
  young,      \* deaths in a row within FastDeath - Slack of their start
  down        \* how long the child has been dead, up to MaxDowntime + 1

child == <<alive, age, fast>>
self == <<pc, next, timer, waited, stopping, halted>>
vars == <<child, self, young, down>>

PC == {"loop", "poll", "scan", "backoff", "terminate", "wait", "ended"}
Running == {"loop", "poll", "scan", "backoff"}
AtMost(n, bound) == IF n < bound THEN n ELSE bound

Init ==
  /\ alive = [c \in Child |-> TRUE]
  /\ age = [c \in Child |-> 0]
  /\ fast = [c \in Child |-> 0]
  /\ pc = "loop" /\ next = 1 /\ timer = 0 /\ waited = 0
  /\ stopping = FALSE /\ halted = FALSE
  /\ young = [c \in Child |-> 0]
  /\ down = [c \in Child |-> 0]

----------------------------------------------------------------------------
(* The environment. *)

\* A child exits, by a crash or on its own.
Exit(c) ==
  /\ alive[c]
  /\ alive' = [alive EXCEPT ![c] = FALSE]
  /\ young' = [young EXCEPT ![c] = IF age[c] + Slack < FastDeath THEN AtMost(@ + 1, MaxFast)
                                                                 ELSE 0]
  /\ UNCHANGED <<age, fast, self, down>>

\* The signal handler sets a flag that only the top of the loop reads.
Signal ==
  /\ pc \in Running /\ ~stopping
  /\ stopping' = TRUE
  /\ UNCHANGED <<child, pc, next, timer, waited, halted, young, down>>

Tick ==
  /\ timer > 0
  /\ timer' = timer - 1
  /\ age' = [c \in Child |-> AtMost(age[c] + 1, Backoff)]
  /\ down' = [c \in Child |-> IF alive[c] THEN 0 ELSE AtMost(down[c] + 1, MaxDowntime + 1)]
  /\ UNCHANGED <<alive, fast, pc, next, waited, stopping, halted, young>>

----------------------------------------------------------------------------
(* supervise. *)

Awake == timer = 0

\* Seeded bug: the flag is never read.
LoopForever ==
  /\ pc = "loop"
  /\ pc' = "poll"
  /\ timer' = Poll
  /\ UNCHANGED <<child, next, waited, stopping, halted, young, down>>

\* The loop's condition, then sleep(poll_s).
Loop ==
  /\ pc = "loop"
  /\ pc' = IF stopping THEN "terminate" ELSE "poll"
  /\ timer' = IF stopping THEN 0 ELSE Poll
  /\ UNCHANGED <<child, next, waited, stopping, halted, young, down>>

\* Seeded bug: the first child of the list is not looked at.
BeginScanSecond ==
  /\ pc = "poll" /\ Awake
  /\ pc' = "scan" /\ next' = 2
  /\ UNCHANGED <<child, timer, waited, stopping, halted, young, down>>

BeginScan ==
  /\ pc = "poll" /\ Awake
  /\ pc' = "scan" /\ next' = 1
  /\ UNCHANGED <<child, timer, waited, stopping, halted, young, down>>

EndScan ==
  /\ pc = "scan" /\ next > Len(Order)
  /\ pc' = "loop"
  /\ UNCHANGED <<child, next, timer, waited, stopping, halted, young, down>>

\* child.proc.poll() is None.
SkipAlive ==
  /\ pc = "scan" /\ next <= Len(Order) /\ alive[Order[next]]
  /\ next' = next + 1
  /\ UNCHANGED <<child, pc, timer, waited, stopping, halted, young, down>>

\* Seeded bug: the child is restarted without sleeping first.
FindDeadNoSleep ==
  /\ pc = "scan" /\ next <= Len(Order) /\ ~alive[Order[next]]
  /\ waited' = age[Order[next]]
  /\ timer' = 0
  /\ pc' = "backoff"
  /\ UNCHANGED <<child, next, stopping, halted, young, down>>

\* Seeded bug: what the child has lived is added to the sleep.
FindDeadAdds ==
  /\ pc = "scan" /\ next <= Len(Order) /\ ~alive[Order[next]]
  /\ waited' = age[Order[next]]
  /\ timer' = Backoff + age[Order[next]]
  /\ pc' = "backoff"
  /\ UNCHANGED <<child, next, stopping, halted, young, down>>

\* A dead child: measure from its start, and sleep off what is left.
FindDead ==
  /\ pc = "scan" /\ next <= Len(Order) /\ ~alive[Order[next]]
  /\ waited' = age[Order[next]]
  /\ timer' = Backoff - age[Order[next]]
  /\ pc' = "backoff"
  /\ UNCHANGED <<child, next, stopping, halted, young, down>>

\* Seeded bug: a long life does not end the row of fast deaths.
FastCountForever(c) == IF waited < FastDeath THEN fast[c] + 1 ELSE fast[c]

FastCount(c) == IF waited < FastDeath THEN fast[c] + 1 ELSE 0

\* The sleep is over: halt, or _start the child and go on with the next one.
Restart ==
  LET c == Order[next] IN
  /\ pc = "backoff" /\ Awake
  /\ fast' = [fast EXCEPT ![c] = FastCount(c)]
  /\ IF FastCount(c) >= MaxFast
       THEN /\ halted' = TRUE /\ pc' = "terminate"
            /\ UNCHANGED <<alive, age, next, down>>
       ELSE /\ alive' = [alive EXCEPT ![c] = TRUE]
            /\ age' = [age EXCEPT ![c] = 0]
            /\ down' = [down EXCEPT ![c] = 0]
            /\ next' = next + 1 /\ pc' = "scan"
            /\ UNCHANGED halted
  /\ UNCHANGED <<timer, waited, stopping, young>>

----------------------------------------------------------------------------
(* _shutdown. *)

\* SIGTERM to every child.
Terminate ==
  /\ pc = "terminate"
  /\ pc' = "wait" /\ next' = 1
  /\ UNCHANGED <<child, timer, waited, stopping, halted, young, down>>

\* Seeded bug: a child that survives its wait ends the shutdown.
ReapStuck ==
  /\ pc = "wait" /\ next <= Len(Order)
  /\ IF Order[next] \in Unkillable
       THEN next' = Len(Order) + 1 /\ UNCHANGED alive
       ELSE next' = next + 1 /\ alive' = [alive EXCEPT ![Order[next]] = FALSE]
  /\ UNCHANGED <<age, fast, pc, timer, waited, stopping, halted, young, down>>

\* proc.wait: the child exits within 20 s, or is killed, or survives even that.
Reap ==
  /\ pc = "wait" /\ next <= Len(Order)
  /\ IF Order[next] \in Unkillable THEN UNCHANGED alive
     ELSE alive' = [alive EXCEPT ![Order[next]] = FALSE]
  /\ next' = next + 1
  /\ UNCHANGED <<age, fast, pc, timer, waited, stopping, halted, young, down>>

Ended ==
  /\ pc = "wait" /\ next > Len(Order)
  /\ pc' = "ended"
  /\ UNCHANGED <<child, next, timer, waited, stopping, halted, young, down>>

----------------------------------------------------------------------------

Supervise ==
  \/ Loop \/ BeginScan \/ EndScan \/ SkipAlive \/ FindDead \/ Restart
  \/ Terminate \/ Reap \/ Ended

Next == Supervise \/ Tick \/ Signal \/ \E c \in Child : Exit(c)

Spec == Init /\ [][Next]_vars

\* The supervisor runs and its sleeps end; children and signals do as they like.
FairSpec == Spec /\ WF_vars(Supervise) /\ WF_vars(Tick)

----------------------------------------------------------------------------
(* Properties. *)

ChildOK ==
  /\ alive \in [Child -> BOOLEAN] /\ age \in [Child -> 0 .. Backoff]
  /\ fast \in [Child -> 0 .. MaxFast]
LoopOK ==
  /\ pc \in PC /\ next \in 1 .. Len(Order) + 1
  /\ timer \in Nat /\ (timer <= Backoff \/ timer <= Poll)
  /\ waited \in 0 .. Backoff
  /\ stopping \in BOOLEAN /\ halted \in BOOLEAN
HistoryOK ==
  young \in [Child -> 0 .. MaxFast] /\ down \in [Child -> 0 .. MaxDowntime + 1]

\* Every variable has its type; a sleep is never longer than the back-off.
TypeOK == ChildOK /\ LoopOK /\ HistoryOK

\* "Restarts are throttled at RESTART_BACKOFF_S": two starts of a child are at
\* least a back-off apart, whoever else had to be waited for in between.
RestartsAreThrottled ==
  [][\A c \in Child : ~alive[c] /\ alive'[c] => age[c] >= Backoff]_vars

\* The supervisor sleeps for one child at a time while the others stay dead, but
\* the back-offs run together: no child is down for longer than MaxDowntime (one
\* back-off, far below the gap the heartbeats tolerate) because others died too.
DowntimeIsBounded == \A c \in Child : pc \in Running => down[c] <= MaxDowntime

\* DependencyDown is no false alarm: some child really died MaxFast times in a
\* row within FAST_DEATH_S of its start.
HaltMeansOutage == halted => \E c \in Child : young[c] >= MaxFast

\* "if one child dies max_fast_deaths times in a row within fast_death_s of its
\* own start" the supervisor stops instead of starting it again.
OutageHalts ==
  [][\A c \in Child : ~alive[c] /\ alive'[c] => young[c] < MaxFast]_vars

\* Neither a halt nor a stop leaves a child of this run alive, one that even
\* SIGKILL cannot end excepted.
NoOrphans == pc = "ended" => \A c \in Child : alive[c] => c \in Unkillable

\* A dead child is started again, or the supervisor ends.
DeadIsRestarted == \A c \in Child : ~alive[c] ~> (alive[c] \/ pc = "ended")

\* A stop signal is obeyed although back-offs have to be slept off first.
SignalIsObeyed == stopping ~> pc = "ended"
=============================================================================
