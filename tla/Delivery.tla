------------------------------ MODULE Delivery ------------------------------
(***************************************************************************)
(* The autopilot's delivery engine: freshet/autopilot/consumer.py driven   *)
(* by consume_loop (freshet/common/kafka_io.py) against the `incidents`    *)
(* table and the Slack sink.                                               *)
(*                                                                         *)
(* An incident owes up to three messages, its slots: the opening brief,    *)
(* one in-progress update and the postmortem.  Each slot of a row has an   *)
(* "owed" mark (brief_due_at IS NOT NULL, progress_needed,                 *)
(* postmortem_needed), a lease (briefed_at, progress_at, postmortem_at)    *)
(* and a delivered mark (brief_delivered_at, ...).  A worker handles one   *)
(* lifecycle event, drains what is due, then commits the offset.  Every    *)
(* SQL statement, LLM call and sink call is a step of its own, so two      *)
(* workers, the embedder, the clock and a crash interleave between them.   *)
(*                                                                         *)
(* Time is counted down rather than up: lease[i][s] is what is left of the *)
(* LEASE_MINUTES window (0 means NULL or expired, which every statement    *)
(* treats alike) and dueIn[i] is what is left of the debounce.             *)
(***************************************************************************)
EXTENDS Integers, Sequences, FiniteSets

CONSTANTS
  Incident,               \* incident ids; each is the key of its own partition
  Worker,                 \* autopilot processes in the consumer group
  None,                   \* SQL NULL, and "no message in hand"
  Logs,                   \* the lifecycle logs a partition may hold
  OldTs,                  \* events with ts <= OldTs are past MAX_BRIEF_AGE_S
  LeaseTicks,             \* LEASE_MINUTES, in clock ticks
  Debounce,               \* the debounce window_s, in clock ticks
  DrainLimit,             \* the `limit` of the drain queries
  MaxFaults,              \* bound on injected faults of all kinds
  LeaseOutlivesDelivery   \* TRUE: no lease runs out under a live claimant

Slot == {"brief", "progress", "postmortem"}
EventType == {"opened", "in_progress", "resolved"}
Event == [type : EventType, ts : Int]
Message == [slot : Slot, thread : Nat]

ASSUME DeliveryAssumption ==
  /\ None \notin Incident /\ None \notin Int
  /\ Logs \subseteq Seq(Event)
  /\ OldTs \in Int
  /\ LeaseTicks \in Nat \ {0}
  /\ Debounce \in Nat
  /\ DrainLimit \in Nat \ {0}
  /\ MaxFaults \in Nat
  /\ LeaseOutlivesDelivery \in BOOLEAN

VARIABLES
  \* the incidents table
  opened,      \* opened_at, None when the row does not exist
  resolvedAt,  \* resolved_at
  dueIn,       \* ticks until brief_due_at (meaningful while the brief is owed)
  needed,      \* brief_due_at IS NOT NULL / progress_needed / postmortem_needed
  delivered,   \* *_delivered_at IS NOT NULL
  lease,       \* ticks left of briefed_at / progress_at / postmortem_at
  slackTs,     \* slack_ts, the thread's root: a position in posts, 0 for NULL
  \* the lifecycle topic and its consumer group
  log, committed, owner, fenced,
  \* the workers
  pc, phase, src, off, cur, slot, todo, thread, exc,
  \* what the channel shows, and history used only to state properties
  posts,       \* the messages Slack accepted, in order
  lost,        \* posts whose mark never came: crash, lost reply, failed mark
  faults       \* injected faults so far

row    == <<opened, resolvedAt, dueIn, needed, delivered, lease, slackTs>>
topic  == <<log, committed, owner, fenced>>
local  == <<phase, src, off, cur, slot, todo, thread, exc>>
channel == <<posts, lost>>
vars   == <<row, topic, pc, local, channel, faults>>

----------------------------------------------------------------------------

PC == {"poll", "handle", "ensure", "schedule", "resolve", "defer", "claim",
       "gather", "post", "mark", "release", "drain", "briefs", "next",
       "owed_postmortem", "commit", "down"}

\* Between a won claim and its mark or release a worker works on the slot.
Holding(w) == pc[w] \in {"gather", "post", "mark", "release"}
HoldsSlot(w, i, s) == Holding(w) /\ cur[w] = i /\ slot[w] = s

Ev(w) == log[src[w]][off[w]]

\* age > MAX_BRIEF_AGE_S: only an `opened` event is tested for it.
Aged(ev) == ev.ts <= OldTs
\* an event older than the row's opened_at is skipped as stale.
Stale(i, ev) == opened[i] # None /\ ev.ts < opened[i]

\* The slot a follow-up event asks for.
FollowUp(ev) == IF ev.type = "in_progress" THEN "progress" ELSE "postmortem"

\* Seeded bugs for Claimable: a claim statement that lost one of its conditions.
ClaimableLeased(i, s) ==
  ~delivered[i][s] /\ (s # "brief" => delivered[i]["brief"])
ClaimableUnbriefed(i, s) == ~delivered[i][s] /\ lease[i][s] = 0
ClaimableDelivered(i, s) ==
  (s # "brief" => delivered[i]["brief"]) /\ lease[i][s] = 0

\* The WHERE clause the five claim statements share.
Claimable(i, s) ==
  /\ ~delivered[i][s]
  /\ s # "brief" => delivered[i]["brief"]
  /\ lease[i][s] = 0

DueBriefs == {i \in Incident : /\ needed[i]["brief"] /\ dueIn[i] = 0
                               /\ ~delivered[i]["brief"]}
\* Seeded bug: the query forgets what the claim will ask for.
PendingUnfiltered == {i \in Incident : \E s \in Slot \ {"brief"} :
                                        needed[i][s] /\ ~delivered[i][s]}
PendingFollowups ==
  {i \in Incident : \E s \in Slot \ {"brief"} : needed[i][s] /\ Claimable(i, s)}

\* The rows a query with LIMIT may return.
Limited(S) ==
  {T \in SUBSET S : \/ Cardinality(T) = DrainLimit
                    \/ T = S /\ Cardinality(S) < DrainLimit}

Goto(w, l) == pc' = [pc EXCEPT ![w] = l]
Fault == faults < MaxFaults /\ faults' = faults + 1

\* A fresh process: nothing in hand.
Forget(w) ==
  /\ phase' = [phase EXCEPT ![w] = "handle"]
  /\ src' = [src EXCEPT ![w] = None]
  /\ off' = [off EXCEPT ![w] = 0]
  /\ cur' = [cur EXCEPT ![w] = None]
  /\ slot' = [slot EXCEPT ![w] = "brief"]
  /\ todo' = [todo EXCEPT ![w] = {}]
  /\ thread' = [thread EXCEPT ![w] = 0]

----------------------------------------------------------------------------
(* consume_loop: poll, handle, drain, commit. *)

Init ==
  /\ opened = [i \in Incident |-> None]
  /\ resolvedAt = [i \in Incident |-> None]
  /\ dueIn = [i \in Incident |-> 0]
  /\ needed = [i \in Incident |-> [s \in Slot |-> FALSE]]
  /\ delivered = [i \in Incident |-> [s \in Slot |-> FALSE]]
  /\ lease = [i \in Incident |-> [s \in Slot |-> 0]]
  /\ slackTs = [i \in Incident |-> 0]
  /\ log \in [Incident -> Logs]
  /\ committed = [i \in Incident |-> 0]
  /\ owner \in [Incident -> Worker]
  /\ fenced = [w \in Worker |-> FALSE]
  /\ pc = [w \in Worker |-> "poll"]
  /\ phase = [w \in Worker |-> "handle"]
  /\ src = [w \in Worker |-> None]
  /\ off = [w \in Worker |-> 0]
  /\ cur = [w \in Worker |-> None]
  /\ slot = [w \in Worker |-> "brief"]
  /\ todo = [w \in Worker |-> {}]
  /\ thread = [w \in Worker |-> 0]
  /\ exc = [w \in Worker |-> "none"]
  /\ posts = [i \in Incident |-> << >>]
  /\ lost = [i \in Incident |-> [s \in Slot |-> 0]]
  /\ faults = 0

\* poll returns the first uncommitted event of a partition the worker owns.
Receive(w) ==
  /\ pc[w] = "poll"
  /\ \E i \in Incident :
       /\ owner[i] = w
       /\ committed[i] < Len(log[i])
       /\ src' = [src EXCEPT ![w] = i]
       /\ cur' = [cur EXCEPT ![w] = i]
       /\ off' = [off EXCEPT ![w] = committed[i] + 1]
  /\ fenced' = [fenced EXCEPT ![w] = FALSE]
  /\ Goto(w, "handle")
  /\ UNCHANGED <<row, log, committed, owner, phase, slot, todo, thread, exc,
                 channel, faults>>

\* poll returned None and the DrainThrottle let the idle tick through.
IdleTick(w) ==
  /\ pc[w] = "poll"
  /\ fenced' = [fenced EXCEPT ![w] = FALSE]
  /\ Goto(w, "drain")
  /\ UNCHANGED <<row, log, committed, owner, local, channel, faults>>

\* Seeded bug: the commit takes the next message along, unhandled.
CommitAhead(w) ==
  /\ pc[w] = "commit"
  /\ committed' = [committed EXCEPT ![src[w]] = off[w] + 1]
  /\ Goto(w, "poll")
  /\ Forget(w)
  /\ UNCHANGED <<row, log, owner, fenced, exc, channel, faults>>

\* Seeded bug: the commit stores the offset before the message in hand.
CommitBehind(w) ==
  /\ pc[w] = "commit"
  /\ committed' = [committed EXCEPT ![src[w]] = off[w] - 1]
  /\ Goto(w, "poll")
  /\ Forget(w)
  /\ UNCHANGED <<row, log, owner, fenced, exc, channel, faults>>

\* The synchronous commit; a member the group has expelled gets an exception.
Commit(w) ==
  /\ pc[w] = "commit"
  /\ IF fenced[w]
       THEN /\ Goto(w, "down")
            /\ exc' = [exc EXCEPT ![w] = "error"]
            /\ UNCHANGED committed
       ELSE /\ committed' = [committed EXCEPT ![src[w]] = off[w]]
            /\ Goto(w, "poll")
            /\ UNCHANGED exc
  /\ Forget(w)
  /\ UNCHANGED <<row, log, owner, fenced, channel, faults>>

\* The supervisor starts the process again.
Restart(w) ==
  /\ pc[w] = "down"
  /\ Goto(w, "poll")
  /\ exc' = [exc EXCEPT ![w] = "none"]
  /\ UNCHANGED <<row, topic, phase, src, off, cur, slot, todo, thread, channel,
                 faults>>

----------------------------------------------------------------------------
(* handle_lifecycle: persist the intent, then try the delivery. *)

\* ensure_incident: the first writer fixes opened_at for good.
Ensure(i, ts) ==
  opened' = IF opened[i] = None THEN [opened EXCEPT ![i] = ts] ELSE opened

HandleOpened(w) ==
  /\ pc[w] = "handle"
  /\ Ev(w).type = "opened"
  /\ IF Aged(Ev(w))
       THEN Goto(w, "drain") /\ UNCHANGED opened
       ELSE Ensure(cur[w], Ev(w).ts) /\ Goto(w, "schedule")
  /\ UNCHANGED <<resolvedAt, dueIn, needed, delivered, lease, slackTs, topic,
                 local, channel, faults>>

\* SELECT opened_at: decides whether the event is stale.
CheckStale(w) ==
  /\ pc[w] = "handle"
  /\ Ev(w).type # "opened"
  /\ Goto(w, IF Stale(cur[w], Ev(w)) THEN "drain"
             ELSE IF Ev(w).type = "in_progress" THEN "ensure" ELSE "resolve")
  /\ UNCHANGED <<row, topic, local, channel, faults>>

EnsureForProgress(w) ==
  /\ pc[w] = "ensure"
  /\ Ensure(cur[w], Ev(w).ts)
  /\ Goto(w, "schedule")
  /\ UNCHANGED <<resolvedAt, dueIn, needed, delivered, lease, slackTs, topic,
                 local, channel, faults>>

\* _SCHEDULE_SQL leaves a delivered brief and a running debounce alone.
Schedule(w) ==
  LET i == cur[w] IN
  /\ pc[w] = "schedule"
  /\ IF delivered[i]["brief"] \/ needed[i]["brief"]
       THEN UNCHANGED <<needed, dueIn>>
       ELSE /\ needed' = [needed EXCEPT ![i]["brief"] = TRUE]
            /\ dueIn' = [dueIn EXCEPT ![i] = Debounce]
  /\ Goto(w, IF Ev(w).type = "opened" THEN "drain" ELSE "defer")
  /\ UNCHANGED <<opened, resolvedAt, delivered, lease, slackTs, topic, local,
                 channel, faults>>

\* _MARK_RESOLVED_SQL: the first resolution is kept; no row, no effect.
MarkResolved(w) ==
  LET i == cur[w] IN
  /\ pc[w] = "resolve"
  /\ resolvedAt' = IF opened[i] # None /\ resolvedAt[i] = None
                     THEN [resolvedAt EXCEPT ![i] = Ev(w).ts] ELSE resolvedAt
  /\ Goto(w, "defer")
  /\ UNCHANGED <<opened, dueIn, needed, delivered, lease, slackTs, topic, local,
                 channel, faults>>

\* Seeded bugs: owing a follow-up only to a briefed incident, and owing again
\* what was delivered.
DeferBriefed(w) ==
  LET i == cur[w] s == FollowUp(Ev(w)) IN
  /\ pc[w] = "defer"
  /\ needed' = IF delivered[i]["brief"] /\ ~delivered[i][s]
                 THEN [needed EXCEPT ![i][s] = TRUE] ELSE needed
  /\ Goto(w, "claim")
  /\ UNCHANGED <<opened, resolvedAt, dueIn, delivered, lease, slackTs, topic,
                 local, channel, faults>>
DeferAgain(w) ==
  /\ pc[w] = "defer"
  /\ needed' = [needed EXCEPT ![cur[w]][FollowUp(Ev(w))] = TRUE]
  /\ Goto(w, "claim")
  /\ UNCHANGED <<opened, resolvedAt, dueIn, delivered, lease, slackTs, topic,
                 local, channel, faults>>

\* _DEFER_PROGRESS_SQL and _DEFER_POSTMORTEM_SQL.
Defer(w) ==
  LET i == cur[w] s == FollowUp(Ev(w)) IN
  /\ pc[w] = "defer"
  /\ needed' = IF opened[i] # None /\ ~delivered[i][s]
                 THEN [needed EXCEPT ![i][s] = TRUE] ELSE needed
  /\ Goto(w, "claim")
  /\ UNCHANGED <<opened, resolvedAt, dueIn, delivered, lease, slackTs, topic,
                 local, channel, faults>>

----------------------------------------------------------------------------
(* One leased delivery: claim, gather, post, then mark or release. *)

\* UPDATE ... RETURNING.  ResilientConnection repeats a statement whose reply
\* was lost; the repeat sees its own lease and returns no row.
Claim(w, i, s, wanted, otherwise) ==
  /\ cur' = [cur EXCEPT ![w] = i]
  /\ slot' = [slot EXCEPT ![w] = s]
  /\ thread' = [thread EXCEPT ![w] = slackTs[i]]
  /\ \/ /\ wanted /\ Claimable(i, s)
        /\ lease' = [lease EXCEPT ![i][s] = LeaseTicks]
        /\ Goto(w, "gather")
        /\ UNCHANGED faults
     \/ /\ wanted /\ Claimable(i, s) /\ Fault
        /\ lease' = [lease EXCEPT ![i][s] = LeaseTicks]
        /\ Goto(w, otherwise)
     \/ /\ ~(wanted /\ Claimable(i, s))
        /\ Goto(w, otherwise)
        /\ UNCHANGED <<lease, faults>>
  /\ UNCHANGED <<opened, resolvedAt, dueIn, needed, delivered, slackTs, topic,
                 src, off, exc, channel>>

\* claim_progress and claim_postmortem on the handler's path.
ClaimFollowup(w) ==
  /\ pc[w] = "claim"
  /\ Claim(w, cur[w], FollowUp(Ev(w)), TRUE, "drain")
  /\ UNCHANGED <<phase, todo>>

\* Evidence and narrative.  The handler's path reads slack_ts here.
Gather(w) ==
  /\ pc[w] = "gather"
  /\ thread' = IF phase[w] = "handle"
                 THEN [thread EXCEPT ![w] = slackTs[cur[w]]] ELSE thread
  /\ Goto(w, "post")
  /\ UNCHANGED <<row, topic, phase, src, off, cur, slot, todo, exc, channel,
                 faults>>

\* BudgetExhausted is re-raised by _summarise; a query may fail for good.
GatherFails(w) ==
  /\ pc[w] = "gather"
  /\ Fault
  /\ \E e \in {"budget", "error"} : exc' = [exc EXCEPT ![w] = e]
  /\ Goto(w, "release")
  /\ UNCHANGED <<row, topic, phase, src, off, cur, slot, todo, thread, channel>>

\* chat.postMessage accepted the message.
Show(w) == posts' = [posts EXCEPT ![cur[w]] = Append(@,
             [slot |-> slot[w],
              thread |-> IF slot[w] = "brief" THEN 0 ELSE thread[w]])]
LoseMark(w) == lost' = [lost EXCEPT ![cur[w]][slot[w]] = @ + 1]

\* deliver() returns the ts of the post, kept for the brief's mark.
Post(w) ==
  /\ pc[w] = "post"
  /\ Show(w)
  /\ thread' = IF slot[w] = "brief"
                 THEN [thread EXCEPT ![w] = Len(posts'[cur[w]])] ELSE thread
  /\ Goto(w, "mark")
  /\ UNCHANGED <<row, topic, phase, src, off, cur, slot, todo, exc, lost, faults>>

\* An attempt of the sink's retry loop fails, whether or not Slack took the
\* message; after the last attempt deliver raises.
PostFails(w) ==
  /\ pc[w] = "post"
  /\ Fault
  /\ \/ Show(w) /\ LoseMark(w) /\ UNCHANGED <<pc, exc>>
     \/ /\ (UNCHANGED channel \/ (Show(w) /\ LoseMark(w)))
        /\ exc' = [exc EXCEPT ![w] = "error"]
        /\ Goto(w, "release")
  /\ UNCHANGED <<row, topic, phase, src, off, cur, slot, todo, thread>>

\* Where a worker goes on once a slot is settled.
AfterMark(w) ==
  CASE phase[w] = "handle"                               -> "drain"
    [] phase[w] = "briefs"                               -> "briefs"
    [] phase[w] = "followups" /\ slot[w] = "progress"    -> "owed_postmortem"
    [] phase[w] = "followups" /\ slot[w] # "progress"    -> "next"

\* _MARK_BRIEF_SQL, _MARK_PROGRESS_SQL and _MARK_POSTMORTEM_SQL.
Mark(w) ==
  LET i == cur[w] s == slot[w] IN
  /\ pc[w] = "mark"
  /\ delivered' = [delivered EXCEPT ![i][s] = TRUE]
  /\ needed' = [needed EXCEPT ![i][s] = FALSE]
  /\ slackTs' = IF s = "brief" THEN [slackTs EXCEPT ![i] = thread[w]] ELSE slackTs
  /\ Goto(w, AfterMark(w))
  /\ UNCHANGED <<opened, resolvedAt, dueIn, lease, topic, local, channel, faults>>

\* Only the handler's mark sits inside the try, so only there does a failed
\* UPDATE reach the release; on the drain's path it ends the process (Crash).
MarkFails(w) ==
  /\ pc[w] = "mark" /\ phase[w] = "handle"
  /\ Fault
  /\ LoseMark(w)
  /\ exc' = [exc EXCEPT ![w] = "error"]
  /\ Goto(w, "release")
  /\ UNCHANGED <<row, topic, phase, src, off, cur, slot, todo, thread, posts>>

\* The except branches: the lease goes back whoever holds it now, then the
\* exception goes on; only a drain catches BudgetExhausted, and breaks its loop.
Release(w) ==
  LET caught == exc[w] = "budget" /\ phase[w] # "handle" IN
  /\ pc[w] = "release"
  /\ lease' = [lease EXCEPT ![cur[w]][slot[w]] = 0]
  /\ IF caught
       THEN /\ Goto(w, IF phase[w] = "briefs" THEN "briefs" ELSE "next")
            /\ todo' = [todo EXCEPT ![w] = {}]
            /\ exc' = [exc EXCEPT ![w] = "none"]
            /\ UNCHANGED <<phase, src, off, cur, slot, thread>>
       ELSE Goto(w, "down") /\ Forget(w) /\ UNCHANGED exc
  /\ UNCHANGED <<opened, resolvedAt, dueIn, needed, delivered, slackTs, topic,
                 channel, faults>>

----------------------------------------------------------------------------
(* drain_due_briefs and drain_pending_followups. *)

\* due_incidents: a snapshot of the due rows.
SelectDue(w) ==
  /\ pc[w] = "drain"
  /\ \E S \in Limited(DueBriefs) : todo' = [todo EXCEPT ![w] = S]
  /\ phase' = [phase EXCEPT ![w] = "briefs"]
  /\ Goto(w, "briefs")
  /\ UNCHANGED <<row, topic, src, off, cur, slot, thread, exc, channel, faults>>

\* claim_incident; the held ones are skipped.
ClaimBrief(w) ==
  /\ pc[w] = "briefs"
  /\ \E i \in todo[w] :
       /\ todo' = [todo EXCEPT ![w] = @ \ {i}]
       /\ Claim(w, i, "brief", TRUE, "briefs")
  /\ UNCHANGED phase

\* _PENDING_FOLLOWUPS_SQL, once the loop over the briefs is done or broken.
SelectPending(w) ==
  /\ pc[w] = "briefs" /\ todo[w] = {}
  /\ \E S \in Limited(PendingFollowups) : todo' = [todo EXCEPT ![w] = S]
  /\ phase' = [phase EXCEPT ![w] = "followups"]
  /\ Goto(w, "next")
  /\ UNCHANGED <<row, topic, src, off, cur, slot, thread, exc, channel, faults>>

\* For each pending incident: deliver_deferred_progress ...
ClaimDeferredProgress(w) ==
  /\ pc[w] = "next"
  /\ \E i \in todo[w] :
       /\ todo' = [todo EXCEPT ![w] = @ \ {i}]
       /\ Claim(w, i, "progress", needed[i]["progress"], "owed_postmortem")
  /\ UNCHANGED phase

\* ... then deliver_deferred_postmortem.
ClaimDeferredPostmortem(w) ==
  /\ pc[w] = "owed_postmortem"
  /\ Claim(w, cur[w], "postmortem", needed[cur[w]]["postmortem"], "next")
  /\ UNCHANGED <<phase, todo>>

\* Back to consume_loop: commit the message in hand, if there is one.
DrainDone(w) ==
  /\ pc[w] = "next" /\ todo[w] = {}
  /\ IF src[w] # None
       THEN Goto(w, "commit") /\ UNCHANGED <<phase, src, off, cur, slot, todo, thread>>
       ELSE Goto(w, "poll") /\ Forget(w)
  /\ UNCHANGED <<row, topic, exc, channel, faults>>

----------------------------------------------------------------------------
(* The environment: crashes, rebalances, the embedder, the clock. *)

Crash(w) ==
  /\ pc[w] # "down"
  /\ Fault
  /\ Goto(w, "down")
  /\ IF pc[w] = "mark" THEN LoseMark(w) ELSE UNCHANGED lost
  /\ Forget(w)
  /\ exc' = [exc EXCEPT ![w] = "none"]
  /\ UNCHANGED <<row, topic, posts>>

\* The group moves a partition; an owner in the middle of one of its messages
\* (max.poll.interval.ms overrun) is expelled and cannot commit any more.
Rebalance(i, w) ==
  /\ owner[i] # w
  /\ Fault
  /\ owner' = [owner EXCEPT ![i] = w]
  /\ fenced' = IF src[owner[i]] # None
                 THEN [fenced EXCEPT ![owner[i]] = TRUE] ELSE fenced
  /\ UNCHANGED <<row, log, committed, pc, local, channel>>

\* The embedder's ensure_incident, with the time of the update it indexed.
EmbedderRegisters(i) ==
  /\ opened[i] = None
  /\ \E k \in DOMAIN log[i] : opened' = [opened EXCEPT ![i] = log[i][k].ts]
  /\ UNCHANGED <<resolvedAt, dueIn, needed, delivered, lease, slackTs, topic,
                 pc, local, channel, faults>>

\* Seeded bug: time that runs below zero.
CountDownBelow(n) == n - 1
CountDown(n) == IF n = 0 THEN 0 ELSE n - 1

\* Under LeaseOutlivesDelivery the clock waits for a live claimant.
Tick ==
  /\ LeaseOutlivesDelivery =>
       \A w \in Worker : Holding(w) => lease[cur[w]][slot[w]] > 1
  /\ lease' = [i \in Incident |-> [s \in Slot |-> CountDown(lease[i][s])]]
  /\ dueIn' = [i \in Incident |-> CountDown(dueIn[i])]
  /\ UNCHANGED <<opened, resolvedAt, needed, delivered, slackTs, topic, pc,
                 local, channel, faults>>

----------------------------------------------------------------------------

\* What the code does next when nothing goes wrong.
Step(w) ==
  \/ IdleTick(w) \/ Commit(w) \/ Restart(w)
  \/ HandleOpened(w) \/ CheckStale(w) \/ EnsureForProgress(w) \/ Schedule(w)
  \/ MarkResolved(w) \/ Defer(w) \/ ClaimFollowup(w)
  \/ Gather(w) \/ Post(w) \/ Mark(w) \/ Release(w)
  \/ SelectDue(w) \/ ClaimBrief(w) \/ SelectPending(w)
  \/ ClaimDeferredProgress(w) \/ ClaimDeferredPostmortem(w) \/ DrainDone(w)

Failure(w) ==
  \/ GatherFails(w) \/ PostFails(w) \/ MarkFails(w) \/ Crash(w)

Next ==
  \/ \E w \in Worker : Receive(w) \/ Step(w) \/ Failure(w)
  \/ \E i \in Incident, w \in Worker : Rebalance(i, w)
  \/ \E i \in Incident : EmbedderRegisters(i)
  \/ Tick

Spec == Init /\ [][Next]_vars

\* Processes keep running and are restarted, time passes, and a consumer that
\* polls again and again is handed what its partitions hold.
Fairness ==
  /\ \A w \in Worker : WF_vars(Step(w)) /\ SF_vars(Receive(w))
  /\ WF_vars(Tick)

FairSpec == Spec /\ Fairness
----------------------------------------------------------------------------
(* Properties. *)

\* Every variable stays within the values the schema and the code give it.
RowOK ==
  /\ opened \in [Incident -> Int \cup {None}]
  /\ resolvedAt \in [Incident -> Int \cup {None}]
  /\ dueIn \in [Incident -> Nat]
  /\ needed \in [Incident -> [Slot -> BOOLEAN]]
  /\ delivered \in [Incident -> [Slot -> BOOLEAN]]
  /\ lease \in [Incident -> [Slot -> Nat]]
  /\ slackTs \in [Incident -> Nat]

TopicOK ==
  /\ log \in [Incident -> Seq(Event)]
  /\ committed \in [Incident -> Nat]
  /\ owner \in [Incident -> Worker]
  /\ fenced \in [Worker -> BOOLEAN]

WorkerOK ==
  /\ pc \in [Worker -> PC]
  /\ phase \in [Worker -> {"handle", "briefs", "followups"}]
  /\ src \in [Worker -> Incident \cup {None}]
  /\ off \in [Worker -> Nat]
  /\ cur \in [Worker -> Incident \cup {None}]
  /\ slot \in [Worker -> Slot]
  /\ todo \in [Worker -> SUBSET Incident]
  /\ thread \in [Worker -> Nat]
  /\ exc \in [Worker -> {"none", "budget", "error"}]

HistoryOK ==
  /\ posts \in [Incident -> Seq(Message)]
  /\ lost \in [Incident -> [Slot -> Nat]]
  /\ faults \in Nat

TypeOK == RowOK /\ TopicOK /\ WorkerOK /\ HistoryOK

\* A lease that covers the delivery is a lock: no two workers are between the
\* claim and the mark of the same slot, through crashes, lost replies, skipped
\* and repeated claims (the promise of drain_due_briefs's docstring).
ExclusiveDelivery ==
  \A v, w \in Worker : \A i \in Incident, s \in Slot :
    HoldsSlot(v, i, s) /\ HoldsSlot(w, i, s) => v = w

\* Every follow-up is a reply in the thread of an opening brief that is in the
\* channel already: no orphaned progress update or postmortem, whatever the
\* order of the events and however often the brief was posted.
FollowupsAreThreaded ==
  \A i \in Incident : \A k \in DOMAIN posts[i] :
    posts[i][k].slot # "brief" =>
      /\ posts[i][k].thread \in 1 .. k - 1
      /\ posts[i][posts[i][k].thread].slot = "brief"

Shown(i, s) == {k \in DOMAIN posts[i] : posts[i][k].slot = s}

\* A message appears twice only because an earlier copy lost its mark: the
\* duplicates of the module's "a crash after posting can duplicate a message"
\* are the only ones.
DuplicatesAreExcused ==
  \A i \in Incident, s \in Slot : Cardinality(Shown(i, s)) <= lost[i][s] + 1

\* mark_brief_delivered: "Delivery is final: no expired lease may re-post it".
DeliveredIsFinal ==
  [][\A i \in Incident, s \in Slot :
       delivered[i][s] => Shown(i, s)' = Shown(i, s)]_vars

\* The engine keeps the promise of DeliveryPromise: an abstract step or a
\* stutter for every step, crashes, rebalances and redeliveries included.
Promise == INSTANCE DeliveryPromise WITH
  Brief <- "brief",
  owed <- [i \in Incident |-> {s \in Slot : needed[i][s]}],
  shown <- [i \in Incident |-> [k \in DOMAIN posts[i] |-> posts[i][k].slot]],
  settled <- [i \in Incident |-> {s \in Slot : delivered[i][s]}]
KeepsPromise == Promise!PSpec

\* An event that created the incident's row before offset k.
RowEnsuredBefore(i, k) ==
  \E j \in 1 .. k - 1 : LET ev == log[i][j] IN
    \/ ev.type = "opened" /\ ~Aged(ev)
    \/ ev.type = "in_progress"

\* What handling the event must have left in the row.
IntentKept(i, ev) ==
  IF ev.type = "opened" THEN needed[i]["brief"] \/ delivered[i]["brief"]
  ELSE /\ needed[i][FollowUp(ev)] \/ delivered[i][FollowUp(ev)]
       /\ ev.type = "resolved" => resolvedAt[i] # None
       /\ ev.type = "in_progress" => needed[i]["brief"] \/ delivered[i]["brief"]

\* Once an event's offset is committed, Kafka will not deliver it again: what
\* it asked for is in the database by then, whatever failed in between
\* (handle_lifecycle: "persist follow-up intent before trying delivery").
CommittedIntentIsDurable ==
  \A i \in Incident : \A k \in 1 .. committed[i] : LET ev == log[i][k] IN
    \/ ev.type = "opened" /\ Aged(ev)
    \/ ev.type # "opened" /\ Stale(i, ev)
    \/ ev.type = "resolved" /\ ~RowEnsuredBefore(i, k)
    \/ IntentKept(i, ev)

\* Owed work is delivered in the end, also work whose claim was lost to a crash
\* or to a lost reply; a follow-up needs its brief owed or delivered.
OwedIsDelivered ==
  \A i \in Incident, s \in Slot :
    (needed[i][s] /\ (needed[i]["brief"] \/ delivered[i]["brief"]))
      ~> delivered[i][s]

\* Over budget, callers defer (budget.py): exhausting the LLM budget leaves the
\* work owed and never ends the process.
BudgetDefers == \A w \in Worker : pc[w] = "down" => exc[w] # "budget"

\* Every event is committed in the end: no failure wedges a partition.
LogIsConsumed == \A i \in Incident : <>[](committed[i] = Len(log[i]))
=============================================================================
