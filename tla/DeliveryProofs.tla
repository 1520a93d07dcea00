--------------------------- MODULE DeliveryProofs ---------------------------
(***************************************************************************)
(* Theorems about Delivery, for any number of incidents and workers, any   *)
(* logs, any lease and any number of faults.                               *)
(***************************************************************************)
EXTENDS Delivery, FiniteSetTheorems, TLAPS

(***************************************************************************)
(* A worker that handles an event has it in hand; one that works on a slot *)
(* has an incident in hand.                                                *)
(***************************************************************************)
HandlerPC == {"handle", "ensure", "schedule", "resolve", "defer", "claim"}
SlotPC == {"gather", "post", "mark", "release", "owed_postmortem"}

HandInv ==
  \A w \in Worker :
    /\ pc[w] \in HandlerPC =>
         src[w] \in Incident /\ cur[w] = src[w] /\ off[w] \in 1 .. Len(log[src[w]])
    /\ pc[w] \in SlotPC => cur[w] \in Incident
    /\ pc[w] = "commit" => src[w] \in Incident

TypeInv == TypeOK /\ HandInv

LEMMA EventInHand ==
  ASSUME TypeInv, NEW w \in Worker, pc[w] \in HandlerPC
  PROVE  Ev(w) \in Event /\ cur[w] \in Incident /\ src[w] \in Incident
BY DEF TypeInv, TypeOK, TopicOK, HandInv, Ev

LEMMA InitTypeInv == Init => TypeInv
BY DeliveryAssumption DEF Init, TypeInv, TypeOK, RowOK, TopicOK, WorkerOK, HistoryOK,
     HandInv, HandlerPC, SlotPC, PC, Slot

LEMMA SlotInHand ==
  ASSUME TypeInv, NEW w \in Worker, pc[w] \in SlotPC
  PROVE  cur[w] \in Incident
BY DEF TypeInv, HandInv

\* Setting one slot of one incident keeps a table of slots well typed.
LEMMA SlotUpdate ==
  ASSUME NEW V, NEW f \in [Incident -> [Slot -> V]], NEW i \in Incident,
         NEW s \in Slot, NEW v \in V
  PROVE  [f EXCEPT ![i][s] = v] \in [Incident -> [Slot -> V]]
OBVIOUS

LEMMA ShowType ==
  ASSUME TypeOK, NEW w \in Worker, cur[w] \in Incident, Show(w)
  PROVE  posts' \in [Incident -> Seq(Message)]
<1>. DEFINE t == IF slot[w] = "brief" THEN 0 ELSE thread[w]
            m == [slot |-> slot[w], thread |-> t]
<1>1. slot[w] \in Slot /\ t \in Nat
  BY DEF TypeOK, WorkerOK
<1>2. m \in Message
  BY <1>1 DEF Message
<1>3. posts \in [Incident -> Seq(Message)]
  BY DEF TypeOK, HistoryOK
<1>4. posts' = [posts EXCEPT ![cur[w]] = Append(@, m)]
  BY DEF Show
<1>. HIDE DEF m
<1>5. Append(posts[cur[w]], m) \in Seq(Message)
  BY <1>2, <1>3
<1>. QED
  BY <1>3, <1>4, <1>5

LEMMA LoseMarkType ==
  ASSUME TypeOK, NEW w \in Worker, cur[w] \in Incident, LoseMark(w)
  PROVE  lost' \in [Incident -> [Slot -> Nat]]
<1>1. slot[w] \in Slot /\ lost \in [Incident -> [Slot -> Nat]]
  BY DEF TypeOK, WorkerOK, HistoryOK
<1>2. lost[cur[w]][slot[w]] + 1 \in Nat
  BY <1>1
<1>. QED
  BY <1>1, <1>2, SlotUpdate DEF LoseMark

\* A process that starts afresh is well typed.
LEMMA ForgetType ==
  ASSUME TypeOK, NEW w \in Worker, Forget(w)
  PROVE  /\ phase' \in [Worker -> {"handle", "briefs", "followups"}]
         /\ src' \in [Worker -> Incident \cup {None}]
         /\ off' \in [Worker -> Nat]
         /\ cur' \in [Worker -> Incident \cup {None}]
         /\ slot' \in [Worker -> Slot]
         /\ todo' \in [Worker -> SUBSET Incident]
         /\ thread' \in [Worker -> Nat]
BY DEF Forget, TypeOK, WorkerOK, Slot

\* What a claim statement changes, and what it leaves alone.
LEMMA ClaimType ==
  ASSUME TypeOK, NEW w \in Worker, NEW i \in Incident, NEW s \in Slot,
         NEW wanted \in BOOLEAN, NEW otherwise \in PC,
         Claim(w, i, s, wanted, otherwise)
  PROVE  /\ RowOK' /\ TopicOK' /\ HistoryOK'
         /\ pc' \in [Worker -> PC]
         /\ cur' \in [Worker -> Incident \cup {None}]
         /\ slot' \in [Worker -> Slot]
         /\ thread' \in [Worker -> Nat]
         /\ UNCHANGED <<src, off, exc>>
<1>. USE DEF Claim
<1>1. lease' \in [Incident -> [Slot -> Nat]]
  <2>1. lease \in [Incident -> [Slot -> Nat]] /\ LeaseTicks \in Nat
    BY DeliveryAssumption DEF TypeOK, RowOK
  <2>2. [lease EXCEPT ![i][s] = LeaseTicks] \in [Incident -> [Slot -> Nat]]
    BY <2>1, SlotUpdate
  <2>. QED
    BY <2>1, <2>2
<1>2. RowOK'
  BY <1>1 DEF TypeOK, RowOK
<1>3. TopicOK'
  BY DEF TypeOK, TopicOK, topic
<1>4. faults' \in Nat
  BY DEF TypeOK, HistoryOK, Fault
<1>5. HistoryOK'
  BY <1>4 DEF TypeOK, HistoryOK, channel
<1>6. pc' \in [Worker -> PC]
  BY DEF TypeOK, WorkerOK, Goto, PC
<1>7. thread' \in [Worker -> Nat]
  BY DEF TypeOK, RowOK, WorkerOK
<1>. QED
  BY <1>2, <1>3, <1>5, <1>6, <1>7 DEF TypeOK, WorkerOK

LEMMA ReceiveType == ASSUME TypeInv, NEW w \in Worker, Receive(w) PROVE TypeInv'
<1>. USE DEF Receive, Goto
<1>0. RowOK /\ TopicOK /\ WorkerOK /\ HistoryOK /\ HandInv
  BY DEF TypeInv, TypeOK
<1>1. RowOK'
  BY <1>0 DEF row, RowOK
<1>2. TopicOK'
  BY <1>0 DEF topic, TopicOK
<1>3. WorkerOK'
  BY <1>0 DEF local, WorkerOK, TopicOK, PC
<1>4. HistoryOK'
  BY <1>0 DEF channel, HistoryOK
<1>5. HandInv'
  BY <1>0 DEF HandInv, HandlerPC, SlotPC, WorkerOK, TopicOK, topic, local
<1>. QED
  BY <1>1, <1>2, <1>3, <1>4, <1>5 DEF TypeInv, TypeOK

LEMMA IdleTickType == ASSUME TypeInv, NEW w \in Worker, IdleTick(w) PROVE TypeInv'
<1>. USE DEF IdleTick, Goto
<1>0. RowOK /\ TopicOK /\ WorkerOK /\ HistoryOK /\ HandInv
  BY DEF TypeInv, TypeOK
<1>1. RowOK'
  BY <1>0 DEF row, RowOK
<1>2. TopicOK'
  BY <1>0 DEF topic, TopicOK
<1>3. WorkerOK'
  BY <1>0 DEF local, WorkerOK, PC
<1>4. HistoryOK'
  BY <1>0 DEF channel, HistoryOK
<1>5. HandInv'
  BY <1>0 DEF HandInv, HandlerPC, SlotPC, WorkerOK, TopicOK, topic, local
<1>. QED
  BY <1>1, <1>2, <1>3, <1>4, <1>5 DEF TypeInv, TypeOK

LEMMA CommitType == ASSUME TypeInv, NEW w \in Worker, Commit(w) PROVE TypeInv'
<1>. USE DEF Commit, Goto
<1>0. RowOK /\ TopicOK /\ WorkerOK /\ HistoryOK /\ HandInv
  BY DEF TypeInv, TypeOK
<1>h. src[w] \in Incident
  BY <1>0 DEF HandInv
<1>1. RowOK'
  BY <1>0 DEF row, RowOK
<1>2. TopicOK'
  BY <1>0, <1>h DEF topic, TopicOK, WorkerOK
<1>3. WorkerOK'
  <2>1. pc' \in [Worker -> PC] /\ exc' \in [Worker -> {"none", "budget", "error"}]
    BY <1>0 DEF WorkerOK, PC
  <2>. QED
    BY <2>1, ForgetType DEF TypeInv, WorkerOK
<1>4. HistoryOK'
  BY <1>0 DEF channel, HistoryOK
<1>5. HandInv'
  BY <1>0, <1>h DEF HandInv, HandlerPC, SlotPC, Forget, WorkerOK, TopicOK, topic, local
<1>. QED
  BY <1>1, <1>2, <1>3, <1>4, <1>5 DEF TypeInv, TypeOK

LEMMA RestartType == ASSUME TypeInv, NEW w \in Worker, Restart(w) PROVE TypeInv'
<1>. USE DEF Restart, Goto
<1>0. RowOK /\ TopicOK /\ WorkerOK /\ HistoryOK /\ HandInv
  BY DEF TypeInv, TypeOK
<1>1. RowOK'
  BY <1>0 DEF row, RowOK
<1>2. TopicOK'
  BY <1>0 DEF topic, TopicOK
<1>3. WorkerOK'
  BY <1>0 DEF local, WorkerOK, PC
<1>4. HistoryOK'
  BY <1>0 DEF channel, HistoryOK
<1>5. HandInv'
  BY <1>0 DEF HandInv, HandlerPC, SlotPC, WorkerOK, TopicOK, topic, local
<1>. QED
  BY <1>1, <1>2, <1>3, <1>4, <1>5 DEF TypeInv, TypeOK

LEMMA HandleOpenedType == ASSUME TypeInv, NEW w \in Worker, HandleOpened(w) PROVE TypeInv'
<1>. USE DEF HandleOpened, Goto
<1>0. RowOK /\ TopicOK /\ WorkerOK /\ HistoryOK /\ HandInv
  BY DEF TypeInv, TypeOK
<1>h. Ev(w) \in Event /\ cur[w] \in Incident /\ src[w] \in Incident
  BY EventInHand DEF HandlerPC
<1>1. RowOK'
  BY <1>0, <1>h DEF row, RowOK, Ensure, Event
<1>2. TopicOK'
  BY <1>0 DEF topic, TopicOK
<1>3. WorkerOK'
  BY <1>0, <1>h DEF local, WorkerOK, PC
<1>4. HistoryOK'
  BY <1>0 DEF channel, HistoryOK
<1>5. HandInv'
  BY <1>0, <1>h DEF HandInv, HandlerPC, SlotPC, WorkerOK, TopicOK, topic, local
<1>. QED
  BY <1>1, <1>2, <1>3, <1>4, <1>5 DEF TypeInv, TypeOK

LEMMA CheckStaleType == ASSUME TypeInv, NEW w \in Worker, CheckStale(w) PROVE TypeInv'
<1>. USE DEF CheckStale, Goto
<1>0. RowOK /\ TopicOK /\ WorkerOK /\ HistoryOK /\ HandInv
  BY DEF TypeInv, TypeOK
<1>h. Ev(w) \in Event /\ cur[w] \in Incident /\ src[w] \in Incident
  BY EventInHand DEF HandlerPC
<1>1. RowOK'
  BY <1>0 DEF row, RowOK
<1>2. TopicOK'
  BY <1>0 DEF topic, TopicOK
<1>3. WorkerOK'
  BY <1>0, <1>h DEF local, WorkerOK, PC
<1>4. HistoryOK'
  BY <1>0 DEF channel, HistoryOK
<1>5. HandInv'
  BY <1>0, <1>h DEF HandInv, HandlerPC, SlotPC, WorkerOK, TopicOK, topic, local
<1>. QED
  BY <1>1, <1>2, <1>3, <1>4, <1>5 DEF TypeInv, TypeOK

LEMMA EnsureForProgressType == ASSUME TypeInv, NEW w \in Worker, EnsureForProgress(w) PROVE TypeInv'
<1>. USE DEF EnsureForProgress, Goto
<1>0. RowOK /\ TopicOK /\ WorkerOK /\ HistoryOK /\ HandInv
  BY DEF TypeInv, TypeOK
<1>h. Ev(w) \in Event /\ cur[w] \in Incident /\ src[w] \in Incident
  BY EventInHand DEF HandlerPC
<1>1. RowOK'
  BY <1>0, <1>h DEF row, RowOK, Ensure, Event
<1>2. TopicOK'
  BY <1>0 DEF topic, TopicOK
<1>3. WorkerOK'
  BY <1>0, <1>h DEF local, WorkerOK, PC
<1>4. HistoryOK'
  BY <1>0 DEF channel, HistoryOK
<1>5. HandInv'
  BY <1>0, <1>h DEF HandInv, HandlerPC, SlotPC, WorkerOK, TopicOK, topic, local
<1>. QED
  BY <1>1, <1>2, <1>3, <1>4, <1>5 DEF TypeInv, TypeOK

LEMMA ScheduleType == ASSUME TypeInv, NEW w \in Worker, Schedule(w) PROVE TypeInv'
<1>. USE DEF Schedule, Goto
<1>0. RowOK /\ TopicOK /\ WorkerOK /\ HistoryOK /\ HandInv
  BY DEF TypeInv, TypeOK
<1>h. Ev(w) \in Event /\ cur[w] \in Incident /\ src[w] \in Incident
  BY EventInHand DEF HandlerPC
<1>1. RowOK'
  <2>1. [needed EXCEPT ![cur[w]]["brief"] = TRUE] \in [Incident -> [Slot -> BOOLEAN]]
    BY <1>0, <1>h, SlotUpdate DEF RowOK, Slot
  <2>2. [dueIn EXCEPT ![cur[w]] = Debounce] \in [Incident -> Nat]
    BY <1>0, <1>h, DeliveryAssumption DEF RowOK
  <2>. QED
    BY <1>0, <2>1, <2>2 DEF RowOK
<1>2. TopicOK'
  BY <1>0 DEF topic, TopicOK
<1>3. WorkerOK'
  BY <1>0, <1>h DEF local, WorkerOK, PC
<1>4. HistoryOK'
  BY <1>0 DEF channel, HistoryOK
<1>5. HandInv'
  BY <1>0, <1>h DEF HandInv, HandlerPC, SlotPC, WorkerOK, TopicOK, topic, local
<1>. QED
  BY <1>1, <1>2, <1>3, <1>4, <1>5 DEF TypeInv, TypeOK

LEMMA MarkResolvedType == ASSUME TypeInv, NEW w \in Worker, MarkResolved(w) PROVE TypeInv'
<1>. USE DEF MarkResolved, Goto
<1>0. RowOK /\ TopicOK /\ WorkerOK /\ HistoryOK /\ HandInv
  BY DEF TypeInv, TypeOK
<1>h. Ev(w) \in Event /\ cur[w] \in Incident /\ src[w] \in Incident
  BY EventInHand DEF HandlerPC
<1>1. RowOK'
  BY <1>0, <1>h DEF row, RowOK, Event
<1>2. TopicOK'
  BY <1>0 DEF topic, TopicOK
<1>3. WorkerOK'
  BY <1>0, <1>h DEF local, WorkerOK, PC
<1>4. HistoryOK'
  BY <1>0 DEF channel, HistoryOK
<1>5. HandInv'
  BY <1>0, <1>h DEF HandInv, HandlerPC, SlotPC, WorkerOK, TopicOK, topic, local
<1>. QED
  BY <1>1, <1>2, <1>3, <1>4, <1>5 DEF TypeInv, TypeOK

LEMMA DeferType == ASSUME TypeInv, NEW w \in Worker, Defer(w) PROVE TypeInv'
<1>. USE DEF Defer, Goto
<1>0. RowOK /\ TopicOK /\ WorkerOK /\ HistoryOK /\ HandInv
  BY DEF TypeInv, TypeOK
<1>h. Ev(w) \in Event /\ cur[w] \in Incident /\ src[w] \in Incident
  BY EventInHand DEF HandlerPC
<1>1. RowOK'
  BY <1>0, <1>h DEF row, RowOK, FollowUp, Slot
<1>2. TopicOK'
  BY <1>0 DEF topic, TopicOK
<1>3. WorkerOK'
  BY <1>0, <1>h DEF local, WorkerOK, PC
<1>4. HistoryOK'
  BY <1>0 DEF channel, HistoryOK
<1>5. HandInv'
  BY <1>0, <1>h DEF HandInv, HandlerPC, SlotPC, WorkerOK, TopicOK, topic, local
<1>. QED
  BY <1>1, <1>2, <1>3, <1>4, <1>5 DEF TypeInv, TypeOK

LEMMA ClaimFollowupType == ASSUME TypeInv, NEW w \in Worker, ClaimFollowup(w) PROVE TypeInv'
<1>0. TypeOK /\ WorkerOK /\ TopicOK /\ HandInv
  BY DEF TypeInv, TypeOK
<1>h. cur[w] \in Incident /\ FollowUp(Ev(w)) \in Slot
  BY EventInHand DEF ClaimFollowup, HandlerPC, FollowUp, Slot
<1>1. Claim(w, cur[w], FollowUp(Ev(w)), TRUE, "drain") /\ UNCHANGED <<phase, todo>>
  BY DEF ClaimFollowup
<1>2. TypeOK'
  BY <1>0, <1>h, <1>1, ClaimType DEF TypeOK, WorkerOK, PC
<1>3. HandInv'
  BY <1>0, <1>h, <1>1 DEF Claim, Goto, topic, WorkerOK, TopicOK, HandInv, HandlerPC, SlotPC
<1>. QED
  BY <1>2, <1>3 DEF TypeInv

LEMMA GatherType == ASSUME TypeInv, NEW w \in Worker, Gather(w) PROVE TypeInv'
<1>. USE DEF Gather, Goto
<1>0. RowOK /\ TopicOK /\ WorkerOK /\ HistoryOK /\ HandInv
  BY DEF TypeInv, TypeOK
<1>h. cur[w] \in Incident
  BY SlotInHand DEF SlotPC
<1>1. RowOK'
  BY <1>0 DEF row, RowOK
<1>2. TopicOK'
  BY <1>0 DEF topic, TopicOK
<1>3. WorkerOK'
  BY <1>0, <1>h DEF local, WorkerOK, RowOK, PC
<1>4. HistoryOK'
  BY <1>0 DEF channel, HistoryOK
<1>5. HandInv'
  BY <1>0, <1>h DEF HandInv, HandlerPC, SlotPC, WorkerOK, TopicOK, topic, local
<1>. QED
  BY <1>1, <1>2, <1>3, <1>4, <1>5 DEF TypeInv, TypeOK

LEMMA PostType == ASSUME TypeInv, NEW w \in Worker, Post(w) PROVE TypeInv'
<1>. USE DEF Post, Goto
<1>0. RowOK /\ TopicOK /\ WorkerOK /\ HistoryOK /\ HandInv
  BY DEF TypeInv, TypeOK
<1>h. cur[w] \in Incident
  BY SlotInHand DEF SlotPC
<1>1. RowOK'
  BY <1>0 DEF row, RowOK
<1>2. TopicOK'
  BY <1>0 DEF topic, TopicOK
<1>3. WorkerOK'
  BY <1>0, <1>h DEF local, WorkerOK, HistoryOK, PC
<1>4. HistoryOK'
  BY <1>0, <1>h, ShowType DEF TypeInv, HistoryOK
<1>5. HandInv'
  BY <1>0, <1>h DEF HandInv, HandlerPC, SlotPC, WorkerOK, TopicOK, topic, local
<1>. QED
  BY <1>1, <1>2, <1>3, <1>4, <1>5 DEF TypeInv, TypeOK

LEMMA MarkType == ASSUME TypeInv, NEW w \in Worker, Mark(w) PROVE TypeInv'
<1>. USE DEF Mark, Goto
<1>0. RowOK /\ TopicOK /\ WorkerOK /\ HistoryOK /\ HandInv
  BY DEF TypeInv, TypeOK
<1>h. cur[w] \in Incident
  BY SlotInHand DEF SlotPC
<1>1. RowOK'
  BY <1>0, <1>h DEF row, RowOK, WorkerOK
<1>2. TopicOK'
  BY <1>0 DEF topic, TopicOK
<1>3. WorkerOK'
  BY <1>0, <1>h DEF local, WorkerOK, AfterMark, PC
<1>4. HistoryOK'
  BY <1>0 DEF channel, HistoryOK
<1>5. HandInv'
  BY <1>0, <1>h DEF HandInv, HandlerPC, SlotPC, AfterMark, WorkerOK, TopicOK, topic, local
<1>. QED
  BY <1>1, <1>2, <1>3, <1>4, <1>5 DEF TypeInv, TypeOK

LEMMA ReleaseType == ASSUME TypeInv, NEW w \in Worker, Release(w) PROVE TypeInv'
<1>. USE DEF Release, Goto
<1>0. RowOK /\ TopicOK /\ WorkerOK /\ HistoryOK /\ HandInv
  BY DEF TypeInv, TypeOK
<1>h. cur[w] \in Incident
  BY SlotInHand DEF SlotPC
<1>1. RowOK'
  BY <1>0, <1>h DEF row, RowOK, WorkerOK
<1>2. TopicOK'
  BY <1>0 DEF topic, TopicOK
<1>3. WorkerOK'
  <2>1. pc' \in [Worker -> PC] /\ exc' \in [Worker -> {"none", "budget", "error"}]
    BY <1>0 DEF WorkerOK, PC
  <2>2. CASE Forget(w)
    BY <2>1, <2>2, ForgetType DEF TypeInv, WorkerOK
  <2>3. CASE ~Forget(w)
    BY <1>0, <2>1, <2>3 DEF WorkerOK
  <2>. QED
    BY <2>2, <2>3
<1>4. HistoryOK'
  BY <1>0 DEF channel, HistoryOK
<1>5. HandInv'
  BY SMTT(30), <1>0, <1>h DEF HandInv, HandlerPC, SlotPC, Forget, WorkerOK, TopicOK, topic, local
<1>. QED
  BY <1>1, <1>2, <1>3, <1>4, <1>5 DEF TypeInv, TypeOK

LEMMA SelectDueType == ASSUME TypeInv, NEW w \in Worker, SelectDue(w) PROVE TypeInv'
<1>. USE DEF SelectDue, Goto
<1>0. RowOK /\ TopicOK /\ WorkerOK /\ HistoryOK /\ HandInv
  BY DEF TypeInv, TypeOK
<1>1. RowOK'
  BY <1>0 DEF row, RowOK
<1>2. TopicOK'
  BY <1>0 DEF topic, TopicOK
<1>3. WorkerOK'
  BY <1>0 DEF local, WorkerOK, Limited, DueBriefs, PC
<1>4. HistoryOK'
  BY <1>0 DEF channel, HistoryOK
<1>5. HandInv'
  BY <1>0 DEF HandInv, HandlerPC, SlotPC, WorkerOK, TopicOK, topic, local
<1>. QED
  BY <1>1, <1>2, <1>3, <1>4, <1>5 DEF TypeInv, TypeOK

LEMMA ClaimBriefType == ASSUME TypeInv, NEW w \in Worker, ClaimBrief(w) PROVE TypeInv'
<1>0. TypeOK /\ WorkerOK /\ TopicOK /\ HandInv
  BY DEF TypeInv, TypeOK
<1>1. PICK i \in todo[w] : /\ todo' = [todo EXCEPT ![w] = @ \ {i}]
                           /\ Claim(w, i, "brief", TRUE, "briefs")
                           /\ UNCHANGED phase
  BY DEF ClaimBrief
<1>h. i \in Incident
  BY <1>0 DEF WorkerOK
<1>2. TypeOK'
  BY <1>0, <1>h, <1>1, ClaimType DEF TypeOK, WorkerOK, PC, Slot
<1>3. HandInv'
  BY <1>0, <1>h, <1>1 DEF Claim, Goto, topic, WorkerOK, TopicOK, HandInv, HandlerPC, SlotPC
<1>. QED
  BY <1>2, <1>3 DEF TypeInv

LEMMA SelectPendingType == ASSUME TypeInv, NEW w \in Worker, SelectPending(w) PROVE TypeInv'
<1>. USE DEF SelectPending, Goto
<1>0. RowOK /\ TopicOK /\ WorkerOK /\ HistoryOK /\ HandInv
  BY DEF TypeInv, TypeOK
<1>1. RowOK'
  BY <1>0 DEF row, RowOK
<1>2. TopicOK'
  BY <1>0 DEF topic, TopicOK
<1>3. WorkerOK'
  BY <1>0 DEF local, WorkerOK, Limited, PendingFollowups, PC
<1>4. HistoryOK'
  BY <1>0 DEF channel, HistoryOK
<1>5. HandInv'
  BY <1>0 DEF HandInv, HandlerPC, SlotPC, WorkerOK, TopicOK, topic, local
<1>. QED
  BY <1>1, <1>2, <1>3, <1>4, <1>5 DEF TypeInv, TypeOK

LEMMA ClaimDeferredProgressType ==
  ASSUME TypeInv, NEW w \in Worker, ClaimDeferredProgress(w) PROVE TypeInv'
<1>0. TypeOK /\ RowOK /\ WorkerOK /\ TopicOK /\ HandInv
  BY DEF TypeInv, TypeOK
<1>1. PICK i \in todo[w] :
        /\ todo' = [todo EXCEPT ![w] = @ \ {i}]
        /\ Claim(w, i, "progress", needed[i]["progress"], "owed_postmortem")
        /\ UNCHANGED phase
  BY DEF ClaimDeferredProgress
<1>h. i \in Incident /\ needed[i]["progress"] \in BOOLEAN
  BY <1>0 DEF WorkerOK, RowOK, Slot
<1>2. TypeOK'
  BY <1>0, <1>h, <1>1, ClaimType DEF TypeOK, WorkerOK, PC, Slot
<1>3. HandInv'
  BY <1>0, <1>h, <1>1 DEF Claim, Goto, topic, WorkerOK, TopicOK, HandInv, HandlerPC, SlotPC
<1>. QED
  BY <1>2, <1>3 DEF TypeInv

LEMMA ClaimDeferredPostmortemType ==
  ASSUME TypeInv, NEW w \in Worker, ClaimDeferredPostmortem(w) PROVE TypeInv'
<1>0. TypeOK /\ RowOK /\ WorkerOK /\ TopicOK /\ HandInv
  BY DEF TypeInv, TypeOK
<1>1. /\ Claim(w, cur[w], "postmortem", needed[cur[w]]["postmortem"], "next")
      /\ UNCHANGED <<phase, todo>>
  BY DEF ClaimDeferredPostmortem
<1>h. cur[w] \in Incident /\ needed[cur[w]]["postmortem"] \in BOOLEAN
  BY <1>0, SlotInHand DEF ClaimDeferredPostmortem, SlotPC, RowOK, Slot
<1>2. TypeOK'
  BY <1>0, <1>h, <1>1, ClaimType DEF TypeOK, WorkerOK, PC, Slot
<1>3. HandInv'
  BY <1>0, <1>h, <1>1 DEF Claim, Goto, topic, WorkerOK, TopicOK, HandInv, HandlerPC, SlotPC
<1>. QED
  BY <1>2, <1>3 DEF TypeInv

LEMMA DrainDoneType == ASSUME TypeInv, NEW w \in Worker, DrainDone(w) PROVE TypeInv'
<1>. USE DEF DrainDone, Goto
<1>0. RowOK /\ TopicOK /\ WorkerOK /\ HistoryOK /\ HandInv
  BY DEF TypeInv, TypeOK
<1>1. RowOK'
  BY <1>0 DEF row, RowOK
<1>2. TopicOK'
  BY <1>0 DEF topic, TopicOK
<1>3. WorkerOK'
  <2>1. pc' \in [Worker -> PC] /\ exc' \in [Worker -> {"none", "budget", "error"}]
    BY <1>0 DEF WorkerOK, PC
  <2>2. CASE Forget(w)
    BY <2>1, <2>2, ForgetType DEF TypeInv, WorkerOK
  <2>3. CASE ~Forget(w)
    BY <1>0, <2>1, <2>3 DEF WorkerOK
  <2>. QED
    BY <2>2, <2>3
<1>4. HistoryOK'
  BY <1>0 DEF channel, HistoryOK
<1>5. HandInv'
  BY <1>0 DEF HandInv, HandlerPC, SlotPC, Forget, WorkerOK, TopicOK, topic, local
<1>. QED
  BY <1>1, <1>2, <1>3, <1>4, <1>5 DEF TypeInv, TypeOK

LEMMA GatherFailsType == ASSUME TypeInv, NEW w \in Worker, GatherFails(w) PROVE TypeInv'
<1>. USE DEF GatherFails, Goto
<1>0. RowOK /\ TopicOK /\ WorkerOK /\ HistoryOK /\ HandInv
  BY DEF TypeInv, TypeOK
<1>1. RowOK'
  BY <1>0 DEF row, RowOK
<1>2. TopicOK'
  BY <1>0 DEF topic, TopicOK
<1>3. WorkerOK'
  BY <1>0 DEF local, WorkerOK, PC
<1>4. HistoryOK'
  BY <1>0 DEF channel, HistoryOK, Fault
<1>5. HandInv'
  BY <1>0 DEF HandInv, HandlerPC, SlotPC, WorkerOK, TopicOK, topic, local
<1>. QED
  BY <1>1, <1>2, <1>3, <1>4, <1>5 DEF TypeInv, TypeOK

LEMMA PostFailsType == ASSUME TypeInv, NEW w \in Worker, PostFails(w) PROVE TypeInv'
<1>. USE DEF PostFails, Goto
<1>0. RowOK /\ TopicOK /\ WorkerOK /\ HistoryOK /\ HandInv
  BY DEF TypeInv, TypeOK
<1>h. cur[w] \in Incident
  BY SlotInHand DEF SlotPC
<1>1. RowOK'
  BY <1>0 DEF row, RowOK
<1>2. TopicOK'
  BY <1>0 DEF topic, TopicOK
<1>3. WorkerOK'
  BY <1>0, <1>h DEF local, WorkerOK, PC
<1>4. HistoryOK'
  <2>1. posts' \in [Incident -> Seq(Message)]
    BY <1>0, <1>h, ShowType DEF TypeInv, HistoryOK, channel
  <2>2. lost' \in [Incident -> [Slot -> Nat]]
    BY <1>0, <1>h, LoseMarkType DEF TypeInv, HistoryOK, channel
  <2>. QED
    BY <1>0, <2>1, <2>2 DEF HistoryOK, Fault
<1>5. HandInv'
  BY <1>0, <1>h DEF HandInv, HandlerPC, SlotPC, WorkerOK, TopicOK, topic, local
<1>. QED
  BY <1>1, <1>2, <1>3, <1>4, <1>5 DEF TypeInv, TypeOK

LEMMA MarkFailsType == ASSUME TypeInv, NEW w \in Worker, MarkFails(w) PROVE TypeInv'
<1>. USE DEF MarkFails, Goto
<1>0. RowOK /\ TopicOK /\ WorkerOK /\ HistoryOK /\ HandInv
  BY DEF TypeInv, TypeOK
<1>h. cur[w] \in Incident
  BY SlotInHand DEF SlotPC
<1>1. RowOK'
  BY <1>0 DEF row, RowOK
<1>2. TopicOK'
  BY <1>0 DEF topic, TopicOK
<1>3. WorkerOK'
  BY <1>0, <1>h DEF local, WorkerOK, PC
<1>4. HistoryOK'
  <2>1. lost' \in [Incident -> [Slot -> Nat]]
    BY <1>0, <1>h, LoseMarkType DEF TypeInv, HistoryOK
  <2>. QED
    BY <1>0, <2>1 DEF HistoryOK, Fault
<1>5. HandInv'
  BY <1>0, <1>h DEF HandInv, HandlerPC, SlotPC, WorkerOK, TopicOK, topic, local
<1>. QED
  BY <1>1, <1>2, <1>3, <1>4, <1>5 DEF TypeInv, TypeOK

LEMMA CrashType == ASSUME TypeInv, NEW w \in Worker, Crash(w) PROVE TypeInv'
<1>. USE DEF Crash, Goto
<1>0. RowOK /\ TopicOK /\ WorkerOK /\ HistoryOK /\ HandInv
  BY DEF TypeInv, TypeOK
<1>h. pc[w] = "mark" => cur[w] \in Incident
  BY SlotInHand DEF SlotPC
<1>1. RowOK'
  BY <1>0 DEF row, RowOK
<1>2. TopicOK'
  BY <1>0 DEF topic, TopicOK
<1>3. WorkerOK'
  <2>1. pc' \in [Worker -> PC] /\ exc' \in [Worker -> {"none", "budget", "error"}]
    BY <1>0 DEF WorkerOK, PC
  <2>. QED
    BY <2>1, ForgetType DEF TypeInv, WorkerOK
<1>4. HistoryOK'
  <2>1. lost' \in [Incident -> [Slot -> Nat]]
    BY <1>0, <1>h, LoseMarkType DEF TypeInv, HistoryOK
  <2>. QED
    BY <1>0, <2>1 DEF HistoryOK, Fault
<1>5. HandInv'
  BY <1>0, <1>h DEF HandInv, HandlerPC, SlotPC, Forget, WorkerOK, TopicOK, topic, local
<1>. QED
  BY <1>1, <1>2, <1>3, <1>4, <1>5 DEF TypeInv, TypeOK

LEMMA RebalanceType ==
  ASSUME TypeInv, NEW i \in Incident, NEW w \in Worker, Rebalance(i, w)
  PROVE  TypeInv'
<1>0. RowOK /\ TopicOK /\ WorkerOK /\ HistoryOK /\ HandInv
  BY DEF TypeInv, TypeOK
<1>1. RowOK' /\ WorkerOK' /\ HandInv'
  BY <1>0 DEF Rebalance, row, RowOK, local, WorkerOK, HandInv
<1>2. TopicOK' /\ HistoryOK'
  BY <1>0 DEF Rebalance, Fault, channel, TopicOK, HistoryOK
<1>. QED
  BY <1>1, <1>2 DEF TypeInv, TypeOK

LEMMA EmbedderType ==
  ASSUME TypeInv, NEW i \in Incident, EmbedderRegisters(i)
  PROVE  TypeInv'
<1>0. RowOK /\ TopicOK /\ WorkerOK /\ HistoryOK /\ HandInv
  BY DEF TypeInv, TypeOK
<1>1. PICK k \in DOMAIN log[i] : opened' = [opened EXCEPT ![i] = log[i][k].ts]
  BY DEF EmbedderRegisters
<1>2. log[i][k].ts \in Int
  <2>1. log[i][k] \in Event
    BY <1>0 DEF TopicOK
  <2>. QED
    BY <2>1 DEF Event
<1>3. RowOK'
  BY <1>0, <1>1, <1>2 DEF EmbedderRegisters, RowOK
<1>4. TopicOK' /\ WorkerOK' /\ HistoryOK' /\ HandInv'
  BY <1>0 DEF EmbedderRegisters, topic, local, channel, TopicOK, WorkerOK, HistoryOK, HandInv
<1>. QED
  BY <1>3, <1>4 DEF TypeInv, TypeOK

LEMMA TickType == ASSUME TypeInv, Tick PROVE TypeInv'
<1>0. RowOK /\ TopicOK /\ WorkerOK /\ HistoryOK /\ HandInv
  BY DEF TypeInv, TypeOK
<1>1. lease' \in [Incident -> [Slot -> Nat]] /\ dueIn' \in [Incident -> Nat]
  <2>1. \A n \in Nat : CountDown(n) \in Nat
    BY DEF CountDown
  <2>2. \A i \in Incident : dueIn[i] \in Nat /\ \A s \in Slot : lease[i][s] \in Nat
    BY <1>0 DEF RowOK
  <2>. QED
    BY <2>1, <2>2 DEF Tick
<1>2. RowOK'
  BY <1>0, <1>1 DEF Tick, RowOK
<1>3. TopicOK' /\ WorkerOK' /\ HistoryOK' /\ HandInv'
  BY <1>0 DEF Tick, topic, local, channel, TopicOK, WorkerOK, HistoryOK, HandInv
<1>. QED
  BY <1>2, <1>3 DEF TypeInv, TypeOK

LEMMA NextTypeInv == ASSUME TypeInv, [Next]_vars PROVE TypeInv'
<1>1. ASSUME NEW w \in Worker, Receive(w) \/ Step(w) \/ Failure(w) PROVE TypeInv'
  BY <1>1, ReceiveType, IdleTickType, CommitType, RestartType, HandleOpenedType,
     CheckStaleType, EnsureForProgressType, ScheduleType, MarkResolvedType,
     DeferType, ClaimFollowupType, GatherType, PostType, MarkType, ReleaseType,
     SelectDueType, ClaimBriefType, SelectPendingType, ClaimDeferredProgressType,
     ClaimDeferredPostmortemType, DrainDoneType, GatherFailsType, PostFailsType,
     MarkFailsType, CrashType DEF Step, Failure
<1>2. CASE UNCHANGED vars
  BY <1>2 DEF TypeInv, TypeOK, RowOK, TopicOK, WorkerOK, HistoryOK, HandInv,
     vars, row, topic, local, channel, Ev
<1>. QED
  BY <1>1, <1>2, RebalanceType, EmbedderType, TickType DEF Next

(***************************************************************************)
(* Type correctness of the engine, for every instance.                     *)
(***************************************************************************)
THEOREM TypeCorrect == Spec => [](TypeOK /\ HandInv)
<1>1. Init => TypeInv
  BY InitTypeInv
<1>2. TypeInv /\ [Next]_vars => TypeInv'
  BY NextTypeInv
<1>. QED
  BY <1>1, <1>2, PTL DEF Spec, TypeInv

----------------------------------------------------------------------------
(***************************************************************************)
(* The lease is a lock.  A worker on a slot has a running lease on it, the *)
(* slot is not delivered yet, and no other worker is on it.                *)
(***************************************************************************)
ClaimHeld == \A w \in Worker : Holding(w) =>
  /\ lease[cur[w]][slot[w]] > 0
  /\ ~delivered[cur[w]][slot[w]]

LockInv == ClaimHeld /\ ExclusiveDelivery

\* Nobody starts to hold a slot, and the leases and the marks stay.
LEMMA LockFrame ==
  ASSUME LockInv, UNCHANGED <<lease, delivered>>,
         \A v \in Worker : Holding(v)' => /\ Holding(v)
                                          /\ cur'[v] = cur[v] /\ slot'[v] = slot[v]
  PROVE  LockInv'
BY DEF LockInv, ClaimHeld, ExclusiveDelivery, HoldsSlot

\* A claim is won only on a slot whose lease is over, so nobody else is on it.
LEMMA LockClaim ==
  ASSUME TypeInv, LockInv, NEW w \in Worker, NEW i \in Incident, NEW s \in Slot,
         NEW wanted \in BOOLEAN, NEW otherwise \in PC \ {"gather", "post", "mark", "release"},
         Claim(w, i, s, wanted, otherwise), ~Holding(w)
  PROVE  LockInv'
<1>0. /\ lease \in [Incident -> [Slot -> Nat]] /\ slot \in [Worker -> Slot]
      /\ cur \in [Worker -> Incident \cup {None}] /\ pc \in [Worker -> PC]
      /\ \A v \in Worker : Holding(v) => cur[v] \in Incident
  BY DEF TypeInv, TypeOK, RowOK, WorkerOK, HandInv, SlotPC, Holding
<1>1. /\ cur' = [cur EXCEPT ![w] = i] /\ slot' = [slot EXCEPT ![w] = s]
      /\ UNCHANGED delivered
  BY DEF Claim
<1>2. CASE /\ Claimable(i, s) /\ pc'[w] # otherwise
           /\ lease' = [lease EXCEPT ![i][s] = LeaseTicks]
           /\ pc' = [pc EXCEPT ![w] = "gather"]
  <2>1. \A v \in Worker \ {w} : Holding(v) => ~(cur[v] = i /\ slot[v] = s)
    BY <1>2 DEF LockInv, ClaimHeld, Claimable
  <2>2. \A v \in Worker \ {w} : /\ Holding(v)' <=> Holding(v)
                                /\ cur'[v] = cur[v] /\ slot'[v] = slot[v]
    BY <1>0, <1>1, <1>2 DEF Holding
  <2>3. lease'[i][s] > 0 /\ ~delivered[i][s]
    BY <1>0, <1>2, DeliveryAssumption DEF Claimable
  <2>4. \A v \in Worker \ {w} : Holding(v) => lease'[cur[v]][slot[v]] = lease[cur[v]][slot[v]]
    BY <1>0, <1>2, <2>1
  <2>5. ClaimHeld'
    BY <1>0, <1>1, <2>2, <2>3, <2>4 DEF LockInv, ClaimHeld
  <2>6. ExclusiveDelivery'
    BY <1>0, <1>1, <2>1, <2>2 DEF LockInv, ExclusiveDelivery, HoldsSlot
  <2>. QED
    BY <2>5, <2>6 DEF LockInv
<1>3. CASE /\ Claimable(i, s)
           /\ lease' = [lease EXCEPT ![i][s] = LeaseTicks]
           /\ pc' = [pc EXCEPT ![w] = otherwise]
  <2>1. \A v \in Worker : Holding(v) => ~(cur[v] = i /\ slot[v] = s)
    BY <1>3 DEF LockInv, ClaimHeld, Claimable
  <2>2. ~Holding(w)'
    BY <1>0, <1>3 DEF Holding
  <2>3. \A v \in Worker \ {w} : /\ Holding(v)' <=> Holding(v)
                                /\ cur'[v] = cur[v] /\ slot'[v] = slot[v]
    BY <1>0, <1>1, <1>3 DEF Holding
  <2>4. \A v \in Worker : Holding(v) => lease'[cur[v]][slot[v]] = lease[cur[v]][slot[v]]
    BY <1>0, <1>3, <2>1
  <2>. QED
    BY <1>1, <2>2, <2>3, <2>4 DEF LockInv, ClaimHeld, ExclusiveDelivery, HoldsSlot
<1>4. CASE pc' = [pc EXCEPT ![w] = otherwise] /\ UNCHANGED lease
  <2>1. ~Holding(w)'
    BY <1>0, <1>4 DEF Holding
  <2>2. \A v \in Worker \ {w} : /\ Holding(v)' <=> Holding(v)
                                /\ cur'[v] = cur[v] /\ slot'[v] = slot[v]
    BY <1>0, <1>1, <1>4 DEF Holding
  <2>. QED
    BY <1>1, <1>4, <2>1, <2>2, LockFrame
<1>. QED
  BY <1>0, <1>2, <1>3, <1>4 DEF Claim, Goto

\* The mark ends the claim it settles.
LEMMA LockMark == ASSUME TypeInv, LockInv, NEW w \in Worker, Mark(w) PROVE LockInv'
<1>0. /\ delivered \in [Incident -> [Slot -> BOOLEAN]] /\ slot \in [Worker -> Slot]
      /\ pc \in [Worker -> PC] /\ cur[w] \in Incident
      /\ \A v \in Worker : Holding(v) => cur[v] \in Incident
      /\ phase \in [Worker -> {"handle", "briefs", "followups"}]
  BY DEF TypeInv, TypeOK, RowOK, WorkerOK, HandInv, SlotPC, Holding, Mark
<1>1. \A v \in Worker \ {w} : Holding(v) => ~(cur[v] = cur[w] /\ slot[v] = slot[w])
  BY <1>0 DEF LockInv, ExclusiveDelivery, HoldsSlot, Holding, Mark
<1>2. ~Holding(w)'
  BY <1>0 DEF Mark, Goto, AfterMark, Holding
<1>3. UNCHANGED <<cur, slot, lease>> /\ \A v \in Worker \ {w} : Holding(v)' <=> Holding(v)
  BY <1>0 DEF Mark, local, Goto, Holding
<1>4. \A v \in Worker \ {w} : Holding(v) => delivered'[cur[v]][slot[v]] = delivered[cur[v]][slot[v]]
  BY <1>0, <1>1 DEF Mark
<1>. QED
  BY <1>2, <1>3, <1>4 DEF LockInv, ClaimHeld, ExclusiveDelivery, HoldsSlot

\* The release clears the worker's own lease: nobody else is on that slot.
LEMMA LockRelease == ASSUME TypeInv, LockInv, NEW w \in Worker, Release(w) PROVE LockInv'
<1>0. /\ lease \in [Incident -> [Slot -> Nat]] /\ slot \in [Worker -> Slot]
      /\ cur \in [Worker -> Incident \cup {None}]
      /\ pc \in [Worker -> PC] /\ cur[w] \in Incident
      /\ \A v \in Worker : Holding(v) => cur[v] \in Incident
  BY DEF TypeInv, TypeOK, RowOK, WorkerOK, HandInv, SlotPC, Holding, Release
<1>1. \A v \in Worker \ {w} : Holding(v) => ~(cur[v] = cur[w] /\ slot[v] = slot[w])
  BY <1>0 DEF LockInv, ExclusiveDelivery, HoldsSlot, Holding, Release
<1>2. ~Holding(w)'
  BY <1>0 DEF Release, Goto, Holding
<1>3. \A v \in Worker \ {w} : /\ Holding(v)' <=> Holding(v)
                              /\ cur'[v] = cur[v] /\ slot'[v] = slot[v]
  BY <1>0 DEF Release, Forget, Goto, Holding
<1>4. \A v \in Worker \ {w} : Holding(v) => lease'[cur[v]][slot[v]] = lease[cur[v]][slot[v]]
  BY <1>0, <1>1 DEF Release
<1>5. UNCHANGED delivered
  BY DEF Release
<1>. QED
  BY <1>2, <1>3, <1>4, <1>5 DEF LockInv, ClaimHeld, ExclusiveDelivery, HoldsSlot

\* The clock never takes a live claimant's lease to zero.
LEMMA LockTick ==
  ASSUME TypeInv, LockInv, LeaseOutlivesDelivery, Tick PROVE LockInv'
<1>1. \A v \in Worker : Holding(v) => /\ cur[v] \in Incident /\ slot[v] \in Slot
                                      /\ lease[cur[v]][slot[v]] \in Nat
  BY DEF TypeInv, TypeOK, RowOK, WorkerOK, HandInv, SlotPC, Holding
<1>2. UNCHANGED <<pc, cur, slot, delivered>>
  BY DEF Tick, local
<1>3. \A v \in Worker : Holding(v) => lease'[cur[v]][slot[v]] > 0
  BY <1>1 DEF Tick, CountDown
<1>. QED
  BY <1>2, <1>3 DEF LockInv, ClaimHeld, ExclusiveDelivery, HoldsSlot, Holding

\* The steps of a worker that touch neither a lease nor a delivered mark.
LEMMA LockQuiet ==
  ASSUME TypeInv, LockInv, NEW w \in Worker,
         \/ Receive(w) \/ IdleTick(w) \/ Commit(w) \/ Restart(w)
          \/ HandleOpened(w) \/ CheckStale(w) \/ EnsureForProgress(w) \/ Schedule(w)
          \/ MarkResolved(w) \/ Defer(w) \/ Gather(w) \/ Post(w)
          \/ SelectDue(w) \/ SelectPending(w) \/ DrainDone(w) \/ GatherFails(w)
          \/ PostFails(w) \/ MarkFails(w) \/ Crash(w)
  PROVE  LockInv'
<1>0. pc \in [Worker -> PC] /\ cur \in [Worker -> Incident \cup {None}] /\ slot \in [Worker -> Slot]
  BY DEF TypeInv, TypeOK, WorkerOK
<1>. DEFINE Keeps == /\ UNCHANGED <<lease, delivered>>
                    /\ \A v \in Worker : Holding(v)' =>
                         Holding(v) /\ cur'[v] = cur[v] /\ slot'[v] = slot[v]
<1>. USE <1>0 DEF Goto, row, local, Holding
<1>1. CASE Receive(w)
  <2>1. Keeps
    BY <1>1 DEF Receive
  <2>. QED
    BY <2>1, LockFrame
<1>2. CASE IdleTick(w)
  <2>1. Keeps
    BY <1>2 DEF IdleTick
  <2>. QED
    BY <2>1, LockFrame
<1>3. CASE Commit(w)
  <2>1. Keeps
    BY <1>3 DEF Commit, Forget
  <2>. QED
    BY <2>1, LockFrame
<1>4. CASE Restart(w)
  <2>1. Keeps
    BY <1>4 DEF Restart
  <2>. QED
    BY <2>1, LockFrame
<1>5. CASE HandleOpened(w)
  <2>1. Keeps
    BY <1>5 DEF HandleOpened
  <2>. QED
    BY <2>1, LockFrame
<1>6. CASE CheckStale(w)
  <2>1. Keeps
    BY <1>6 DEF CheckStale
  <2>. QED
    BY <2>1, LockFrame
<1>7. CASE EnsureForProgress(w)
  <2>1. Keeps
    BY <1>7 DEF EnsureForProgress
  <2>. QED
    BY <2>1, LockFrame
<1>8. CASE Schedule(w)
  <2>1. Keeps
    BY <1>8 DEF Schedule
  <2>. QED
    BY <2>1, LockFrame
<1>9. CASE MarkResolved(w)
  <2>1. Keeps
    BY <1>9 DEF MarkResolved
  <2>. QED
    BY <2>1, LockFrame
<1>10. CASE Defer(w)
  <2>1. Keeps
    BY <1>10 DEF Defer
  <2>. QED
    BY <2>1, LockFrame
<1>11. CASE Gather(w)
  <2>1. Keeps
    BY <1>11 DEF Gather
  <2>. QED
    BY <2>1, LockFrame
<1>12. CASE Post(w)
  <2>1. Keeps
    BY <1>12 DEF Post
  <2>. QED
    BY <2>1, LockFrame
<1>13. CASE SelectDue(w)
  <2>1. Keeps
    BY <1>13 DEF SelectDue
  <2>. QED
    BY <2>1, LockFrame
<1>14. CASE SelectPending(w)
  <2>1. Keeps
    BY <1>14 DEF SelectPending
  <2>. QED
    BY <2>1, LockFrame
<1>15. CASE DrainDone(w)
  <2>1. Keeps
    BY <1>15 DEF DrainDone, Forget
  <2>. QED
    BY <2>1, LockFrame
<1>16. CASE GatherFails(w)
  <2>1. Keeps
    BY <1>16 DEF GatherFails
  <2>. QED
    BY <2>1, LockFrame
<1>17. CASE PostFails(w)
  <2>1. Keeps
    BY <1>17 DEF PostFails
  <2>. QED
    BY <2>1, LockFrame
<1>18. CASE MarkFails(w)
  <2>1. Keeps
    BY <1>18 DEF MarkFails
  <2>. QED
    BY <2>1, LockFrame
<1>19. CASE Crash(w)
  <2>1. Keeps
    BY <1>19 DEF Crash, Forget
  <2>. QED
    BY <2>1, LockFrame
<1>. QED
  BY <1>1, <1>2, <1>3, <1>4, <1>5, <1>6, <1>7, <1>8, <1>9, <1>10, <1>11, <1>12, <1>13, <1>14, <1>15, <1>16, <1>17, <1>18, <1>19

LEMMA LockNext ==
  ASSUME LeaseOutlivesDelivery, TypeInv, LockInv, [Next]_vars PROVE LockInv'
<1>0. /\ \A w \in Worker : todo[w] \subseteq Incident
      /\ \A i \in Incident, s \in Slot : needed[i][s] \in BOOLEAN
  BY DEF TypeInv, TypeOK, WorkerOK, RowOK
<1>1. ASSUME NEW w \in Worker, ClaimFollowup(w) PROVE LockInv'
  <2>1. cur[w] \in Incident /\ FollowUp(Ev(w)) \in Slot /\ ~Holding(w)
    BY <1>1, EventInHand DEF ClaimFollowup, HandlerPC, FollowUp, Slot, Holding
  <2>. QED
    BY <1>1, <2>1, LockClaim DEF ClaimFollowup, PC
<1>2. ASSUME NEW w \in Worker, ClaimBrief(w) PROVE LockInv'
  <2>1. PICK i \in todo[w] : Claim(w, i, "brief", TRUE, "briefs")
    BY <1>2 DEF ClaimBrief
  <2>2. i \in Incident /\ "brief" \in Slot /\ ~Holding(w) /\ "briefs" \in PC
    BY <1>0, <1>2 DEF ClaimBrief, Slot, Holding, PC
  <2>. QED
    BY <2>1, <2>2, LockClaim
<1>3. ASSUME NEW w \in Worker, ClaimDeferredProgress(w) PROVE LockInv'
  <2>1. PICK i \in todo[w] : Claim(w, i, "progress", needed[i]["progress"], "owed_postmortem")
    BY <1>3 DEF ClaimDeferredProgress
  <2>2. i \in Incident /\ "progress" \in Slot /\ ~Holding(w) /\ "owed_postmortem" \in PC
    BY <1>0, <1>3 DEF ClaimDeferredProgress, Slot, Holding, PC
  <2>3. needed[i]["progress"] \in BOOLEAN
    BY <1>0, <2>2
  <2>. QED
    BY <2>1, <2>2, <2>3, LockClaim
<1>4. ASSUME NEW w \in Worker, ClaimDeferredPostmortem(w) PROVE LockInv'
  <2>1. Claim(w, cur[w], "postmortem", needed[cur[w]]["postmortem"], "next")
    BY <1>4 DEF ClaimDeferredPostmortem
  <2>2. cur[w] \in Incident /\ "postmortem" \in Slot /\ ~Holding(w) /\ "next" \in PC
    BY <1>4, SlotInHand DEF ClaimDeferredPostmortem, SlotPC, Slot, Holding, PC
  <2>3. needed[cur[w]]["postmortem"] \in BOOLEAN
    BY <1>0, <2>2
  <2>. QED
    BY <2>1, <2>2, <2>3, LockClaim
<1>5. ASSUME NEW i \in Incident, NEW w \in Worker, Rebalance(i, w) PROVE LockInv'
  BY <1>5, LockFrame DEF Rebalance, row, local, Holding
<1>6. ASSUME NEW i \in Incident, EmbedderRegisters(i) PROVE LockInv'
  BY <1>6, LockFrame DEF EmbedderRegisters, local, Holding
<1>7. CASE UNCHANGED vars
  BY <1>7, LockFrame DEF vars, row, local, Holding
<1>. QED
  BY <1>1, <1>2, <1>3, <1>4, <1>5, <1>6, <1>7, LockQuiet, LockMark, LockRelease,
     LockTick DEF Next, Step, Failure

(***************************************************************************)
(* A lease that outlives the delivery is a lock, for any number of workers *)
(* and any crashes, rebalances, lost replies and failed deliveries.        *)
(***************************************************************************)
THEOREM LeaseIsALock ==
  ASSUME LeaseOutlivesDelivery PROVE Spec => []ExclusiveDelivery
<1>1. Init => TypeInv /\ LockInv
  BY InitTypeInv DEF Init, LockInv, ClaimHeld, ExclusiveDelivery, HoldsSlot, Holding
<1>2. TypeInv /\ LockInv /\ [Next]_vars => (TypeInv /\ LockInv)'
  BY NextTypeInv, LockNext
<1>3. LockInv => ExclusiveDelivery
  BY DEF LockInv
<1>. QED
  BY <1>1, <1>2, <1>3, PTL DEF Spec

(***************************************************************************)
(* Delivery is final: once a slot is marked delivered, no worker, crashed, *)
(* expelled or late, posts it again.                                       *)
(***************************************************************************)
THEOREM DeliveryIsFinal ==
  ASSUME LeaseOutlivesDelivery PROVE Spec => DeliveredIsFinal
<1>. DEFINE Final == \A i \in Incident, s \in Slot :
                      delivered[i][s] => Shown(i, s)' = Shown(i, s)
<1>1. Init => TypeInv /\ LockInv
  BY InitTypeInv DEF Init, LockInv, ClaimHeld, ExclusiveDelivery, HoldsSlot, Holding
<1>2. TypeInv /\ LockInv /\ [Next]_vars => (TypeInv /\ LockInv)'
  BY NextTypeInv, LockNext
<1>3. TypeInv /\ LockInv /\ [Next]_vars => [Final]_vars
  <2>. SUFFICES ASSUME TypeInv, LockInv, Next PROVE Final
    BY DEF vars
  <2>1. CASE UNCHANGED posts
    BY <2>1 DEF Shown
  <2>2. ASSUME NEW w \in Worker, Holding(w), Show(w) PROVE Final
    <3>. SUFFICES ASSUME NEW i \in Incident, NEW s \in Slot, delivered[i][s]
                 PROVE  Shown(i, s)' = Shown(i, s)
      OBVIOUS
    <3>1. ~delivered[cur[w]][slot[w]] /\ cur[w] \in Incident
      BY <2>2, SlotInHand DEF LockInv, ClaimHeld, Holding, SlotPC
    <3>2. posts \in [Incident -> Seq(Message)]
      BY DEF TypeInv, TypeOK, HistoryOK
    <3>3. CASE i # cur[w]
      BY <2>2, <3>1, <3>2, <3>3 DEF Show, Shown
    <3>4. CASE i = cur[w] /\ s # slot[w]
      <4>1. PICK m : posts'[i] = Append(posts[i], m) /\ m.slot = slot[w]
        BY <2>2, <3>1, <3>2, <3>4 DEF Show
      <4>2. \A k \in DOMAIN posts'[i] : posts'[i][k].slot = s => k \in DOMAIN posts[i]
        BY <3>2, <3>4, <4>1
      <4>3. \A k \in DOMAIN posts[i] : k \in DOMAIN posts'[i] /\ posts'[i][k] = posts[i][k]
        BY <3>2, <4>1
      <4>. QED
        BY <4>2, <4>3 DEF Shown
    <3>. QED
      BY <3>1, <3>3, <3>4
  <2>3. ASSUME NEW w \in Worker, Receive(w) \/ Step(w) \/ Failure(w) PROVE Final
    BY <2>1, <2>2, <2>3 DEF Step, Failure, Receive, IdleTick, Commit, Restart, HandleOpened,
       CheckStale, EnsureForProgress, Schedule, MarkResolved, Defer, ClaimFollowup, Gather,
       Post, Mark, Release, SelectDue, ClaimBrief, SelectPending, ClaimDeferredProgress,
       ClaimDeferredPostmortem, DrainDone, GatherFails, PostFails, MarkFails, Crash, Claim,
       channel, Holding
  <2>4. ASSUME NEW i \in Incident, NEW w \in Worker, Rebalance(i, w) PROVE Final
    BY <2>1, <2>4 DEF Rebalance, channel
  <2>5. ASSUME NEW i \in Incident, EmbedderRegisters(i) PROVE Final
    BY <2>1, <2>5 DEF EmbedderRegisters, channel
  <2>6. CASE Tick
    BY <2>1, <2>6 DEF Tick, channel
  <2>. QED
    BY <2>3, <2>4, <2>5, <2>6 DEF Next
<1>. QED
  BY <1>1, <1>2, <1>3, PTL DEF Spec, DeliveredIsFinal

----------------------------------------------------------------------------
(***************************************************************************)
(* Duplicates.  A slot that nobody has settled or is about to mark shows   *)
(* only copies whose mark is known to be lost; the lock says that a slot   *)
(* about to be posted is of that kind.                                     *)
(***************************************************************************)
Marking(i, s) == \E w \in Worker : pc[w] = "mark" /\ cur[w] = i /\ slot[w] = s
Settling(i, s) == delivered[i][s] \/ Marking(i, s)

\* Copies of a slot in the channel, against the marks that were lost.
Excused(i, s) ==
  /\ IsFiniteSet(Shown(i, s)) /\ Cardinality(Shown(i, s)) \in Nat
  /\ Cardinality(Shown(i, s)) <= lost[i][s] + 1
  /\ ~Settling(i, s) => Cardinality(Shown(i, s)) <= lost[i][s]

DupInv == \A i \in Incident, s \in Slot : Excused(i, s)

\* The channel stays, and what was settled or about to be is so still.
LEMMA DupFrame ==
  ASSUME DupInv, UNCHANGED channel,
         \A i \in Incident, s \in Slot : Settling(i, s) => Settling(i, s)'
  PROVE  DupInv'
<1>. SUFFICES ASSUME NEW i \in Incident, NEW s \in Slot PROVE Excused(i, s)'
  BY DEF DupInv
<1>1. Shown(i, s)' = Shown(i, s) /\ lost' = lost
  BY DEF Shown, channel
<1>. QED
  BY <1>1 DEF DupInv, Excused

\* A worker that is not about to mark takes a step that marks nothing.
LEMMA DupQuiet ==
  ASSUME TypeInv, DupInv, NEW w \in Worker, UNCHANGED <<channel, delivered>>, pc[w] # "mark",
         \A v \in Worker \ {w} : pc'[v] = pc[v] /\ cur'[v] = cur[v] /\ slot'[v] = slot[v]
  PROVE  DupInv'
BY DupFrame DEF Settling, Marking

\* Slack shows one copy more of the slot in hand, and of no other.
LEMMA ShownGrows ==
  ASSUME TypeInv, NEW w \in Worker, cur[w] \in Incident, Show(w),
         NEW i \in Incident, NEW s \in Slot
  PROVE  IF i = cur[w] /\ s = slot[w]
           THEN /\ Shown(i, s)' = Shown(i, s) \cup {Len(posts[i]) + 1}
                /\ Len(posts[i]) + 1 \notin Shown(i, s)
           ELSE Shown(i, s)' = Shown(i, s)
<1>1. posts \in [Incident -> Seq(Message)] /\ slot[w] \in Slot
  BY DEF TypeInv, TypeOK, HistoryOK, WorkerOK
<1>2. CASE i # cur[w]
  BY <1>1, <1>2 DEF Show, Shown
<1>3. CASE i = cur[w]
  <2>1. PICK m : posts'[i] = Append(posts[i], m) /\ m.slot = slot[w]
    BY <1>1, <1>3 DEF Show
  <2>2. DOMAIN posts[i] = 1 .. Len(posts[i]) /\ Len(posts[i]) \in Nat
    BY <1>1
  <2>3. /\ DOMAIN posts'[i] = DOMAIN posts[i] \cup {Len(posts[i]) + 1}
        /\ posts'[i][Len(posts[i]) + 1].slot = slot[w]
        /\ \A k \in DOMAIN posts[i] : posts'[i][k] = posts[i][k]
    BY <1>1, <2>1
  <2>4. Len(posts[i]) + 1 \notin DOMAIN posts[i]
    BY <2>2
  <2>. QED
    BY <1>3, <2>3, <2>4 DEF Shown
<1>. QED
  BY <1>2, <1>3

\* The post of a slot nobody has settled or is about to mark.
LEMMA DupShow ==
  ASSUME TypeInv, LockInv, DupInv, NEW w \in Worker, pc[w] = "post", Show(w),
         UNCHANGED delivered,
         \/ UNCHANGED lost /\ pc' = [pc EXCEPT ![w] = "mark"]
         \/ LoseMark(w) /\ \A v \in Worker \ {w} : pc'[v] = pc[v],
         UNCHANGED <<cur, slot>>
  PROVE  DupInv'
<1>0. /\ cur[w] \in Incident /\ slot[w] \in Slot /\ Holding(w) /\ pc \in [Worker -> PC]
      /\ lost \in [Incident -> [Slot -> Nat]] /\ posts \in [Incident -> Seq(Message)]
  BY SlotInHand DEF TypeInv, TypeOK, HistoryOK, WorkerOK, SlotPC, Holding
<1>1. ~Settling(cur[w], slot[w])
  BY <1>0 DEF Settling, Marking, LockInv, ClaimHeld, ExclusiveDelivery, HoldsSlot, Holding
<1>. SUFFICES ASSUME NEW i \in Incident, NEW s \in Slot PROVE Excused(i, s)'
  BY DEF DupInv
<1>2. Excused(i, s)
  BY DEF DupInv
<1>3. CASE i = cur[w] /\ s = slot[w]
  <2>1. /\ Shown(i, s)' = Shown(i, s) \cup {Len(posts[i]) + 1}
        /\ Len(posts[i]) + 1 \notin Shown(i, s)
    BY <1>0, <1>3, ShownGrows
  <2>2. IsFiniteSet(Shown(i, s)') /\ Cardinality(Shown(i, s)') = Cardinality(Shown(i, s)) + 1
    BY <1>2, <2>1, FS_AddElement DEF Excused
  <2>3. Cardinality(Shown(i, s)) \in Nat /\ Cardinality(Shown(i, s)) <= lost[i][s]
    BY <1>1, <1>2, <1>3 DEF Excused
  <2>4. \/ lost'[i][s] = lost[i][s] /\ Settling(i, s)'
        \/ lost'[i][s] = lost[i][s] + 1
    BY <1>0, <1>3 DEF LoseMark, Settling, Marking
  <2>5. lost[i][s] \in Nat
    BY <1>0
  <2>. QED
    BY <2>2, <2>3, <2>4, <2>5 DEF Excused
<1>4. CASE ~(i = cur[w] /\ s = slot[w])
  <2>1. Shown(i, s)' = Shown(i, s)
    <3>1. CASE i = cur[w] /\ s = slot[w]
      BY <1>4, <3>1
    <3>2. CASE i # cur[w] \/ s # slot[w]
      BY <1>0, <3>2, ShownGrows
    <3>. QED
      BY <3>1, <3>2
  <2>0. lost'[i][s] = lost[i][s]
    <3>1. CASE UNCHANGED lost
      BY <3>1
    <3>2. CASE LoseMark(w) /\ i # cur[w]
      BY <1>0, <3>2 DEF LoseMark
    <3>3. CASE LoseMark(w) /\ s # slot[w]
      BY <1>0, <3>3 DEF LoseMark
    <3>. QED
      BY <1>4, <3>1, <3>2, <3>3
  <2>2. Settling(i, s) => Settling(i, s)'
    BY <1>0, <1>4 DEF Settling, Marking
  <2>. QED
    BY <1>2, <2>0, <2>1, <2>2 DEF Excused
<1>. QED
  BY <1>3, <1>4

\* The mark that never comes.
LEMMA DupLose ==
  ASSUME TypeInv, DupInv, NEW w \in Worker, pc[w] = "mark", LoseMark(w),
         UNCHANGED <<posts, delivered>>,
         \A v \in Worker \ {w} : pc'[v] = pc[v] /\ cur'[v] = cur[v] /\ slot'[v] = slot[v]
  PROVE  DupInv'
<1>0. cur[w] \in Incident /\ slot[w] \in Slot /\ lost \in [Incident -> [Slot -> Nat]]
  BY SlotInHand DEF TypeInv, TypeOK, HistoryOK, WorkerOK, SlotPC
<1>. SUFFICES ASSUME NEW i \in Incident, NEW s \in Slot PROVE Excused(i, s)'
  BY DEF DupInv
<1>1. Excused(i, s) /\ Shown(i, s)' = Shown(i, s) /\ lost[i][s] \in Nat
  BY <1>0 DEF DupInv, Shown
<1>2. CASE i = cur[w] /\ s = slot[w]
  <2>1. lost'[i][s] = lost[i][s] + 1
    BY <1>0, <1>2 DEF LoseMark
  <2>. QED
    BY <1>1, <2>1 DEF Excused
<1>3. CASE ~(i = cur[w] /\ s = slot[w])
  <2>1. lost'[i][s] = lost[i][s]
    BY <1>0, <1>3 DEF LoseMark
  <2>2. Settling(i, s) => Settling(i, s)'
    BY <1>3 DEF Settling, Marking
  <2>. QED
    BY <1>1, <2>1, <2>2 DEF Excused
<1>. QED
  BY <1>2, <1>3

\* The mark settles its slot and unsettles no other.
LEMMA DupMark == ASSUME TypeInv, DupInv, NEW w \in Worker, Mark(w) PROVE DupInv'
<1>0. cur[w] \in Incident /\ slot[w] \in Slot /\ pc \in [Worker -> PC]
      /\ delivered \in [Incident -> [Slot -> BOOLEAN]]
  BY SlotInHand DEF TypeInv, TypeOK, RowOK, WorkerOK, SlotPC, Mark
<1>1. /\ UNCHANGED <<channel, cur, slot>> /\ \A v \in Worker \ {w} : pc'[v] = pc[v]
      /\ delivered' = [delivered EXCEPT ![cur[w]][slot[w]] = TRUE]
  BY <1>0 DEF Mark, local, Goto
<1>2. ASSUME NEW i \in Incident, NEW s \in Slot, Settling(i, s) PROVE Settling(i, s)'
  <2>1. CASE i = cur[w] /\ s = slot[w]
    BY <1>0, <1>1, <2>1 DEF Settling
  <2>2. CASE ~(i = cur[w] /\ s = slot[w])
    BY <1>0, <1>1, <1>2, <2>2 DEF Settling, Marking
  <2>. QED
    BY <2>1, <2>2
<1>. QED
  BY <1>1, <1>2, DupFrame

LEMMA DupNext == ASSUME TypeInv, LockInv, DupInv, [Next]_vars PROVE DupInv'
<1>0. /\ pc \in [Worker -> PC] /\ cur \in [Worker -> Incident \cup {None}]
      /\ slot \in [Worker -> Slot]
  BY DEF TypeInv, TypeOK, WorkerOK
<1>. DEFINE Calm(w) ==
       /\ UNCHANGED <<channel, delivered>> /\ pc[w] # "mark"
       /\ \A v \in Worker \ {w} : pc'[v] = pc[v] /\ cur'[v] = cur[v] /\ slot'[v] = slot[v]
<1>1. ASSUME NEW w \in Worker, Receive(w) PROVE DupInv'
  <2>1. Calm(w)
    BY <1>0, <1>1 DEF Receive, Goto, row
  <2>. QED
    BY <2>1, DupQuiet
<1>2. ASSUME NEW w \in Worker, IdleTick(w) \/ Commit(w) \/ Restart(w) PROVE DupInv'
  <2>1. Calm(w)
    BY <1>0, <1>2 DEF IdleTick, Commit, Restart, Forget, Goto, row, local
  <2>. QED
    BY <2>1, DupQuiet
<1>3. ASSUME NEW w \in Worker,
             HandleOpened(w) \/ CheckStale(w) \/ EnsureForProgress(w) \/ Schedule(w)
      PROVE DupInv'
  <2>1. Calm(w)
    BY <1>0, <1>3 DEF HandleOpened, CheckStale, EnsureForProgress, Schedule, Goto, row, local
  <2>. QED
    BY <2>1, DupQuiet
<1>4. ASSUME NEW w \in Worker, MarkResolved(w) \/ Defer(w) \/ Gather(w) \/ GatherFails(w)
      PROVE DupInv'
  <2>1. Calm(w)
    BY <1>0, <1>4 DEF MarkResolved, Defer, Gather, GatherFails, Goto, row, local
  <2>. QED
    BY <2>1, DupQuiet
<1>5. ASSUME NEW w \in Worker, SelectDue(w) \/ SelectPending(w) \/ DrainDone(w) \/ Release(w)
      PROVE DupInv'
  <2>1. Calm(w)
    BY <1>0, <1>5 DEF SelectDue, SelectPending, DrainDone, Release, Forget, Goto, row, local
  <2>. QED
    BY <2>1, DupQuiet
<1>6. ASSUME NEW w \in Worker, ClaimFollowup(w) \/ ClaimBrief(w) \/ ClaimDeferredProgress(w)
                                \/ ClaimDeferredPostmortem(w)
      PROVE DupInv'
  <2>1. Calm(w)
    BY <1>0, <1>6 DEF ClaimFollowup, ClaimBrief, ClaimDeferredProgress,
       ClaimDeferredPostmortem, Claim, Goto
  <2>. QED
    BY <2>1, DupQuiet
<1>7. ASSUME NEW w \in Worker, Post(w) PROVE DupInv'
  BY <1>7, DupShow DEF Post, row, Goto
<1>8. ASSUME NEW w \in Worker, PostFails(w) PROVE DupInv'
  <2>1. /\ pc[w] = "post" /\ UNCHANGED <<delivered, cur, slot>>
        /\ \A v \in Worker \ {w} : pc'[v] = pc[v]
        /\ UNCHANGED channel \/ (Show(w) /\ LoseMark(w))
    BY <1>0, <1>8 DEF PostFails, row, Goto
  <2>2. CASE UNCHANGED channel
    BY <2>1, <2>2, DupQuiet
  <2>3. CASE Show(w) /\ LoseMark(w)
    BY <2>1, <2>3, DupShow
  <2>. QED
    BY <2>1, <2>2, <2>3
<1>9. ASSUME NEW w \in Worker, MarkFails(w) PROVE DupInv'
  <2>1. /\ pc[w] = "mark" /\ LoseMark(w) /\ UNCHANGED <<posts, delivered>>
        /\ \A v \in Worker \ {w} : pc'[v] = pc[v] /\ cur'[v] = cur[v] /\ slot'[v] = slot[v]
    BY <1>0, <1>9 DEF MarkFails, row, Goto
  <2>. QED
    BY <2>1, DupLose
<1>10. ASSUME NEW w \in Worker, Crash(w) PROVE DupInv'
  <2>1. /\ UNCHANGED <<posts, delivered>>
        /\ IF pc[w] = "mark" THEN LoseMark(w) ELSE UNCHANGED lost
        /\ \A v \in Worker \ {w} : pc'[v] = pc[v] /\ cur'[v] = cur[v] /\ slot'[v] = slot[v]
    BY <1>0, <1>10 DEF Crash, Forget, row, Goto
  <2>2. CASE pc[w] = "mark"
    BY <2>1, <2>2, DupLose
  <2>3. CASE pc[w] # "mark"
    BY <2>1, <2>3, DupQuiet DEF channel
  <2>. QED
    BY <2>2, <2>3
<1>11. ASSUME NEW i \in Incident, NEW w \in Worker, Rebalance(i, w) PROVE DupInv'
  BY <1>11, DupFrame DEF Rebalance, row, local, Settling, Marking
<1>12. ASSUME NEW i \in Incident, EmbedderRegisters(i) PROVE DupInv'
  BY <1>12, DupFrame DEF EmbedderRegisters, local, Settling, Marking
<1>13. CASE Tick
  BY <1>13, DupFrame DEF Tick, local, Settling, Marking
<1>14. CASE UNCHANGED vars
  BY <1>14, DupFrame DEF vars, row, local, Settling, Marking
<1>. QED
  BY <1>1, <1>2, <1>3, <1>4, <1>5, <1>6, <1>7, <1>8, <1>9, <1>10, <1>11, <1>12, <1>13,
     <1>14, DupMark DEF Next, Step, Failure

(***************************************************************************)
(* While leases outlive deliveries a slot is in the channel at most once   *)
(* more often than a mark of it was lost, whatever crashes, failed posts,  *)
(* rebalances and lost replies come together.                              *)
(***************************************************************************)
THEOREM OnlyLostMarksRepeat ==
  ASSUME LeaseOutlivesDelivery PROVE Spec => []DuplicatesAreExcused
<1>1. Init => TypeInv /\ LockInv /\ DupInv
  <2>1. Init => DupInv
    <3>. SUFFICES ASSUME Init, NEW i \in Incident, NEW s \in Slot PROVE Excused(i, s)
      BY DEF DupInv
    <3>1. Shown(i, s) = {} /\ lost[i][s] = 0
      BY DEF Init, Shown
    <3>. QED
      BY <3>1, FS_EmptySet DEF Excused
  <2>. QED
    BY <2>1, InitTypeInv DEF Init, LockInv, ClaimHeld, ExclusiveDelivery, HoldsSlot, Holding
<1>2. TypeInv /\ LockInv /\ DupInv /\ [Next]_vars => (TypeInv /\ LockInv /\ DupInv)'
  BY NextTypeInv, LockNext, DupNext
<1>3. DupInv => DuplicatesAreExcused
  BY DEF DupInv, Excused, DuplicatesAreExcused
<1>. QED
  BY <1>1, <1>2, <1>3, PTL DEF Spec

----------------------------------------------------------------------------
(***************************************************************************)
(* Threading.  A delivered brief left the thread's root in slack_ts; a     *)
(* worker on a follow-up aims at a root, and one about to mark a brief     *)
(* holds the root it has just posted.  No lease is involved, so this holds *)
(* also when leases run out under live workers.                            *)
(***************************************************************************)
Rooted(i, t) == t \in DOMAIN posts[i] /\ posts[i][t].slot = "brief"

RootInv == \A i \in Incident : delivered[i]["brief"] => Rooted(i, slackTs[i])

Aim(w) ==
  /\ Holding(w) /\ slot[w] # "brief" => delivered[cur[w]]["brief"]
  /\ pc[w] \in {"gather", "post"} /\ slot[w] # "brief" => Rooted(cur[w], thread[w])
  /\ pc[w] = "mark" /\ slot[w] = "brief" => Rooted(cur[w], thread[w])

ThreadInv == RootInv /\ (\A w \in Worker : Aim(w)) /\ FollowupsAreThreaded

LEMMA ThreadFrame ==
  ASSUME ThreadInv, UNCHANGED <<posts, delivered, slackTs>>,
         \A v \in Worker : Aim(v)'
  PROVE  ThreadInv'
BY DEF ThreadInv, RootInv, FollowupsAreThreaded, Rooted

\* One worker moves, the others keep their aim.
LEMMA AimFrame ==
  ASSUME ThreadInv, NEW w \in Worker, UNCHANGED <<posts, delivered, slackTs>>,
         \A v \in Worker \ {w} : /\ pc'[v] = pc[v] /\ cur'[v] = cur[v]
                                 /\ slot'[v] = slot[v] /\ thread'[v] = thread[v],
         Aim(w)'
  PROVE  ThreadInv'
<1>1. ASSUME NEW v \in Worker \ {w} PROVE Aim(v)'
  BY <1>1 DEF ThreadInv, Aim, Holding, Rooted
<1>. QED
  BY <1>1, ThreadFrame

LEMMA AimClaim ==
  ASSUME TypeInv, ThreadInv, NEW w \in Worker, NEW i \in Incident, NEW s \in Slot,
         NEW wanted \in BOOLEAN, NEW otherwise \in PC \ {"gather", "post", "mark", "release"},
         Claim(w, i, s, wanted, otherwise), UNCHANGED posts
  PROVE  ThreadInv'
<1>0. /\ pc \in [Worker -> PC] /\ cur \in [Worker -> Incident \cup {None}]
      /\ slot \in [Worker -> Slot] /\ thread \in [Worker -> Nat]
  BY DEF TypeInv, TypeOK, WorkerOK
<1>1. /\ cur' = [cur EXCEPT ![w] = i] /\ slot' = [slot EXCEPT ![w] = s]
      /\ thread' = [thread EXCEPT ![w] = slackTs[i]] /\ UNCHANGED <<delivered, slackTs>>
      /\ \/ Claimable(i, s) /\ pc' = [pc EXCEPT ![w] = "gather"]
         \/ pc' = [pc EXCEPT ![w] = otherwise]
  BY DEF Claim, Goto
<1>2. \A v \in Worker \ {w} : /\ pc'[v] = pc[v] /\ cur'[v] = cur[v]
                              /\ slot'[v] = slot[v] /\ thread'[v] = thread[v]
  BY <1>0, <1>1
<1>3. Aim(w)'
  BY <1>0, <1>1 DEF ThreadInv, RootInv, Aim, Claimable, Holding, Rooted
<1>. QED
  BY <1>1, <1>2, <1>3, AimFrame

\* A post keeps every root a root, and lands in a thread unless it is one.
LEMMA ShowThreads ==
  ASSUME TypeInv, ThreadInv, NEW w \in Worker, pc[w] = "post", Show(w)
  PROVE  /\ \A i \in Incident : \A t : Rooted(i, t) => Rooted(i, t)'
         /\ slot[w] = "brief" => LET n == Len(posts'[cur[w]]) IN
              n \in DOMAIN posts'[cur[w]] /\ posts'[cur[w]][n].slot = "brief"
         /\ FollowupsAreThreaded'
<1>. DEFINE i == cur[w]
            t == IF slot[w] = "brief" THEN 0 ELSE thread[w]
            n == Len(posts[i])
<1>0. i \in Incident /\ posts \in [Incident -> Seq(Message)] /\ n \in Nat
  BY SlotInHand DEF TypeInv, TypeOK, HistoryOK, SlotPC
<1>1. PICK m : m.slot = slot[w] /\ m.thread = t /\ posts' = [posts EXCEPT ![i] = Append(@, m)]
  <2>1. posts' = [posts EXCEPT ![i] = Append(@, [slot |-> slot[w], thread |-> t])]
    BY DEF Show
  <2>2. /\ [slot |-> slot[w], thread |-> t].slot = slot[w]
        /\ [slot |-> slot[w], thread |-> t].thread = t
    OBVIOUS
  <2>. HIDE DEF t
  <2>3. \E m : m = [slot |-> slot[w], thread |-> t]
    OBVIOUS
  <2>. QED
    BY <2>1, <2>2, <2>3, Zenon
<1>2. posts'[i] = Append(posts[i], m) /\ \A j \in Incident \ {i} : posts'[j] = posts[j]
  BY <1>0, <1>1
<1>3. /\ DOMAIN posts'[i] = 1 .. n + 1 /\ Len(posts'[i]) = n + 1 /\ posts'[i][n + 1] = m
      /\ DOMAIN posts[i] = 1 .. n
      /\ \A k \in 1 .. n : posts'[i][k] = posts[i][k]
  BY <1>0, <1>2
<1>4. ASSUME NEW j \in Incident, NEW r, Rooted(j, r) PROVE Rooted(j, r)'
  <2>1. CASE j = i
    BY <1>0, <1>3, <1>4, <2>1 DEF Rooted
  <2>2. CASE j # i
    BY <1>2, <1>4, <2>2 DEF Rooted
  <2>. QED
    BY <2>1, <2>2
<1>5. slot[w] # "brief" => m.thread \in 1 .. n /\ posts[i][m.thread].slot = "brief"
  BY <1>1, <1>3 DEF ThreadInv, Aim, Rooted
<1>6. ASSUME NEW j \in Incident, NEW k \in DOMAIN posts'[j], posts'[j][k].slot # "brief"
      PROVE  /\ posts'[j][k].thread \in 1 .. k - 1
             /\ posts'[j][posts'[j][k].thread].slot = "brief"
  <2>1. CASE j # i
    BY <1>2, <1>6, <2>1 DEF ThreadInv, FollowupsAreThreaded
  <2>2. CASE j = i /\ k \in 1 .. n
    <3>1. posts[i][k].thread \in 1 .. k - 1 /\ posts[i][posts[i][k].thread].slot = "brief"
      BY <1>0, <1>3, <1>6, <2>2 DEF ThreadInv, FollowupsAreThreaded
    <3>2. posts[i][k].thread \in 1 .. n
      BY <1>0, <2>2, <3>1
    <3>. QED
      BY <1>3, <2>2, <3>1, <3>2
  <2>3. CASE j = i /\ k = n + 1
    BY <1>0, <1>1, <1>3, <1>5, <1>6, <2>3
  <2>. QED
    BY <1>3, <2>1, <2>2, <2>3
<1>7. slot[w] = "brief" => LET k == Len(posts'[cur[w]]) IN
        k \in DOMAIN posts'[cur[w]] /\ posts'[cur[w]][k].slot = "brief"
  BY <1>0, <1>1, <1>3
<1>8. FollowupsAreThreaded'
  BY <1>6 DEF FollowupsAreThreaded
<1>. QED
  BY <1>4, <1>7, <1>8

LEMMA ThreadPost ==
  ASSUME TypeInv, ThreadInv, NEW w \in Worker, Post(w) \/ PostFails(w) PROVE ThreadInv'
<1>0. /\ pc \in [Worker -> PC] /\ cur \in [Worker -> Incident \cup {None}]
      /\ slot \in [Worker -> Slot] /\ thread \in [Worker -> Nat]
      /\ \A v \in Worker : Holding(v) => cur[v] \in Incident
  BY DEF TypeInv, TypeOK, WorkerOK, HandInv, SlotPC, Holding
<1>1. pc[w] = "post" /\ UNCHANGED <<cur, slot, delivered, slackTs>> 
  BY DEF Post, PostFails, row
<1>2. \A v \in Worker \ {w} : pc'[v] = pc[v] /\ thread'[v] = thread[v]
  BY <1>0 DEF Post, PostFails, Goto
<1>3. CASE Show(w)
  <2>1. \A i \in Incident : \A t : Rooted(i, t) => Rooted(i, t)'
    BY <1>1, <1>3, ShowThreads
  <2>2. FollowupsAreThreaded' /\ RootInv'
    BY <1>1, <1>3, <2>1, ShowThreads DEF ThreadInv, RootInv, Rooted
  <2>3. \A v \in Worker \ {w} : Aim(v)'
    BY <1>0, <1>1, <1>2, <2>1 DEF ThreadInv, Aim, Holding, Rooted
  <2>4. CASE Post(w)
    <3>1. pc'[w] = "mark" /\ (slot[w] = "brief" => thread'[w] = Len(posts'[cur[w]]))
      BY <1>0, <2>4 DEF Post, Goto
    <3>. QED
      BY <1>0, <1>1, <1>3, <2>2, <2>3, <3>1, ShowThreads DEF ThreadInv, Aim, Holding, Rooted
  <2>5. CASE PostFails(w)
    <3>1. pc'[w] \in {"post", "release"} /\ thread' = thread
      BY <1>0, <1>1, <2>5 DEF PostFails, Goto
    <3>2. Aim(w)'
      BY <1>0, <1>1, <2>1, <3>1 DEF ThreadInv, Aim, Holding, Rooted
    <3>. QED
      BY <2>2, <2>3, <3>2 DEF ThreadInv
  <2>. QED
    BY <2>4, <2>5
<1>4. CASE ~Show(w)
  <2>1. UNCHANGED <<posts, thread>> /\ pc'[w] = "release"
    BY <1>0, <1>4 DEF Post, PostFails, channel, Goto
  <2>2. Aim(w)'
    BY <1>0, <1>1, <2>1 DEF ThreadInv, Aim, Holding
  <2>. QED
    BY <1>1, <1>2, <2>1, <2>2, AimFrame
<1>. QED
  BY <1>3, <1>4

\* The mark of a brief stores the root that was just posted.
LEMMA ThreadMark == ASSUME TypeInv, ThreadInv, NEW w \in Worker, Mark(w) PROVE ThreadInv'
<1>0. /\ pc \in [Worker -> PC] /\ slot[w] \in Slot /\ cur[w] \in Incident
      /\ phase \in [Worker -> {"handle", "briefs", "followups"}]
      /\ delivered \in [Incident -> [Slot -> BOOLEAN]] /\ slackTs \in [Incident -> Nat]
      /\ \A v \in Worker : Holding(v) => cur[v] \in Incident
  BY DEF TypeInv, TypeOK, WorkerOK, RowOK, HandInv, SlotPC, Mark, Holding
<1>1. /\ UNCHANGED <<posts, cur, slot, thread>> /\ pc[w] = "mark"
      /\ delivered' = [delivered EXCEPT ![cur[w]][slot[w]] = TRUE]
      /\ slackTs' = IF slot[w] = "brief" THEN [slackTs EXCEPT ![cur[w]] = thread[w]] ELSE slackTs
  BY DEF Mark, local, channel
<1>2. pc'[w] \notin {"gather", "post", "mark", "release"} /\ \A v \in Worker \ {w} : pc'[v] = pc[v]
  BY <1>0 DEF Mark, Goto, AfterMark
<1>3. \A i \in Incident : delivered'[i]["brief"] =>
        delivered[i]["brief"] \/ (i = cur[w] /\ slot[w] = "brief")
  BY <1>0, <1>1
<1>4. RootInv'
  BY <1>0, <1>1, <1>3 DEF ThreadInv, RootInv, Aim, Rooted
<1>5. \A i \in Incident : delivered[i]["brief"] => delivered'[i]["brief"]
  BY <1>0, <1>1 DEF Slot
<1>6. \A v \in Worker : Aim(v)'
  BY <1>0, <1>1, <1>2, <1>5 DEF ThreadInv, Aim, Holding, Rooted
<1>. QED
  BY <1>1, <1>4, <1>6 DEF ThreadInv, FollowupsAreThreaded

\* The steps of a worker that neither post nor mark nor claim.
LEMMA ThreadQuiet ==
  ASSUME TypeInv, ThreadInv, NEW w \in Worker,
         \/ Receive(w) \/ IdleTick(w) \/ Commit(w) \/ Restart(w)
          \/ HandleOpened(w) \/ CheckStale(w) \/ EnsureForProgress(w) \/ Schedule(w)
          \/ MarkResolved(w) \/ Defer(w) \/ Gather(w) \/ Release(w)
          \/ SelectDue(w) \/ SelectPending(w) \/ DrainDone(w) \/ GatherFails(w)
          \/ MarkFails(w) \/ Crash(w)
  PROVE  ThreadInv'
<1>0. /\ pc \in [Worker -> PC] /\ cur \in [Worker -> Incident \cup {None}]
      /\ slot \in [Worker -> Slot] /\ thread \in [Worker -> Nat]
      /\ pc[w] = "gather" => cur[w] \in Incident
  BY DEF TypeInv, TypeOK, WorkerOK, HandInv, SlotPC
<1>. DEFINE Keeps == /\ UNCHANGED <<posts, delivered, slackTs>>
                    /\ \A v \in Worker \ {w} : /\ pc'[v] = pc[v] /\ cur'[v] = cur[v]
                                               /\ slot'[v] = slot[v] /\ thread'[v] = thread[v]
<1>. USE <1>0 DEF Goto, row, local, channel
<1>1. CASE Receive(w)
  <2>1. Keeps
    BY <1>1 DEF Receive
  <2>2. Aim(w)'
    BY <1>1 DEF Receive, ThreadInv, Aim, Holding, Rooted
  <2>. QED
    BY <2>1, <2>2, AimFrame
<1>2. CASE IdleTick(w)
  <2>1. Keeps
    BY <1>2 DEF IdleTick
  <2>2. Aim(w)'
    BY <1>2 DEF IdleTick, ThreadInv, Aim, Holding, Rooted
  <2>. QED
    BY <2>1, <2>2, AimFrame
<1>3. CASE Commit(w)
  <2>1. Keeps
    BY <1>3 DEF Commit, Forget
  <2>2. Aim(w)'
    BY <1>3 DEF Commit, Forget, ThreadInv, Aim, Holding, Rooted
  <2>. QED
    BY <2>1, <2>2, AimFrame
<1>4. CASE Restart(w)
  <2>1. Keeps
    BY <1>4 DEF Restart
  <2>2. Aim(w)'
    BY <1>4 DEF Restart, ThreadInv, Aim, Holding, Rooted
  <2>. QED
    BY <2>1, <2>2, AimFrame
<1>5. CASE HandleOpened(w)
  <2>1. Keeps
    BY <1>5 DEF HandleOpened
  <2>2. Aim(w)'
    BY <1>5 DEF HandleOpened, ThreadInv, Aim, Holding, Rooted
  <2>. QED
    BY <2>1, <2>2, AimFrame
<1>6. CASE CheckStale(w)
  <2>1. Keeps
    BY <1>6 DEF CheckStale
  <2>2. Aim(w)'
    BY <1>6 DEF CheckStale, ThreadInv, Aim, Holding, Rooted
  <2>. QED
    BY <2>1, <2>2, AimFrame
<1>7. CASE EnsureForProgress(w)
  <2>1. Keeps
    BY <1>7 DEF EnsureForProgress
  <2>2. Aim(w)'
    BY <1>7 DEF EnsureForProgress, ThreadInv, Aim, Holding, Rooted
  <2>. QED
    BY <2>1, <2>2, AimFrame
<1>8. CASE Schedule(w)
  <2>1. Keeps
    BY <1>8 DEF Schedule
  <2>2. Aim(w)'
    BY <1>8 DEF Schedule, ThreadInv, Aim, Holding, Rooted
  <2>. QED
    BY <2>1, <2>2, AimFrame
<1>9. CASE MarkResolved(w)
  <2>1. Keeps
    BY <1>9 DEF MarkResolved
  <2>2. Aim(w)'
    BY <1>9 DEF MarkResolved, ThreadInv, Aim, Holding, Rooted
  <2>. QED
    BY <2>1, <2>2, AimFrame
<1>10. CASE Defer(w)
  <2>1. Keeps
    BY <1>10 DEF Defer
  <2>2. Aim(w)'
    BY <1>10 DEF Defer, ThreadInv, Aim, Holding, Rooted
  <2>. QED
    BY <2>1, <2>2, AimFrame
<1>11. CASE Gather(w)
  <2>1. Keeps
    BY <1>11 DEF Gather
  <2>2. Aim(w)'
    BY <1>11 DEF Gather, RootInv, ThreadInv, Aim, Holding, Rooted
  <2>. QED
    BY <2>1, <2>2, AimFrame
<1>12. CASE Release(w)
  <2>1. Keeps
    BY <1>12 DEF Release, Forget
  <2>2. Aim(w)'
    BY <1>12 DEF Release, Forget, ThreadInv, Aim, Holding, Rooted
  <2>. QED
    BY <2>1, <2>2, AimFrame
<1>13. CASE SelectDue(w)
  <2>1. Keeps
    BY <1>13 DEF SelectDue
  <2>2. Aim(w)'
    BY <1>13 DEF SelectDue, ThreadInv, Aim, Holding, Rooted
  <2>. QED
    BY <2>1, <2>2, AimFrame
<1>14. CASE SelectPending(w)
  <2>1. Keeps
    BY <1>14 DEF SelectPending
  <2>2. Aim(w)'
    BY <1>14 DEF SelectPending, ThreadInv, Aim, Holding, Rooted
  <2>. QED
    BY <2>1, <2>2, AimFrame
<1>15. CASE DrainDone(w)
  <2>1. Keeps
    BY <1>15 DEF DrainDone, Forget
  <2>2. Aim(w)'
    BY <1>15 DEF DrainDone, Forget, ThreadInv, Aim, Holding, Rooted
  <2>. QED
    BY <2>1, <2>2, AimFrame
<1>16. CASE GatherFails(w)
  <2>1. Keeps
    BY <1>16 DEF GatherFails
  <2>2. Aim(w)'
    BY <1>16 DEF GatherFails, ThreadInv, Aim, Holding, Rooted
  <2>. QED
    BY <2>1, <2>2, AimFrame
<1>17. CASE MarkFails(w)
  <2>1. Keeps
    BY <1>17 DEF MarkFails
  <2>2. Aim(w)'
    BY <1>17 DEF MarkFails, ThreadInv, Aim, Holding, Rooted
  <2>. QED
    BY <2>1, <2>2, AimFrame
<1>18. CASE Crash(w)
  <2>1. Keeps
    BY <1>18 DEF Crash, Forget
  <2>2. Aim(w)'
    BY <1>18 DEF Crash, Forget, ThreadInv, Aim, Holding, Rooted
  <2>. QED
    BY <2>1, <2>2, AimFrame
<1>. QED
  BY <1>1, <1>2, <1>3, <1>4, <1>5, <1>6, <1>7, <1>8, <1>9, <1>10, <1>11, <1>12, <1>13, <1>14, <1>15, <1>16, <1>17, <1>18

LEMMA ThreadNext == ASSUME TypeInv, ThreadInv, [Next]_vars PROVE ThreadInv'
<1>0. /\ \A w \in Worker : todo[w] \subseteq Incident
      /\ \A i \in Incident, s \in Slot : needed[i][s] \in BOOLEAN
  BY DEF TypeInv, TypeOK, WorkerOK, RowOK
<1>1. ASSUME NEW w \in Worker, ClaimFollowup(w) PROVE ThreadInv'
  <2>1. cur[w] \in Incident /\ FollowUp(Ev(w)) \in Slot
    BY <1>1, EventInHand DEF ClaimFollowup, HandlerPC, FollowUp, Slot
  <2>2. Claim(w, cur[w], FollowUp(Ev(w)), TRUE, "drain") /\ UNCHANGED posts
    BY <1>1 DEF ClaimFollowup, Claim, channel
  <2>. QED
    BY <2>1, <2>2, AimClaim DEF PC
<1>2. ASSUME NEW w \in Worker, ClaimBrief(w) PROVE ThreadInv'
  <2>1. PICK i \in todo[w] : Claim(w, i, "brief", TRUE, "briefs") /\ UNCHANGED posts
    BY <1>2 DEF ClaimBrief, Claim, channel
  <2>2. i \in Incident /\ "brief" \in Slot /\ "briefs" \in PC
    BY <1>0 DEF Slot, PC
  <2>. QED
    BY <2>1, <2>2, AimClaim
<1>3. ASSUME NEW w \in Worker, ClaimDeferredProgress(w) PROVE ThreadInv'
  <2>1. PICK i \in todo[w] :
          Claim(w, i, "progress", needed[i]["progress"], "owed_postmortem") /\ UNCHANGED posts
    BY <1>3 DEF ClaimDeferredProgress, Claim, channel
  <2>2. i \in Incident /\ "progress" \in Slot /\ "owed_postmortem" \in PC
    BY <1>0 DEF Slot, PC
  <2>3. needed[i]["progress"] \in BOOLEAN
    BY <1>0, <2>2
  <2>. QED
    BY <2>1, <2>2, <2>3, AimClaim
<1>4. ASSUME NEW w \in Worker, ClaimDeferredPostmortem(w) PROVE ThreadInv'
  <2>1. Claim(w, cur[w], "postmortem", needed[cur[w]]["postmortem"], "next") /\ UNCHANGED posts
    BY <1>4 DEF ClaimDeferredPostmortem, Claim, channel
  <2>2. cur[w] \in Incident /\ "postmortem" \in Slot /\ "next" \in PC
    BY <1>4, SlotInHand DEF ClaimDeferredPostmortem, SlotPC, Slot, PC
  <2>3. needed[cur[w]]["postmortem"] \in BOOLEAN
    BY <1>0, <2>2
  <2>. QED
    BY <2>1, <2>2, <2>3, AimClaim
<1>5. CASE (\E i \in Incident, w \in Worker : Rebalance(i, w))
        \/ (\E i \in Incident : EmbedderRegisters(i)) \/ Tick \/ UNCHANGED vars
  <2>1. UNCHANGED <<posts, delivered, slackTs, pc, cur, slot, thread>>
    BY <1>5 DEF Rebalance, EmbedderRegisters, Tick, vars, row, local, channel
  <2>2. \A v \in Worker : Aim(v)'
    BY <2>1 DEF ThreadInv, Aim, Holding, Rooted
  <2>. QED
    BY <2>1, <2>2, ThreadFrame
<1>. QED
  BY <1>1, <1>2, <1>3, <1>4, <1>5, ThreadQuiet, ThreadPost, ThreadMark
     DEF Next, Step, Failure

(***************************************************************************)
(* Every follow-up is a reply to an opening brief already in the channel,  *)
(* whatever the leases, the workers and the failures do.                   *)
(***************************************************************************)
THEOREM FollowupsStayInThread == Spec => []FollowupsAreThreaded
<1>1. Init => TypeInv /\ ThreadInv
  <2>1. Init => ThreadInv
    BY DEF Init, ThreadInv, RootInv, Aim, Holding, FollowupsAreThreaded, Slot
  <2>. QED
    BY <2>1, InitTypeInv
<1>2. TypeInv /\ ThreadInv /\ [Next]_vars => (TypeInv /\ ThreadInv)'
  BY NextTypeInv, ThreadNext
<1>3. ThreadInv => FollowupsAreThreaded
  BY DEF ThreadInv
<1>. QED
  BY <1>1, <1>2, <1>3, PTL DEF Spec

----------------------------------------------------------------------------
(***************************************************************************)
(* Committed intents.  What a row owes, has delivered and knows is only    *)
(* ever added to, so an event that is settled stays settled.  A worker     *)
(* that has an event in hand received it behind settled events, and past   *)
(* the writes of handle_lifecycle the event is settled itself; a `resolved`*)
(* one that found no row is, because no event before it had created one.   *)
(***************************************************************************)
Settled(i, k) == LET ev == log[i][k] IN
  \/ ev.type = "opened" /\ Aged(ev)
  \/ ev.type # "opened" /\ Stale(i, ev)
  \/ ev.type = "resolved" /\ ~RowEnsuredBefore(i, k)
  \/ IntentKept(i, ev)

SettledUpTo(i, n) == \A k \in 1 .. n : Settled(i, k)

Owes(i, s) == needed[i][s] \/ delivered[i][s]

\* Only an incident with a row owes anything.
RowFirst == \A i \in Incident, s \in Slot : Owes(i, s) => opened[i] # None

ResolvedRow == \A i \in Incident : resolvedAt[i] # None => opened[i] # None

Writing == {"handle", "ensure", "schedule", "resolve", "defer"}

\* What a worker knows at each statement of handle_lifecycle.
Known(w) ==
  /\ pc[w] = "ensure" => Ev(w).type = "in_progress"
  /\ pc[w] = "schedule" => opened[cur[w]] # None /\ Ev(w).type \in {"opened", "in_progress"}
  /\ pc[w] = "resolve" => Ev(w).type = "resolved"
  /\ pc[w] = "defer" =>
       /\ Ev(w).type \in {"in_progress", "resolved"}
       /\ Ev(w).type = "in_progress" => opened[cur[w]] # None /\ Owes(cur[w], "brief")
       /\ Ev(w).type = "resolved" => \/ resolvedAt[cur[w]] # None
                                     \/ ~RowEnsuredBefore(src[w], off[w])

\* What it has in hand.
InHand(w) ==
  /\ pc[w] \in {"poll", "down"} => src[w] = None
  /\ src[w] \in Incident => SettledUpTo(src[w], off[w] - 1)
  /\ src[w] \in Incident /\ pc[w] \notin Writing => Settled(src[w], off[w])
  /\ \A i \in todo[w] : opened[i] # None
  /\ Holding(w) => opened[cur[w]] # None

IntentInv ==
  /\ RowFirst /\ ResolvedRow
  /\ \A i \in Incident : SettledUpTo(i, committed[i])
  /\ \A w \in Worker : Known(w) /\ InHand(w)

\* A row only grows.
Grows ==
  /\ UNCHANGED log
  /\ \A i \in Incident : opened[i] # None => opened'[i] = opened[i]
  /\ \A i \in Incident : resolvedAt[i] # None => resolvedAt'[i] # None
  /\ \A i \in Incident, s \in Slot : Owes(i, s) => Owes(i, s)'

LEMMA Types ==
  ASSUME TypeInv
  PROVE  /\ opened \in [Incident -> Int \cup {None}]
         /\ resolvedAt \in [Incident -> Int \cup {None}]
         /\ needed \in [Incident -> [Slot -> BOOLEAN]]
         /\ delivered \in [Incident -> [Slot -> BOOLEAN]]
         /\ committed \in [Incident -> Nat] /\ log \in [Incident -> Seq(Event)]
         /\ pc \in [Worker -> PC] /\ src \in [Worker -> Incident \cup {None}]
         /\ off \in [Worker -> Nat] /\ cur \in [Worker -> Incident \cup {None}]
         /\ todo \in [Worker -> SUBSET Incident] /\ slot \in [Worker -> Slot]
BY DEF TypeInv, TypeOK, RowOK, TopicOK, WorkerOK

LEMMA SettledStays ==
  ASSUME Grows, NEW i \in Incident, NEW k, Settled(i, k)
  PROVE  Settled(i, k)'
<1>. DEFINE ev == log[i][k]
<1>1. FollowUp(ev) \in Slot /\ "brief" \in Slot
  BY DEF FollowUp, Slot
<1>2. /\ log'[i][k] = ev /\ RowEnsuredBefore(i, k)' = RowEnsuredBefore(i, k)
  BY DEF Grows, RowEnsuredBefore
<1>3. Stale(i, ev) => Stale(i, ev)'
  BY DEF Grows, Stale
<1>4. IntentKept(i, ev) => IntentKept(i, ev)'
  BY <1>1 DEF Grows, IntentKept, Owes
<1>. QED
  BY <1>2, <1>3, <1>4 DEF Settled, Stale, IntentKept

LEMMA SettledUpToStays ==
  ASSUME Grows, NEW i \in Incident, NEW n, SettledUpTo(i, n)
  PROVE  \A k \in 1 .. n : Settled(i, k)'
BY SettledStays DEF SettledUpTo

\* Workers that do not move.
LEMMA IntentFrame ==
  ASSUME TypeInv, IntentInv, Grows, NEW v \in Worker,
         pc'[v] = pc[v], src'[v] = src[v], off'[v] = off[v], cur'[v] = cur[v],
         todo'[v] = todo[v]
  PROVE  Known(v)' /\ InHand(v)'
<1>1. Known(v) /\ InHand(v) /\ "brief" \in Slot
  BY DEF IntentInv, Slot
<1>2. /\ pc[v] \in HandlerPC => src[v] \in Incident /\ cur[v] = src[v]
      /\ Holding(v) => cur[v] \in Incident
  BY DEF TypeInv, HandInv, SlotPC, Holding
<1>3. Ev(v)' = Ev(v) /\ RowEnsuredBefore(src[v], off[v])' = RowEnsuredBefore(src[v], off[v])
  BY DEF Ev, Grows, RowEnsuredBefore
<1>4. Known(v)'
  <2>1. pc[v] = "ensure" => (Ev(v).type = "in_progress")'
    BY <1>1, <1>3 DEF Known
  <2>2. pc[v] = "schedule" => /\ (opened[cur[v]] # None)'
                              /\ (Ev(v).type \in {"opened", "in_progress"})'
    BY <1>1, <1>2, <1>3 DEF Known, Grows, HandlerPC
  <2>3. pc[v] = "resolve" => (Ev(v).type = "resolved")'
    BY <1>1, <1>3 DEF Known
  <2>4. ASSUME pc[v] = "defer"
        PROVE  /\ Ev(v)'.type \in {"in_progress", "resolved"}
               /\ Ev(v)'.type = "in_progress" => opened'[cur[v]] # None /\ Owes(cur[v], "brief")'
               /\ Ev(v)'.type = "resolved" =>
                    resolvedAt'[cur[v]] # None \/ ~RowEnsuredBefore(src[v], off[v])
    BY <1>1, <1>2, <1>3, <2>4 DEF Known, Grows, HandlerPC
  <2>. QED
    BY <1>3, <2>1, <2>2, <2>3, <2>4 DEF Known, Owes, RowEnsuredBefore
<1>5. InHand(v)'
  <2>1. src[v] \in Incident => SettledUpTo(src[v], off[v] - 1)'
    BY <1>1, SettledUpToStays DEF InHand, SettledUpTo
  <2>2. src[v] \in Incident /\ pc[v] \notin Writing => Settled(src[v], off[v])'
    BY <1>1, SettledStays DEF InHand
  <2>3. \A i \in todo[v] : opened'[i] # None
    BY <1>1, Types DEF InHand, Grows
  <2>4. Holding(v) => opened'[cur[v]] # None
    BY <1>1, <1>2 DEF InHand, Grows
  <2>. QED
    BY <1>1, <2>1, <2>2, <2>3, <2>4 DEF InHand, SettledUpTo, Settled, Holding
<1>. QED
  BY <1>4, <1>5

\* A step of one worker that leaves the offsets alone.
LEMMA IntentStep ==
  ASSUME TypeInv, IntentInv, Grows, UNCHANGED committed, NEW w \in Worker,
         RowFirst' /\ ResolvedRow', Known(w)', InHand(w)',
         \A v \in Worker \ {w} : /\ pc'[v] = pc[v] /\ src'[v] = src[v] /\ off'[v] = off[v]
                                 /\ cur'[v] = cur[v] /\ todo'[v] = todo[v]
  PROVE  IntentInv'
<1>1. \A v \in Worker : Known(v)' /\ InHand(v)'
  BY IntentFrame
<1>2. \A i \in Incident : SettledUpTo(i, committed[i])'
  BY SettledUpToStays DEF IntentInv, SettledUpTo
<1>. QED
  BY <1>1, <1>2 DEF IntentInv

\* Statements that leave the row's marks and times alone.
LEMMA QuietRow ==
  ASSUME IntentInv, UNCHANGED <<log, opened, resolvedAt, needed, delivered>>
  PROVE  Grows /\ RowFirst' /\ ResolvedRow'
BY DEF IntentInv, Grows, RowFirst, ResolvedRow, Owes

\* A worker with nothing in hand.
LEMMA Forgotten ==
  ASSUME TypeInv, NEW w \in Worker, Forget(w)
  PROVE  /\ src'[w] = None /\ todo'[w] = {} /\ src'[w] \notin Incident
         /\ \A v \in Worker \ {w} : /\ src'[v] = src[v] /\ off'[v] = off[v]
                                    /\ cur'[v] = cur[v] /\ todo'[v] = todo[v]
BY Types, DeliveryAssumption DEF Forget

LEMMA IntentReceive == ASSUME TypeInv, IntentInv, NEW w \in Worker, Receive(w) PROVE IntentInv'
<1>. USE DEF Receive, Goto, row
<1>1. Grows /\ RowFirst' /\ ResolvedRow'
  BY QuietRow
<1>2. PICK i \in Incident : /\ src' = [src EXCEPT ![w] = i] /\ cur' = [cur EXCEPT ![w] = i]
                            /\ off' = [off EXCEPT ![w] = committed[i] + 1]
  OBVIOUS
<1>3. /\ pc'[w] = "handle" /\ src'[w] = i /\ off'[w] - 1 = committed[i]
      /\ todo'[w] = todo[w]
  BY <1>2, Types
<1>4. SettledUpTo(i, committed[i])'
  BY <1>1, SettledUpToStays DEF IntentInv, SettledUpTo
<1>5. InHand(w)'
  BY <1>3, <1>4, Types DEF InHand, SettledUpTo, Settled, IntentInv, Writing, Holding
<1>6. Known(w)'
  BY <1>3 DEF Known
<1>. QED
  BY <1>1, <1>2, <1>5, <1>6, IntentStep, Types

\* Steps behind handle_lifecycle, and between messages: what is in hand stays.
LEMMA IntentBehind ==
  ASSUME TypeInv, IntentInv, Grows, RowFirst' /\ ResolvedRow', UNCHANGED <<committed, src, off>>,
         NEW w \in Worker, pc[w] \notin Writing, pc'[w] \notin Writing,
         pc'[w] \in {"poll", "down"} => src[w] = None,
         \A i \in todo'[w] : i \in Incident /\ opened[i] # None,
         Holding(w)' => opened[cur'[w]] # None /\ cur'[w] \in Incident,
         \A v \in Worker \ {w} : /\ pc'[v] = pc[v] /\ cur'[v] = cur[v] /\ todo'[v] = todo[v]
  PROVE  IntentInv'
<1>1. InHand(w)
  BY DEF IntentInv
<1>2. src[w] \in Incident => SettledUpTo(src[w], off[w] - 1)'
  BY <1>1, SettledUpToStays DEF InHand, SettledUpTo
<1>3. src[w] \in Incident => Settled(src[w], off[w])'
  BY <1>1, SettledStays DEF InHand
<1>4. \A i \in todo'[w] : opened'[i] # None
  BY DEF Grows
<1>5. InHand(w)'
  BY <1>2, <1>3, <1>4 DEF InHand, SettledUpTo, Settled, Grows
<1>6. Known(w)'
  BY DEF Known, Writing
<1>. QED
  BY <1>5, <1>6, IntentStep

LEMMA IntentIdle == ASSUME TypeInv, IntentInv, NEW w \in Worker, IdleTick(w) PROVE IntentInv'
<1>. USE DEF IdleTick, Goto, row, local
<1>1. Grows /\ RowFirst' /\ ResolvedRow'
  BY QuietRow
<1>2. pc'[w] = "drain" /\ \A v \in Worker \ {w} : pc'[v] = pc[v]
  BY Types
<1>. QED
  BY <1>1, <1>2, IntentBehind, Types DEF IntentInv, InHand, Writing, Holding

LEMMA IntentCommit == ASSUME TypeInv, IntentInv, NEW w \in Worker, Commit(w) PROVE IntentInv'
<1>. USE DEF Commit, Goto, row
<1>1. Grows /\ RowFirst' /\ ResolvedRow'
  BY QuietRow
<1>2. /\ pc'[w] \in {"poll", "down"}
      /\ \A v \in Worker \ {w} : pc'[v] = pc[v]
  BY Types
<1>3. Known(w)' /\ InHand(w)'
  BY <1>2, Forgotten DEF Known, InHand, Holding
<1>4. \A v \in Worker : Known(v)' /\ InHand(v)'
  BY <1>1, <1>2, <1>3, Forgotten, IntentFrame
<1>5. ASSUME NEW i \in Incident PROVE SettledUpTo(i, committed[i])'
  <2>1. CASE committed'[i] = committed[i]
    BY <1>1, <2>1, SettledUpToStays DEF IntentInv, SettledUpTo
  <2>2. CASE committed'[i] # committed[i]
    <3>1. PICK n \in Nat : src[w] = i /\ off[w] = n /\ committed'[i] = n
      BY <2>2, Types
    <3>2. SettledUpTo(i, n - 1) /\ Settled(i, n)
      BY <3>1 DEF IntentInv, InHand, Writing
    <3>3. \A k \in 1 .. n - 1 : Settled(i, k)'
      BY <1>1, <3>2, SettledUpToStays
    <3>4. Settled(i, n)'
      BY <1>1, <3>2, SettledStays
    <3>5. \A k \in 1 .. n : k \in 1 .. n - 1 \/ k = n
      OBVIOUS
    <3>. QED
      BY <3>1, <3>3, <3>4, <3>5 DEF SettledUpTo
  <2>. QED
    BY <2>1, <2>2
<1>. QED
  BY <1>1, <1>4, <1>5 DEF IntentInv

\* Ensure fixes opened_at, if nobody has.
LEMMA EnsureGrows ==
  ASSUME TypeInv, IntentInv, NEW i \in Incident, NEW t \in Int, Ensure(i, t),
         UNCHANGED <<log, resolvedAt, needed, delivered>>
  PROVE  Grows /\ RowFirst' /\ ResolvedRow' /\ opened'[i] # None
<1>1. \A j \in Incident : opened[j] # None => opened'[j] = opened[j]
  BY DEF Ensure
<1>2. opened'[i] # None
  BY Types, DeliveryAssumption DEF Ensure
<1>. QED
  BY <1>1, <1>2 DEF Grows, RowFirst, ResolvedRow, Owes, IntentInv

\* handle_lifecycle on w: its event, and what the step must show.
LEMMA IntentWriting ==
  ASSUME TypeInv, IntentInv, Grows, RowFirst' /\ ResolvedRow', NEW w \in Worker, pc[w] \in Writing,
         UNCHANGED <<committed, src, off, cur, todo>>, pc'[w] \notin {"poll", "down"},
         ~Holding(w)', \A v \in Worker \ {w} : pc'[v] = pc[v],
         pc'[w] \notin Writing => Settled(src[w], off[w])',
         Known(w)'
  PROVE  IntentInv'
<1>1. InHand(w)
  BY DEF IntentInv
<1>2. src[w] \in Incident => SettledUpTo(src[w], off[w] - 1)'
  BY <1>1, SettledUpToStays DEF InHand, SettledUpTo
<1>3. \A i \in todo[w] : opened'[i] # None
  BY <1>1, Types DEF InHand, Grows
<1>4. InHand(w)'
  BY <1>2, <1>3 DEF InHand, SettledUpTo, Settled
<1>. QED
  BY <1>4, IntentStep

\* The event in hand.
LEMMA EventFacts ==
  ASSUME TypeInv, NEW w \in Worker, pc[w] \in HandlerPC
  PROVE  /\ src[w] \in Incident /\ cur[w] = src[w] /\ off[w] \in Nat \ {0}
         /\ Ev(w) = log[src[w]][off[w]]
         /\ Ev(w).ts \in Int /\ Ev(w).type \in {"opened", "in_progress", "resolved"}
BY EventInHand DEF TypeInv, HandInv, Ev, Event, EventType

LEMMA IntentHandleOpened ==
  ASSUME TypeInv, IntentInv, NEW w \in Worker, HandleOpened(w) PROVE IntentInv'
<1>. USE DEF HandleOpened, Goto, topic, local
<1>0. pc[w] \in HandlerPC /\ pc[w] \in Writing
  BY DEF HandlerPC, Writing
<1>1. CASE Aged(Ev(w))
  <2>1. Grows /\ RowFirst' /\ ResolvedRow'
    BY <1>1, QuietRow
  <2>2. pc'[w] = "drain" /\ \A v \in Worker \ {w} : pc'[v] = pc[v]
    BY <1>1, Types
  <2>3. Settled(src[w], off[w])'
    BY <1>0, <1>1, EventFacts DEF Settled, Aged
  <2>. QED
    BY <1>0, <2>1, <2>2, <2>3, IntentWriting DEF Known, Holding
<1>2. CASE ~Aged(Ev(w))
  <2>1. Grows /\ RowFirst' /\ ResolvedRow' /\ opened'[cur[w]] # None
    BY <1>0, <1>2, EventFacts, EnsureGrows
  <2>2. pc'[w] = "schedule" /\ \A v \in Worker \ {w} : pc'[v] = pc[v]
    BY <1>2, Types
  <2>3. Known(w)'
    BY <2>1, <2>2 DEF Known, Ev
  <2>. QED
    BY <1>0, <2>1, <2>2, <2>3, IntentWriting DEF Writing, Holding
<1>. QED
  BY <1>1, <1>2

LEMMA IntentCheckStale ==
  ASSUME TypeInv, IntentInv, NEW w \in Worker, CheckStale(w) PROVE IntentInv'
<1>. USE DEF CheckStale, Goto, topic, local, row
<1>0. pc[w] \in HandlerPC /\ pc[w] \in Writing
  BY DEF HandlerPC, Writing
<1>1. Grows /\ RowFirst' /\ ResolvedRow'
  BY QuietRow
<1>2. \A v \in Worker \ {w} : pc'[v] = pc[v]
  BY Types
<1>3. CASE Stale(cur[w], Ev(w))
  <2>1. pc'[w] = "drain"
    BY <1>3, Types
  <2>2. Settled(src[w], off[w])
    BY <1>0, <1>3, EventFacts DEF Settled
  <2>3. Settled(src[w], off[w])'
    BY <1>0, <1>1, <2>2, EventFacts, SettledStays
  <2>. QED
    BY <1>0, <1>1, <1>2, <2>1, <2>3, IntentWriting DEF Known, Holding
<1>4. CASE ~Stale(cur[w], Ev(w))
  <2>1. pc'[w] = IF Ev(w).type = "in_progress" THEN "ensure" ELSE "resolve"
    BY <1>4, Types
  <2>2. Known(w)'
    BY <1>0, <2>1, EventFacts DEF Known, Ev
  <2>. QED
    BY <1>0, <1>1, <1>2, <2>1, <2>2, IntentWriting DEF Writing, Holding
<1>. QED
  BY <1>3, <1>4

LEMMA IntentEnsure ==
  ASSUME TypeInv, IntentInv, NEW w \in Worker, EnsureForProgress(w) PROVE IntentInv'
<1>. USE DEF EnsureForProgress, Goto, topic, local
<1>0. pc[w] \in HandlerPC /\ pc[w] \in Writing /\ Known(w)
  BY DEF HandlerPC, Writing, IntentInv
<1>1. Grows /\ RowFirst' /\ ResolvedRow' /\ opened'[cur[w]] # None
  BY <1>0, EventFacts, EnsureGrows
<1>2. pc'[w] = "schedule" /\ \A v \in Worker \ {w} : pc'[v] = pc[v]
  BY Types
<1>3. Known(w)'
  BY <1>0, <1>1, <1>2 DEF Known, Ev
<1>. QED
  BY <1>0, <1>1, <1>2, <1>3, IntentWriting DEF Writing, Holding

LEMMA IntentSchedule ==
  ASSUME TypeInv, IntentInv, NEW w \in Worker, Schedule(w) PROVE IntentInv'
<1>. USE DEF Schedule, Goto, topic, local
<1>0. /\ pc[w] \in HandlerPC /\ pc[w] \in Writing
      /\ opened[cur[w]] # None /\ Ev(w).type \in {"opened", "in_progress"}
      /\ "brief" \in Slot /\ cur[w] \in Incident
  BY EventFacts DEF HandlerPC, Writing, IntentInv, Known, Slot
<1>1. Owes(cur[w], "brief")'
  BY <1>0, Types DEF Owes
<1>2. \A i \in Incident, s \in Slot : Owes(i, s)' => Owes(i, s) \/ i = cur[w]
  BY <1>0, Types DEF Owes
<1>3. Grows
  <2>1. \A i \in Incident, s \in Slot : needed[i][s] => needed'[i][s]
    <3>1. CASE UNCHANGED needed
      BY <3>1
    <3>2. CASE needed' = [needed EXCEPT ![cur[w]]["brief"] = TRUE]
      BY <1>0, <3>2, Types
    <3>. QED
      BY <3>1, <3>2
  <2>. QED
    BY <2>1 DEF Grows, Owes
<1>4. RowFirst' /\ ResolvedRow'
  BY <1>0, <1>2 DEF RowFirst, ResolvedRow, IntentInv
<1>5. \A v \in Worker \ {w} : pc'[v] = pc[v]
  BY Types
<1>6. CASE Ev(w).type = "opened"
  <2>1. pc'[w] = "drain"
    BY <1>6, Types
  <2>2. Settled(src[w], off[w])'
    BY <1>0, <1>1, <1>6, EventFacts DEF Settled, IntentKept, Owes
  <2>. QED
    BY <1>0, <1>3, <1>4, <1>5, <2>1, <2>2, IntentWriting DEF Known, Holding
<1>7. CASE Ev(w).type # "opened"
  <2>1. pc'[w] = "defer"
    BY <1>7, Types
  <2>2. Known(w)'
    BY <1>0, <1>1, <1>7, <2>1 DEF Known, Ev, Owes
  <2>. QED
    BY <1>0, <1>3, <1>4, <1>5, <2>1, <2>2, IntentWriting DEF Writing, Holding
<1>. QED
  BY <1>6, <1>7

LEMMA IntentResolve ==
  ASSUME TypeInv, IntentInv, NEW w \in Worker, MarkResolved(w) PROVE IntentInv'
<1>. USE DEF MarkResolved, Goto, topic, local
<1>0. /\ pc[w] \in HandlerPC /\ pc[w] \in Writing /\ Ev(w).type = "resolved"
      /\ cur[w] = src[w] /\ cur[w] \in Incident /\ Ev(w).ts \in Int
  BY EventFacts DEF HandlerPC, Writing, IntentInv, Known
<1>1. \A i \in Incident : resolvedAt[i] # None => resolvedAt'[i] # None
  BY <1>0, Types, DeliveryAssumption
<1>2. Grows /\ RowFirst' /\ ResolvedRow'
  BY <1>1 DEF Grows, RowFirst, ResolvedRow, Owes, IntentInv
<1>3. pc'[w] = "defer" /\ \A v \in Worker \ {w} : pc'[v] = pc[v]
  BY Types
<1>4. resolvedAt'[cur[w]] # None \/ ~RowEnsuredBefore(src[w], off[w])
  <2>1. CASE opened[cur[w]] # None
    BY <1>0, <2>1, Types, DeliveryAssumption
  <2>2. CASE opened[cur[w]] = None
    <3>. SUFFICES ASSUME NEW j \in 1 .. off[w] - 1,
                         LET ev == log[src[w]][j] IN
                           \/ ev.type = "opened" /\ ~Aged(ev)
                           \/ ev.type = "in_progress"
                  PROVE  FALSE
      BY DEF RowEnsuredBefore
    <3>1. Settled(src[w], j)
      BY <1>0 DEF IntentInv, InHand, SettledUpTo
    <3>2. "brief" \in Slot /\ ~Owes(cur[w], "brief")
      BY <1>0, <2>2 DEF IntentInv, RowFirst, Slot
    <3>. QED
      BY <1>0, <2>2, <3>1, <3>2 DEF Settled, Stale, IntentKept, Owes
  <2>. QED
    BY <2>1, <2>2
<1>5. Known(w)'
  BY <1>0, <1>3, <1>4 DEF Known, Ev, RowEnsuredBefore
<1>. QED
  BY <1>0, <1>2, <1>3, <1>5, IntentWriting DEF Writing, Holding

LEMMA IntentDefer == ASSUME TypeInv, IntentInv, NEW w \in Worker, Defer(w) PROVE IntentInv'
<1>. USE DEF Defer, Goto, topic, local
<1>. DEFINE s == FollowUp(Ev(w))
<1>0. /\ pc[w] \in HandlerPC /\ pc[w] \in Writing /\ cur[w] = src[w] /\ cur[w] \in Incident
      /\ s \in Slot /\ Known(w)
  BY EventFacts DEF HandlerPC, Writing, IntentInv, FollowUp, Slot
<1>1. /\ \A i \in Incident, t \in Slot : needed[i][t] => needed'[i][t]
      /\ \A i \in Incident, t \in Slot : needed'[i][t] => needed[i][t] \/ opened[i] # None
  BY <1>0, Types
<1>2. Grows
  BY <1>1 DEF Grows, Owes
<1>3. RowFirst' /\ ResolvedRow'
  BY <1>1 DEF RowFirst, ResolvedRow, Owes, IntentInv
<1>4. pc'[w] = "claim" /\ \A v \in Worker \ {w} : pc'[v] = pc[v]
  BY Types
<1>5. opened[cur[w]] # None => needed'[cur[w]][s] \/ delivered'[cur[w]][s]
  BY <1>0, Types
<1>6. Settled(src[w], off[w])'
  <2>1. log'[src[w]][off[w]] = Ev(w)
    BY DEF Ev
  <2>2. CASE Ev(w).type = "in_progress"
    <3>1. opened[cur[w]] # None /\ Owes(cur[w], "brief")
      BY <1>0, <2>2 DEF Known
    <3>2. Owes(cur[w], "brief")'
      BY <1>0, <1>2, <3>1 DEF Grows, Slot
    <3>. QED
      BY <1>0, <1>5, <2>1, <2>2, <3>1, <3>2 DEF Settled, IntentKept, Owes
  <2>3. CASE Ev(w).type = "resolved" /\ ~RowEnsuredBefore(src[w], off[w])
    BY <2>1, <2>3 DEF Settled, RowEnsuredBefore
  <2>4. CASE Ev(w).type = "resolved" /\ resolvedAt[cur[w]] # None
    <3>1. opened[cur[w]] # None
      BY <1>0, <2>4 DEF IntentInv, ResolvedRow
    <3>. QED
      BY <1>0, <1>5, <2>1, <2>4, <3>1 DEF Settled, IntentKept
  <2>. QED
    BY <1>0, <2>2, <2>3, <2>4 DEF Known
<1>. QED
  BY <1>0, <1>2, <1>3, <1>4, <1>6, IntentWriting DEF Known, Holding

\* A claim: the row's marks stay, and what may be claimed has a row.
LEMMA IntentClaim ==
  ASSUME TypeInv, IntentInv, NEW w \in Worker, NEW i \in Incident, NEW s \in Slot,
         NEW wanted \in BOOLEAN, NEW otherwise \in PC \ {"poll", "down"},
         otherwise \notin Writing, ~(otherwise \in {"gather", "post", "mark", "release"}),
         Claim(w, i, s, wanted, otherwise),
         s = "brief" => opened[i] # None,
         pc[w] \notin Writing \cup {"poll", "down"},
         todo' = todo \/ todo' = [todo EXCEPT ![w] = @ \ {i}]
  PROVE  IntentInv'
<1>. USE DEF Claim, Goto, topic
<1>1. Grows /\ RowFirst' /\ ResolvedRow'
  BY QuietRow
<1>2. /\ pc'[w] \in {otherwise, "gather"} /\ cur'[w] = i
      /\ pc'[w] = "gather" => Claimable(i, s)
      /\ \A v \in Worker \ {w} : pc'[v] = pc[v] /\ cur'[v] = cur[v] /\ todo'[v] = todo[v]
  BY Types
<1>3. \A j \in todo'[w] : j \in todo[w] /\ j \in Incident
  BY Types
<1>4. Claimable(i, s) => opened[i] # None
  BY DEF Claimable, IntentInv, RowFirst, Owes, Slot
<1>5. \A j \in todo[w] : opened[j] # None
  BY DEF IntentInv, InHand
<1>. QED
  BY <1>1, <1>2, <1>3, <1>4, <1>5, IntentBehind DEF Writing, Holding

LEMMA IntentClaims ==
  ASSUME TypeInv, IntentInv, NEW w \in Worker,
         ClaimFollowup(w) \/ ClaimBrief(w) \/ ClaimDeferredProgress(w)
           \/ ClaimDeferredPostmortem(w)
  PROVE  IntentInv'
<1>1. CASE ClaimFollowup(w)
  <2>1. cur[w] \in Incident /\ FollowUp(Ev(w)) \in Slot /\ FollowUp(Ev(w)) # "brief"
    BY <1>1, EventFacts DEF ClaimFollowup, HandlerPC, FollowUp, Slot
  <2>. QED
    BY <1>1, <2>1, IntentClaim DEF ClaimFollowup, PC, Writing
<1>2. CASE ClaimBrief(w)
  <2>1. PICK i \in todo[w] : /\ todo' = [todo EXCEPT ![w] = @ \ {i}]
                             /\ Claim(w, i, "brief", TRUE, "briefs")
    BY <1>2 DEF ClaimBrief
  <2>2. i \in Incident /\ opened[i] # None /\ "brief" \in Slot
    BY <2>1, Types DEF IntentInv, InHand, Slot
  <2>. QED
    BY <1>2, <2>1, <2>2, IntentClaim DEF ClaimBrief, PC, Writing
<1>3. CASE ClaimDeferredProgress(w)
  <2>1. PICK i \in todo[w] :
          /\ todo' = [todo EXCEPT ![w] = @ \ {i}]
          /\ Claim(w, i, "progress", needed[i]["progress"], "owed_postmortem")
    BY <1>3 DEF ClaimDeferredProgress
  <2>2. i \in Incident /\ "progress" \in Slot /\ needed[i]["progress"] \in BOOLEAN
    BY <2>1, Types DEF Slot
  <2>3. pc[w] = "next"
    BY <1>3 DEF ClaimDeferredProgress
  <2>4. todo' = [todo EXCEPT ![w] = @ \ {i}]
    BY <2>1
  <2>5. CASE needed[i]["progress"]
    <3>1. Claim(w, i, "progress", TRUE, "owed_postmortem")
      BY <2>1, <2>2, <2>5
    <3>. QED
      BY <2>2, <2>3, <2>4, <3>1, IntentClaim DEF PC, Writing
  <2>6. CASE ~needed[i]["progress"]
    <3>1. Claim(w, i, "progress", FALSE, "owed_postmortem")
      BY <2>1, <2>2, <2>6 DEF Claim
    <3>. QED
      BY <2>2, <2>3, <2>4, <3>1, IntentClaim DEF PC, Writing
  <2>. QED
    BY <2>5, <2>6
<1>4. CASE ClaimDeferredPostmortem(w)
  <2>1. /\ cur[w] \in Incident /\ "postmortem" \in Slot
        /\ needed[cur[w]]["postmortem"] \in BOOLEAN
    BY <1>4, Types, SlotInHand DEF ClaimDeferredPostmortem, SlotPC, Slot
  <2>. QED
    BY <1>4, <2>1, IntentClaim DEF ClaimDeferredPostmortem, PC, Writing
<1>. QED
  BY <1>1, <1>2, <1>3, <1>4

\* Inside a delivery, up to the mark.
LEMMA IntentDelivery ==
  ASSUME TypeInv, IntentInv, NEW w \in Worker,
         Gather(w) \/ GatherFails(w) \/ Post(w) \/ PostFails(w) \/ MarkFails(w)
  PROVE  IntentInv'
<1>1. /\ UNCHANGED <<row, topic, src, off, cur, todo>>
      /\ pc[w] \in {"gather", "post", "mark"}
  BY DEF Gather, GatherFails, Post, PostFails, MarkFails
<1>2. /\ pc'[w] \in {"post", "mark", "release"}
      /\ \A v \in Worker \ {w} : pc'[v] = pc[v]
  BY Types DEF Gather, GatherFails, Post, PostFails, MarkFails, Goto
<1>3. Grows /\ RowFirst' /\ ResolvedRow'
  BY <1>1, QuietRow DEF row, topic
<1>4. cur[w] \in Incident /\ opened[cur[w]] # None /\ (\A i \in todo[w] : opened[i] # None)
  BY <1>1, SlotInHand DEF SlotPC, IntentInv, InHand, Holding
<1>. QED
  BY <1>1, <1>2, <1>3, <1>4, IntentBehind, Types DEF topic, Writing

LEMMA IntentMark == ASSUME TypeInv, IntentInv, NEW w \in Worker, Mark(w) PROVE IntentInv'
<1>1. /\ UNCHANGED <<opened, resolvedAt, log, committed, src, off, cur, todo>>
      /\ pc[w] = "mark" /\ cur[w] \in Incident /\ slot[w] \in Slot /\ opened[cur[w]] # None
  BY Types, SlotInHand DEF Mark, topic, local, SlotPC, IntentInv, InHand, Holding
<1>2. /\ delivered' = [delivered EXCEPT ![cur[w]][slot[w]] = TRUE]
      /\ needed' = [needed EXCEPT ![cur[w]][slot[w]] = FALSE]
  BY DEF Mark
<1>3. /\ \A i \in Incident, s \in Slot : Owes(i, s) => Owes(i, s)'
      /\ \A i \in Incident, s \in Slot : Owes(i, s)' => Owes(i, s) \/ i = cur[w]
  BY <1>1, <1>2, Types DEF Owes
<1>4. Grows /\ RowFirst' /\ ResolvedRow'
  BY <1>1, <1>3 DEF Grows, RowFirst, ResolvedRow, IntentInv
<1>5. /\ pc'[w] \in {"drain", "briefs", "owed_postmortem", "next"}
      /\ \A v \in Worker \ {w} : pc'[v] = pc[v]
  <2>1. phase[w] \in {"handle", "briefs", "followups"}
    BY DEF TypeInv, TypeOK, WorkerOK
  <2>. QED
    BY <2>1, Types DEF Mark, Goto, AfterMark
<1>6. \A i \in todo[w] : i \in Incident /\ opened[i] # None
  BY Types DEF IntentInv, InHand
<1>. QED
  BY <1>1, <1>4, <1>5, <1>6, IntentBehind DEF Writing, Holding

\* Steps that put down what is in hand.
LEMMA IntentDown ==
  ASSUME TypeInv, IntentInv, UNCHANGED <<log, opened, resolvedAt, needed, delivered, committed>>,
         NEW w \in Worker, Forget(w), pc'[w] \in {"poll", "down"},
         \A v \in Worker \ {w} : pc'[v] = pc[v]
  PROVE  IntentInv'
<1>1. Known(w)' /\ InHand(w)'
  BY Forgotten DEF Known, InHand, Holding
<1>. QED
  BY <1>1, Forgotten, QuietRow, IntentStep

LEMMA IntentReleaseOrCrash ==
  ASSUME TypeInv, IntentInv, NEW w \in Worker, Release(w) \/ Crash(w)
  PROVE  IntentInv'
<1>0. UNCHANGED <<log, opened, resolvedAt, needed, delivered, committed>>
  BY DEF Release, Crash, row, topic
<1>1. CASE Forget(w) /\ Goto(w, "down")
  <2>1. pc'[w] = "down" /\ \A v \in Worker \ {w} : pc'[v] = pc[v]
    BY <1>1, Types DEF Goto
  <2>. QED
    BY <1>0, <1>1, <2>1, IntentDown
<1>2. CASE ~(Forget(w) /\ Goto(w, "down"))
  <2>1. /\ Release(w) /\ todo' = [todo EXCEPT ![w] = {}] /\ UNCHANGED <<src, off, cur>>
        /\ Goto(w, IF phase[w] = "briefs" THEN "briefs" ELSE "next")
    BY <1>2 DEF Release, Crash
  <2>2. /\ pc'[w] \in {"briefs", "next"} /\ todo'[w] = {}
        /\ \A v \in Worker \ {w} : pc'[v] = pc[v] /\ todo'[v] = todo[v]
    BY <2>1, Types DEF Goto
  <2>3. pc[w] = "release"
    BY <2>1 DEF Release
  <2>. QED
    BY <1>0, <2>1, <2>2, <2>3, QuietRow, IntentBehind DEF Writing, Holding
<1>. QED
  BY <1>1, <1>2

LEMMA IntentDrain ==
  ASSUME TypeInv, IntentInv, NEW w \in Worker,
         SelectDue(w) \/ SelectPending(w) \/ DrainDone(w)
  PROVE  IntentInv'
<1>0. UNCHANGED <<log, opened, resolvedAt, needed, delivered, committed, exc>>
  BY DEF SelectDue, SelectPending, DrainDone, row, topic
<1>1. CASE SelectDue(w) \/ SelectPending(w)
  <2>1. PICK S \in SUBSET (DueBriefs \cup PendingFollowups) : todo' = [todo EXCEPT ![w] = S]
    BY <1>1 DEF SelectDue, SelectPending, Limited
  <2>2. \A i \in S : i \in Incident /\ opened[i] # None
    BY DEF DueBriefs, PendingFollowups, IntentInv, RowFirst, Owes, Slot
  <2>3. /\ pc[w] \in {"drain", "briefs"} /\ pc'[w] \in {"briefs", "next"}
        /\ UNCHANGED <<src, off, cur>> /\ todo'[w] = S
        /\ \A v \in Worker \ {w} : pc'[v] = pc[v] /\ todo'[v] = todo[v]
    BY <1>1, <2>1, Types DEF SelectDue, SelectPending, Goto
  <2>. QED
    BY <1>0, <2>2, <2>3, QuietRow, IntentBehind DEF Writing, Holding
<1>2. CASE DrainDone(w) /\ src[w] # None
  <2>1. /\ pc[w] = "next" /\ pc'[w] = "commit" /\ UNCHANGED <<src, off, cur, todo>>
        /\ \A v \in Worker \ {w} : pc'[v] = pc[v]
    BY <1>2, Types DEF DrainDone, Goto
  <2>2. \A i \in todo[w] : i \in Incident /\ opened[i] # None
    BY Types DEF IntentInv, InHand
  <2>. QED
    BY <1>0, <2>1, <2>2, QuietRow, IntentBehind DEF Writing, Holding
<1>3. CASE DrainDone(w) /\ src[w] = None
  <2>1. /\ Forget(w) /\ pc'[w] = "poll" /\ \A v \in Worker \ {w} : pc'[v] = pc[v]
    BY <1>3, Types DEF DrainDone, Goto
  <2>. QED
    BY <1>0, <2>1, IntentDown
<1>. QED
  BY <1>1, <1>2, <1>3

\* Steps that move no worker.
LEMMA IntentStill ==
  ASSUME TypeInv, IntentInv, Grows, RowFirst', ResolvedRow',
         UNCHANGED <<committed, pc, src, off, cur, todo>>
  PROVE  IntentInv'
<1>1. \A v \in Worker : Known(v)' /\ InHand(v)'
  BY IntentFrame
<1>2. \A i \in Incident : SettledUpTo(i, committed[i])'
  BY SettledUpToStays DEF IntentInv, SettledUpTo
<1>. QED
  BY <1>1, <1>2 DEF IntentInv

LEMMA IntentEnvironment ==
  ASSUME TypeInv, IntentInv,
         \/ \E i \in Incident, w \in Worker : Rebalance(i, w)
         \/ \E i \in Incident : EmbedderRegisters(i)
         \/ Tick \/ UNCHANGED vars
  PROVE  IntentInv'
<1>1. ASSUME NEW i \in Incident, EmbedderRegisters(i) PROVE IntentInv'
  <2>1. /\ \A j \in Incident : opened[j] # None => opened'[j] = opened[j]
        /\ UNCHANGED <<log, resolvedAt, needed, delivered, committed, pc, src, off, cur, todo>>
    BY <1>1 DEF EmbedderRegisters, topic, local
  <2>2. Grows /\ RowFirst' /\ ResolvedRow'
    BY <2>1 DEF Grows, RowFirst, ResolvedRow, Owes, IntentInv
  <2>. QED
    BY <2>1, <2>2, IntentStill
<1>2. CASE \/ \E i \in Incident, w \in Worker : Rebalance(i, w)
           \/ Tick \/ UNCHANGED vars
  <2>1. UNCHANGED <<log, opened, resolvedAt, needed, delivered, committed, pc, src, off, cur,
                    todo>>
    BY <1>2 DEF Rebalance, Tick, vars, row, topic, local
  <2>. QED
    BY <2>1, QuietRow, IntentStill
<1>. QED
  BY <1>1, <1>2

LEMMA IntentRestart == ASSUME TypeInv, IntentInv, NEW w \in Worker, Restart(w) PROVE IntentInv'
<1>1. /\ UNCHANGED <<log, opened, resolvedAt, needed, delivered, committed, src, off, cur, todo>>
      /\ pc[w] = "down" /\ pc'[w] = "poll" /\ \A v \in Worker \ {w} : pc'[v] = pc[v]
  BY Types DEF Restart, Goto, row, topic
<1>2. src[w] = None /\ \A i \in todo[w] : i \in Incident /\ opened[i] # None
  BY <1>1, Types DEF IntentInv, InHand
<1>. QED
  BY <1>1, <1>2, QuietRow, IntentBehind DEF Writing, Holding

LEMMA IntentNext == ASSUME TypeInv, IntentInv, [Next]_vars PROVE IntentInv'
<1>1. ASSUME NEW w \in Worker, Receive(w) \/ Step(w) \/ Failure(w) PROVE IntentInv'
  BY <1>1, IntentReceive, IntentIdle, IntentCommit, IntentRestart, IntentHandleOpened,
     IntentCheckStale, IntentEnsure, IntentSchedule, IntentResolve, IntentDefer, IntentClaims,
     IntentDelivery, IntentMark, IntentReleaseOrCrash, IntentDrain DEF Step, Failure
<1>. QED
  BY <1>1, IntentEnvironment DEF Next

\* "Persist follow-up intent before trying delivery" (handle_lifecycle): whatever
\* crashes, is redelivered, rebalanced or handled by two workers at once, an
\* event whose offset is committed has left in the row what it asked for, or had
\* a reason to be dropped that no later event can take away.
THEOREM IntentsAreDurable == Spec => []CommittedIntentIsDurable
<1>1. Init => IntentInv
  BY DeliveryAssumption
     DEF Init, IntentInv, RowFirst, ResolvedRow, Owes, SettledUpTo, Known, InHand, Holding
<1>2. IntentInv => CommittedIntentIsDurable
  BY DEF IntentInv, SettledUpTo, Settled, CommittedIntentIsDurable
<1>. QED
  BY <1>1, <1>2, InitTypeInv, NextTypeInv, IntentNext, PTL DEF Spec

----------------------------------------------------------------------------
(***************************************************************************)
(* The promise.  Every step is a step of DeliveryPromise or none: a write  *)
(* of an intent owes a slot, a post shows one, a mark settles one that was *)
(* shown, and nothing else touches what the promise speaks of.             *)
(***************************************************************************)
Owed == [i \in Incident |-> {s \in Slot : needed[i][s]}]
Displayed == [i \in Incident |-> [k \in DOMAIN posts[i] |-> posts[i][k].slot]]
SettledSlots == [i \in Incident |-> {s \in Slot : delivered[i][s]}]

\* Whoever is about to mark a slot has shown it.
Backed(w) ==
  pc[w] = "mark" => \E k \in DOMAIN posts[cur[w]] : posts[cur[w]][k].slot = slot[w]
BackedInv == \A w \in Worker : Backed(w)

PromiseInv == TypeInv /\ LockInv /\ ThreadInv /\ BackedInv

\* Nobody but the worker that posts comes to a mark, and posts stay.
LEMMA BackedFrame ==
  ASSUME BackedInv, UNCHANGED posts,
         \A v \in Worker : pc'[v] = "mark" =>
           pc[v] = "mark" /\ cur'[v] = cur[v] /\ slot'[v] = slot[v]
  PROVE  BackedInv'
BY DEF BackedInv, Backed

LEMMA BackedShow ==
  ASSUME TypeInv, BackedInv, NEW w \in Worker, pc[w] = "post", Show(w), UNCHANGED <<cur, slot>>,
         \A v \in Worker \ {w} : pc'[v] = pc[v]
  PROVE  BackedInv'
<1>0. posts \in [Incident -> Seq(Message)] /\ cur[w] \in Incident
  BY SlotInHand DEF TypeInv, TypeOK, HistoryOK, SlotPC
<1>. DEFINE new == [slot |-> slot[w], thread |-> IF slot[w] = "brief" THEN 0 ELSE thread[w]]
<1>1. PICK m : m.slot = slot[w] /\ posts' = [posts EXCEPT ![cur[w]] = Append(@, m)]
  <2>1. posts' = [posts EXCEPT ![cur[w]] = Append(@, new)]
    BY DEF Show
  <2>2. new.slot = slot[w]
    OBVIOUS
  <2>. HIDE DEF new
  <2>. QED
    BY <2>1, <2>2
<1>2. \A i \in Incident : \A k \in DOMAIN posts[i] :
        k \in DOMAIN posts'[i] /\ posts'[i][k] = posts[i][k]
  BY <1>0, <1>1
<1>3. /\ Len(posts[cur[w]]) + 1 \in DOMAIN posts'[cur[w]]
      /\ posts'[cur[w]][Len(posts[cur[w]]) + 1].slot = slot[w]
  BY <1>0, <1>1
<1>. SUFFICES ASSUME NEW v \in Worker PROVE Backed(v)'
  BY DEF BackedInv
<1>4. CASE v = w
  BY <1>3, <1>4 DEF Backed
<1>5. CASE v # w
  <2>. SUFFICES ASSUME pc[v] = "mark"
               PROVE \E k \in DOMAIN posts'[cur[v]] : posts'[cur[v]][k].slot = slot[v]
    BY <1>5 DEF Backed
  <2>1. cur[v] \in Incident
    BY SlotInHand DEF SlotPC
  <2>2. PICK k \in DOMAIN posts[cur[v]] : posts[cur[v]][k].slot = slot[v]
    BY DEF BackedInv, Backed
  <2>. QED
    BY <1>2, <2>1, <2>2
<1>. QED
  BY <1>4, <1>5

LEMMA BackedNext == ASSUME TypeInv, BackedInv, [Next]_vars PROVE BackedInv'
<1>0. /\ pc \in [Worker -> PC] /\ cur \in [Worker -> Incident \cup {None}]
      /\ slot \in [Worker -> Slot]
  BY DEF TypeInv, TypeOK, WorkerOK
<1>. DEFINE Calm == /\ UNCHANGED posts
                    /\ \A v \in Worker : pc'[v] = "mark" =>
                         pc[v] = "mark" /\ cur'[v] = cur[v] /\ slot'[v] = slot[v]
<1>1. ASSUME NEW w \in Worker, Receive(w) \/ IdleTick(w) \/ Commit(w) \/ Restart(w)
      PROVE BackedInv'
  <2>1. Calm
    BY <1>0, <1>1 DEF Receive, IdleTick, Commit, Restart, Forget, Goto, local, channel
  <2>. QED
    BY <2>1, BackedFrame
<1>2. ASSUME NEW w \in Worker,
             HandleOpened(w) \/ CheckStale(w) \/ EnsureForProgress(w) \/ Schedule(w)
      PROVE BackedInv'
  <2>1. Calm
    BY <1>0, <1>2 DEF HandleOpened, CheckStale, EnsureForProgress, Schedule, Goto, local, channel
  <2>. QED
    BY <2>1, BackedFrame
<1>3. ASSUME NEW w \in Worker, MarkResolved(w) \/ Defer(w) \/ Gather(w) \/ GatherFails(w)
      PROVE BackedInv'
  <2>1. Calm
    BY <1>0, <1>3 DEF MarkResolved, Defer, Gather, GatherFails, Goto, local, channel
  <2>. QED
    BY <2>1, BackedFrame
<1>4. ASSUME NEW w \in Worker, SelectDue(w) \/ SelectPending(w) \/ DrainDone(w) \/ Release(w)
      PROVE BackedInv'
  <2>1. Calm
    BY <1>0, <1>4 DEF SelectDue, SelectPending, DrainDone, Release, Forget, Goto, local, channel
  <2>. QED
    BY <2>1, BackedFrame
<1>5. ASSUME NEW w \in Worker, ClaimFollowup(w) \/ ClaimBrief(w) \/ ClaimDeferredProgress(w)
                                \/ ClaimDeferredPostmortem(w)
      PROVE BackedInv'
  <2>1. Calm
    BY <1>0, <1>5 DEF ClaimFollowup, ClaimBrief, ClaimDeferredProgress,
       ClaimDeferredPostmortem, Claim, Goto, channel
  <2>. QED
    BY <2>1, BackedFrame
<1>6. ASSUME NEW w \in Worker, Mark(w) \/ MarkFails(w) PROVE BackedInv'
  <2>1. Calm
    BY <1>0, <1>6 DEF Mark, MarkFails, AfterMark, Goto, local, channel
  <2>. QED
    BY <2>1, BackedFrame
<1>7. ASSUME NEW w \in Worker, Post(w) PROVE BackedInv'
  BY <1>0, <1>7, BackedShow DEF Post, Goto
<1>8. ASSUME NEW w \in Worker, PostFails(w) PROVE BackedInv'
  <2>1. /\ pc[w] = "post" /\ UNCHANGED <<cur, slot>> /\ (UNCHANGED posts \/ Show(w))
        /\ \A v \in Worker \ {w} : pc'[v] = pc[v]
        /\ pc'[w] # "mark"
    BY <1>0, <1>8 DEF PostFails, Goto, channel
  <2>2. CASE UNCHANGED posts
    <3>1. \A v \in Worker : pc'[v] = "mark" =>
            pc[v] = "mark" /\ cur'[v] = cur[v] /\ slot'[v] = slot[v]
      BY <2>1
    <3>. QED
      BY <2>2, <3>1, BackedFrame
  <2>3. CASE Show(w)
    BY <2>1, <2>3, BackedShow
  <2>. QED
    BY <2>1, <2>2, <2>3
<1>9. ASSUME NEW w \in Worker, Crash(w) PROVE BackedInv'
  <2>1. Calm
    BY <1>0, <1>9 DEF Crash, Forget, Goto
  <2>. QED
    BY <2>1, BackedFrame
<1>10. ASSUME NEW i \in Incident, NEW w \in Worker, Rebalance(i, w) PROVE BackedInv'
  BY <1>10, BackedFrame DEF Rebalance, local, channel
<1>11. ASSUME NEW i \in Incident, EmbedderRegisters(i) PROVE BackedInv'
  BY <1>11, BackedFrame DEF EmbedderRegisters, local, channel
<1>12. CASE Tick
  BY <1>12, BackedFrame DEF Tick, local, channel
<1>13. CASE UNCHANGED vars
  BY <1>13, BackedFrame DEF vars, local, channel
<1>. QED
  BY <1>1, <1>2, <1>3, <1>4, <1>5, <1>6, <1>7, <1>8, <1>9, <1>10, <1>11, <1>12, <1>13
     DEF Next, Step, Failure

\* What the promise sees of a state.
PromiseView == <<Owed, Displayed, SettledSlots>>

LEMMA ViewStays ==
  ASSUME UNCHANGED <<needed, posts, delivered>> PROVE UNCHANGED PromiseView
BY DEF PromiseView, Owed, Displayed, SettledSlots

\* The engine's step as the promise sees it.
PromiseStep(i, s) ==
  \/ /\ ~delivered[i][s]
     /\ Owed' = [Owed EXCEPT ![i] = @ \cup {s}]
     /\ Displayed' = Displayed /\ SettledSlots' = SettledSlots
  \/ /\ ~delivered[i][s]
     /\ s # "brief" => delivered[i]["brief"]
     /\ Displayed' = [Displayed EXCEPT ![i] = Append(@, s)]
     /\ Owed' = Owed /\ SettledSlots' = SettledSlots
  \/ /\ ~delivered[i][s]
     /\ \E k \in DOMAIN Displayed[i] : Displayed[i][k] = s
     /\ SettledSlots' = [SettledSlots EXCEPT ![i] = @ \cup {s}]
     /\ Owed' = [Owed EXCEPT ![i] = @ \ {s}]
     /\ Displayed' = Displayed

\* A write of an intent.
LEMMA OweStep ==
  ASSUME TypeInv, NEW i \in Incident, NEW s \in Slot, ~delivered[i][s],
         needed' = [needed EXCEPT ![i][s] = TRUE], UNCHANGED <<posts, delivered>>
  PROVE  PromiseStep(i, s)
<1>1. needed \in [Incident -> [Slot -> BOOLEAN]]
  BY DEF TypeInv, TypeOK, RowOK
<1>2. \A j \in Incident : {t \in Slot : needed'[j][t]} =
        IF j = i THEN {t \in Slot : needed[j][t]} \cup {s} ELSE {t \in Slot : needed[j][t]}
  BY <1>1
<1>3. Owed' = [Owed EXCEPT ![i] = @ \cup {s}]
  BY <1>2 DEF Owed
<1>. QED
  BY <1>3 DEF PromiseStep, Displayed, SettledSlots

\* A post.
LEMMA DisplayStep ==
  ASSUME PromiseInv, NEW w \in Worker, pc[w] = "post", Show(w), UNCHANGED <<needed, delivered>>
  PROVE  PromiseStep(cur[w], slot[w])
<1>. DEFINE i == cur[w]  s == slot[w]
<1>0. /\ i \in Incident /\ s \in Slot /\ Holding(w) /\ posts \in [Incident -> Seq(Message)]
  BY SlotInHand DEF PromiseInv, TypeInv, TypeOK, HistoryOK, WorkerOK, SlotPC, Holding
<1>1. ~delivered[i][s] /\ (s # "brief" => delivered[i]["brief"])
  BY <1>0 DEF PromiseInv, LockInv, ClaimHeld, ThreadInv, Aim
<1>. DEFINE new == [slot |-> s, thread |-> IF s = "brief" THEN 0 ELSE thread[w]]
<1>2. PICK m : m.slot = s /\ posts' = [posts EXCEPT ![i] = Append(@, m)]
  <2>1. posts' = [posts EXCEPT ![i] = Append(@, new)]
    BY DEF Show
  <2>2. new.slot = s
    OBVIOUS
  <2>. HIDE DEF new
  <2>. QED
    BY <2>1, <2>2
<1>3. [k \in DOMAIN posts'[i] |-> posts'[i][k].slot]
        = Append([k \in DOMAIN posts[i] |-> posts[i][k].slot], s)
  <2>. DEFINE f == [k \in DOMAIN posts[i] |-> posts[i][k].slot]
              g == [k \in DOMAIN posts'[i] |-> posts'[i][k].slot]
              n == Len(posts[i])
  <2>1. n \in Nat /\ DOMAIN posts[i] = 1 .. n /\ posts[i] \in Seq(Message)
    BY <1>0
  <2>2. DOMAIN posts'[i] = 1 .. n + 1 /\ posts'[i][n + 1] = m
        /\ \A k \in 1 .. n : posts'[i][k] = posts[i][k]
    BY <1>0, <1>2, <2>1
  <2>3. \A k \in 1 .. n : posts[i][k].slot \in Slot
    <3>1. \A k \in 1 .. n : posts[i][k] \in Message
      BY <2>1
    <3>. QED
      BY <3>1 DEF Message
  <2>4. f \in Seq(Slot) /\ Len(f) = n
    <3>1. f \in [1 .. n -> Slot]
      BY <2>1, <2>3
    <3>2. f \in Seq(Slot)
      BY <2>1, <3>1
    <3>3. DOMAIN f = 1 .. n
      BY <2>1
    <3>. QED
      BY <2>1, <3>2, <3>3
  <2>5. /\ Append(f, s) \in Seq(Slot) /\ Len(Append(f, s)) = n + 1
        /\ DOMAIN Append(f, s) = 1 .. n + 1
        /\ Append(f, s)[n + 1] = s /\ \A k \in 1 .. n : Append(f, s)[k] = f[k]
    BY <1>0, <2>1, <2>4
  <2>6. g \in [1 .. n + 1 -> Slot]
    BY <1>0, <1>2, <2>1, <2>2, <2>3
  <2>7. Append(f, s) \in [1 .. n + 1 -> Slot]
    <3>1. \A h \in Seq(Slot) : h \in [1 .. Len(h) -> Slot]
      OBVIOUS
    <3>. HIDE DEF f
    <3>. QED
      BY <2>5, <3>1
  <2>8. \A k \in 1 .. n + 1 : g[k] = Append(f, s)[k]
    <3>1. ASSUME NEW k \in 1 .. n PROVE g[k] = Append(f, s)[k]
      BY <2>1, <2>2, <2>5, <3>1
    <3>2. g[n + 1] = Append(f, s)[n + 1]
      BY <1>2, <2>1, <2>2, <2>5
    <3>. QED
      BY <2>1, <3>1, <3>2
  <2>. QED
    BY <2>6, <2>7, <2>8
<1>4. \A j \in Incident \ {i} : posts'[j] = posts[j]
  BY <1>0, <1>2
<1>5. Displayed' = [Displayed EXCEPT ![i] = Append(@, s)]
  BY <1>0, <1>3, <1>4 DEF Displayed
<1>. QED
  BY <1>1, <1>5 DEF PromiseStep, Owed, SettledSlots

\* A mark.
LEMMA SettleStep ==
  ASSUME PromiseInv, NEW w \in Worker, Mark(w) PROVE PromiseStep(cur[w], slot[w])
<1>. DEFINE i == cur[w]  s == slot[w]
<1>0. /\ i \in Incident /\ s \in Slot /\ Holding(w) /\ pc[w] = "mark"
      /\ needed \in [Incident -> [Slot -> BOOLEAN]]
      /\ delivered \in [Incident -> [Slot -> BOOLEAN]]
  BY SlotInHand DEF PromiseInv, TypeInv, TypeOK, RowOK, WorkerOK, SlotPC, Holding, Mark
<1>1. ~delivered[i][s]
  BY <1>0 DEF PromiseInv, LockInv, ClaimHeld
<1>2. \E k \in DOMAIN Displayed[i] : Displayed[i][k] = s
  BY <1>0 DEF PromiseInv, BackedInv, Backed, Displayed
<1>3. /\ delivered' = [delivered EXCEPT ![i][s] = TRUE]
      /\ needed' = [needed EXCEPT ![i][s] = FALSE] /\ UNCHANGED posts
  BY DEF Mark, channel
<1>4. \A j \in Incident :
        /\ {t \in Slot : delivered'[j][t]} =
             IF j = i THEN {t \in Slot : delivered[j][t]} \cup {s}
                      ELSE {t \in Slot : delivered[j][t]}
        /\ {t \in Slot : needed'[j][t]} =
             IF j = i THEN {t \in Slot : needed[j][t]} \ {s} ELSE {t \in Slot : needed[j][t]}
  BY <1>0, <1>3
<1>5. SettledSlots' = [SettledSlots EXCEPT ![i] = @ \cup {s}]
  BY <1>0, <1>4 DEF SettledSlots
<1>6. Owed' = [Owed EXCEPT ![i] = @ \ {s}]
  BY <1>0, <1>4 DEF Owed
<1>. QED
  BY <1>1, <1>2, <1>3, <1>5, <1>6 DEF PromiseStep, Displayed

LEMMA PromiseNext ==
  ASSUME PromiseInv, [Next]_vars
  PROVE  (\E i \in Incident, s \in Slot : PromiseStep(i, s)) \/ UNCHANGED PromiseView
<1>. DEFINE Goal == (\E i \in Incident, s \in Slot : PromiseStep(i, s)) \/ UNCHANGED PromiseView
<1>0. TypeInv
  BY DEF PromiseInv
<1>1. ASSUME NEW w \in Worker, Schedule(w) PROVE Goal
  <2>1. cur[w] \in Incident /\ "brief" \in Slot
    BY <1>0, <1>1, EventInHand DEF Schedule, HandlerPC, Slot
  <2>2. UNCHANGED <<posts, delivered>>
    BY <1>1 DEF Schedule, channel
  <2>3. CASE UNCHANGED needed
    BY <2>2, <2>3, ViewStays
  <2>4. CASE ~delivered[cur[w]]["brief"] /\ needed' = [needed EXCEPT ![cur[w]]["brief"] = TRUE]
    BY <1>0, <2>1, <2>2, <2>4, OweStep
  <2>. QED
    BY <1>1, <2>3, <2>4 DEF Schedule
<1>2. ASSUME NEW w \in Worker, Defer(w) PROVE Goal
  <2>1. cur[w] \in Incident /\ FollowUp(Ev(w)) \in Slot
    BY <1>0, <1>2, EventInHand DEF Defer, HandlerPC, Slot, FollowUp
  <2>2. UNCHANGED <<posts, delivered>>
    BY <1>2 DEF Defer, channel
  <2>3. CASE UNCHANGED needed
    BY <2>2, <2>3, ViewStays
  <2>4. CASE /\ ~delivered[cur[w]][FollowUp(Ev(w))]
             /\ needed' = [needed EXCEPT ![cur[w]][FollowUp(Ev(w))] = TRUE]
    BY <1>0, <2>1, <2>2, <2>4, OweStep
  <2>. QED
    BY <1>2, <2>3, <2>4 DEF Defer
<1>3. ASSUME NEW w \in Worker, pc[w] = "post", Show(w), UNCHANGED <<needed, delivered>> PROVE Goal
  <2>1. cur[w] \in Incident /\ slot[w] \in Slot
    BY <1>0, <1>3, SlotInHand DEF SlotPC, TypeInv, TypeOK, WorkerOK
  <2>. QED
    BY <1>3, <2>1, DisplayStep
<1>4. ASSUME NEW w \in Worker, Post(w) PROVE Goal
  BY <1>3, <1>4 DEF Post, row
<1>5. ASSUME NEW w \in Worker, PostFails(w) PROVE Goal
  <2>1. pc[w] = "post" /\ UNCHANGED <<needed, delivered>> /\ (UNCHANGED posts \/ Show(w))
    BY <1>5 DEF PostFails, row, channel
  <2>. QED
    BY <1>3, <2>1, ViewStays
<1>6. ASSUME NEW w \in Worker, Mark(w) PROVE Goal
  <2>1. cur[w] \in Incident /\ slot[w] \in Slot
    BY <1>0, <1>6, SlotInHand DEF Mark, SlotPC, TypeInv, TypeOK, WorkerOK
  <2>. QED
    BY <1>6, <2>1, SettleStep
<1>7. ASSUME NEW w \in Worker,
             \/ Receive(w) \/ IdleTick(w) \/ Commit(w) \/ Restart(w)
             \/ HandleOpened(w) \/ CheckStale(w) \/ EnsureForProgress(w) \/ MarkResolved(w)
             \/ Gather(w) \/ GatherFails(w) \/ Release(w) \/ MarkFails(w) \/ Crash(w)
             \/ SelectDue(w) \/ SelectPending(w) \/ DrainDone(w)
             \/ ClaimFollowup(w) \/ ClaimBrief(w) \/ ClaimDeferredProgress(w)
             \/ ClaimDeferredPostmortem(w)
      PROVE Goal
  <2>1. UNCHANGED <<needed, posts, delivered>>
    BY <1>7 DEF Receive, IdleTick, Commit, Restart, HandleOpened, CheckStale,
       EnsureForProgress, MarkResolved, Gather, GatherFails, Release, MarkFails, Crash,
       SelectDue, SelectPending, DrainDone, ClaimFollowup, ClaimBrief,
       ClaimDeferredProgress, ClaimDeferredPostmortem, Claim, row, channel
  <2>. QED
    BY <2>1, ViewStays
<1>8. ASSUME NEW i \in Incident, NEW w \in Worker, Rebalance(i, w) PROVE Goal
  BY <1>8, ViewStays DEF Rebalance, row, channel
<1>9. ASSUME NEW i \in Incident, EmbedderRegisters(i) PROVE Goal
  BY <1>9, ViewStays DEF EmbedderRegisters, channel
<1>10. CASE Tick
  BY <1>10, ViewStays DEF Tick, channel
<1>11. CASE UNCHANGED vars
  BY <1>11, ViewStays DEF vars, row, channel
<1>. QED
  BY <1>1, <1>2, <1>4, <1>5, <1>6, <1>7, <1>8, <1>9, <1>10, <1>11 DEF Next, Step, Failure

(***************************************************************************)
(* The engine implements DeliveryPromise while leases outlive deliveries:  *)
(* through crashes, rebalances, lost replies and redeliveries a slot is    *)
(* shown until it is settled and never again, and follow-ups only after    *)
(* the opening brief.                                                      *)
(***************************************************************************)
THEOREM EngineKeepsPromise ==
  ASSUME LeaseOutlivesDelivery PROVE Spec => KeepsPromise
<1>1. Init => PromiseInv
  BY InitTypeInv DEF Init, PromiseInv, LockInv, ClaimHeld, ExclusiveDelivery, HoldsSlot,
     Holding, ThreadInv, RootInv, Aim, FollowupsAreThreaded, BackedInv, Backed, Slot
<1>2. PromiseInv /\ [Next]_vars => PromiseInv'
  BY NextTypeInv, LockNext, ThreadNext, BackedNext DEF PromiseInv
<1>3. Init => Promise!PInit
  BY DEF Init, Promise!PInit
<1>4. PromiseInv /\ [Next]_vars => [Promise!PNext]_(Promise!pvars)
  <2>. SUFFICES ASSUME PromiseInv, [Next]_vars
               PROVE  Promise!PNext \/ UNCHANGED Promise!pvars
    OBVIOUS
  <2>1. CASE UNCHANGED PromiseView
    BY <2>1 DEF PromiseView, Owed, Displayed, SettledSlots, Promise!pvars
  <2>2. ASSUME NEW i \in Incident, NEW s \in Slot, PromiseStep(i, s)
        PROVE  Promise!PNext
    <3>1. Promise!Owe(i, s) \/ Promise!Show(i, s) \/ Promise!Settle(i, s)
      BY <2>2 DEF PromiseStep, Owed, Displayed, SettledSlots, Slot,
         Promise!Owe, Promise!Show, Promise!Settle
    <3>. QED
      BY <3>1 DEF Promise!PNext
  <2>. QED
    BY <2>1, <2>2, PromiseNext
<1>. QED
  BY <1>1, <1>2, <1>3, <1>4, PTL DEF Spec, KeepsPromise, Promise!PSpec
=============================================================================
