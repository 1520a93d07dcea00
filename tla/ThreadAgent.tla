----------------------------- MODULE ThreadAgent -----------------------------
(***************************************************************************)
(* Answers to people's replies in the Slack thread under a brief           *)
(* (freshet/autopilot/thread_agent.py), paid from the LLM budget they      *)
(* share with briefs and follow-ups.  Every Slack call and every SQL       *)
(* statement is a step of its own; workers are autopilot processes, whose  *)
(* idle hook polls the threads.                                            *)
(*                                                                         *)
(* A message is named by its position in its thread, which is its ts.  The *)
(* brief itself is position 0, and so is a thread_seen_ts that is NULL.    *)
(***************************************************************************)
EXTENDS Budget, Sequences

CONSTANTS
  Worker,      \* autopilot processes
  Incident,
  Limit,       \* threads one poll looks at
  MaxWritten,  \* bound on the messages others write in a thread
  MaxOthers,   \* bound on LLM calls for briefs and follow-ups
  MaxFaults    \* bound on injected faults of all kinds

ASSUME ThreadAssumption ==
  Limit \in Nat /\ MaxWritten \in Nat /\ MaxOthers \in Nat /\ MaxFaults \in Nat

VARIABLES
  \* Slack
  thread,
  \* the incidents table: briefed threads of the last 24 hours, newest first
  open, unbriefed, seen,
  \* the worker: where it is, the rows and messages it still has to go
  \* through, the question in hand, and ThreadPoller._next_at in the future
  pc, rows, todo, question, waiting,
  others,      \* briefs and follow-ups still to be paid for
  \* history used only to state properties
  unmarked,    \* answers shown whose mark was never written
  overlapped,  \* two polls were under way at once
  faults

slack == <<thread, open, unbriefed>>
local == <<pc, rows, todo, question, waiting>>
ghost == <<unmarked, overlapped>>
vars == <<calls, slack, seen, local, others, ghost, faults>>

----------------------------------------------------------------------------
(* Threads *)

Message == [from : {"person", "bot", "other"}, to : Nat]
Row == [incident : Incident, seen : Nat]

\* is_human_reply: others are joins, blanks, and the autopilot's own updates.
IsHumanReply(m) == m.from = "person"

Questions(i) == {k \in DOMAIN thread[i] : IsHumanReply(thread[i][k])}
AnswersIn(i) == {k \in DOMAIN thread[i] : thread[i][k].from = "bot"}
Answered(i) == {thread[i][k].to : k \in AnswersIn(i)}
Written(i) == DOMAIN thread[i] \ AnswersIn(i)

\* conversations_replies with oldest=seen, and the two filters of the loop
Unseen(row) == {k \in Questions(row.incident) : k > row.seen}

\* _OPEN_THREADS_SQL
Watched == SubSeq(open, 1, IF Len(open) < Limit THEN Len(open) ELSE Limit)
OpenThreads == [k \in DOMAIN Watched |-> [incident |-> Watched[k], seen |-> seen[Watched[k]]]]

Polling(w) == pc[w] \notin {"idle", "other"}

----------------------------------------------------------------------------
Init ==
  /\ BudgetInit
  /\ thread = [i \in Incident |-> <<>>]
  /\ open = <<>> /\ unbriefed = Incident
  /\ seen = [i \in Incident |-> 0]
  /\ pc = [w \in Worker |-> "idle"]
  /\ rows = [w \in Worker |-> <<>>]
  /\ todo = [w \in Worker |-> {}]
  /\ question = [w \in Worker |-> 0]
  /\ waiting = [w \in Worker |-> FALSE]
  /\ others = MaxOthers
  /\ unmarked = [i \in Incident |-> 0]
  /\ overlapped = FALSE
  /\ faults = 0

TypeOK ==
  /\ BudgetTypeOK
  /\ thread \in [Incident -> Seq(Message)]
  /\ open \in Seq(Incident) /\ unbriefed \in SUBSET Incident
  /\ seen \in [Incident -> Nat]
  /\ pc \in [Worker -> {"idle", "threads", "replies", "day", "hour", "post", "mark", "other"}]
  /\ rows \in [Worker -> Seq(Row)]
  /\ todo \in [Worker -> SUBSET Nat]
  /\ question \in [Worker -> Nat]
  /\ waiting \in [Worker -> BOOLEAN]
  /\ others \in 0 .. MaxOthers
  /\ unmarked \in [Incident -> Nat]
  /\ overlapped \in BOOLEAN
  /\ faults \in 0 .. MaxFaults

----------------------------------------------------------------------------
(* The poll *)

Goto(w, l) == pc' = [pc EXCEPT ![w] = l]
Fault == faults < MaxFaults /\ faults' = faults + 1

\* ThreadPoller.__call__ with the next poll set before this one starts
Poll(w) ==
  /\ pc[w] = "idle" /\ ~waiting[w]
  /\ waiting' = [waiting EXCEPT ![w] = TRUE]
  /\ rows' = [rows EXCEPT ![w] = OpenThreads]
  /\ overlapped' = (overlapped \/ \E v \in Worker \ {w} : Polling(v))
  /\ Goto(w, "threads")
  /\ UNCHANGED <<calls, slack, seen, todo, question, others, unmarked, faults>>

\* 30 s later, or 60 s after a rate limit
Due(w) ==
  /\ pc[w] = "idle" /\ waiting[w]
  /\ waiting' = [waiting EXCEPT ![w] = FALSE]
  /\ UNCHANGED <<calls, slack, seen, pc, rows, todo, question, others, ghost, faults>>

\* poll_threads returns: no row left, BudgetExhausted or RateLimited.
Return(w) ==
  /\ Goto(w, "idle")
  /\ rows' = [rows EXCEPT ![w] = <<>>]
  /\ todo' = [todo EXCEPT ![w] = {}]
  /\ question' = [question EXCEPT ![w] = 0]
  /\ UNCHANGED waiting

\* continue of a thread that cannot be read, break of one not to be posted in
NextThread(w) ==
  /\ Goto(w, "threads")
  /\ rows' = [rows EXCEPT ![w] = Tail(@)]
  /\ todo' = [todo EXCEPT ![w] = {}]
  /\ question' = [question EXCEPT ![w] = 0]
  /\ UNCHANGED waiting

NoMoreThreads(w) ==
  /\ pc[w] = "threads" /\ rows[w] = <<>>
  /\ Return(w)
  /\ UNCHANGED <<calls, slack, seen, others, ghost, faults>>

Fetch(w) ==
  /\ pc[w] = "threads" /\ rows[w] # <<>>
  /\ todo' = [todo EXCEPT ![w] = Unseen(Head(rows[w]))]
  /\ Goto(w, "replies")
  /\ UNCHANGED <<calls, slack, seen, rows, question, waiting, others, ghost, faults>>

FetchFails(w) ==
  /\ pc[w] = "threads" /\ rows[w] # <<>>
  /\ Fault
  /\ NextThread(w) \/ Return(w)
  /\ UNCHANGED <<calls, slack, seen, others, ghost>>

NoMoreReplies(w) ==
  /\ pc[w] = "replies" /\ todo[w] = {}
  /\ NextThread(w)
  /\ UNCHANGED <<calls, slack, seen, others, ghost, faults>>

\* Mutant: the mark is written before the answer is posted.
SearchMarksEarly(w) ==
  /\ pc[w] = "replies" /\ todo[w] # {}
  /\ question' = [question EXCEPT ![w] = CHOOSE k \in todo[w] : \A j \in todo[w] : k <= j]
  /\ seen' = [seen EXCEPT ![Head(rows[w]).incident] = question'[w]]
  /\ Goto(w, "day") \/ Goto(w, "post")
  /\ UNCHANGED <<calls, slack, rows, todo, waiting, others, ghost, faults>>

\* answer_question up to the composer; with no evidence it composes nothing.
Search(w) ==
  /\ pc[w] = "replies"
  /\ \E k \in todo[w] :
       /\ \A j \in todo[w] : k <= j
       /\ question' = [question EXCEPT ![w] = k]
  /\ Goto(w, "day") \/ Goto(w, "post")
  /\ UNCHANGED <<calls, slack, seen, rows, todo, waiting, others, ghost, faults>>

\* Mutant: a question the budget refuses counts as seen.
CheckDayDrops(w) ==
  /\ pc[w] = "day"
  /\ IF DayAllows
     THEN Goto(w, "hour") /\ UNCHANGED <<seen, rows, todo, question, waiting>>
     ELSE /\ Return(w)
          /\ seen' = [seen EXCEPT ![Head(rows[w]).incident] = question[w]]
  /\ UNCHANGED <<calls, slack, others, ghost, faults>>

CheckDay(w) ==
  /\ pc[w] = "day"
  /\ IF DayAllows
     THEN Goto(w, "hour") /\ UNCHANGED <<rows, todo, question, waiting>>
     ELSE Return(w)
  /\ UNCHANGED <<calls, slack, seen, others, ghost, faults>>

\* The LLM call that follows may fail, which is a Crash at "post".
Spend(w) ==
  /\ pc[w] = "hour"
  /\ \/ SpendHour /\ Goto(w, "post") /\ UNCHANGED <<rows, todo, question, waiting>>
     \/ Refuse /\ Return(w)
  /\ UNCHANGED <<slack, seen, others, ghost, faults>>

Show(w) ==
  LET i == Head(rows[w]).incident
  IN  thread' = [thread EXCEPT ![i] = Append(@, [from |-> "bot", to |-> question[w]])]

Post(w) ==
  /\ pc[w] = "post"
  /\ Show(w)
  /\ Goto(w, "mark")
  /\ UNCHANGED <<calls, open, unbriefed, seen, rows, todo, question, waiting, others, ghost, faults>>

\* The call raises, also where Slack has shown the answer.
PostFails(w) ==
  /\ pc[w] = "post"
  /\ Fault
  /\ \/ UNCHANGED <<thread, unmarked>>
     \/ Show(w) /\ unmarked' = [unmarked EXCEPT ![Head(rows[w]).incident] = @ + 1]
  /\ NextThread(w) \/ Return(w)
  /\ UNCHANGED <<calls, open, unbriefed, seen, others, overlapped>>

\* Mutant: one mark for the whole thread, after its last answer.
MarkOnce(w) ==
  /\ pc[w] = "mark"
  /\ LET row == Head(rows[w])
     IN  /\ seen' = IF todo[w] = {question[w]}
                    THEN [seen EXCEPT ![row.incident] = question[w]] ELSE seen
         /\ rows' = [rows EXCEPT ![w] = <<[row EXCEPT !.seen = question[w]]>> \o Tail(@)]
  /\ todo' = [todo EXCEPT ![w] = @ \ {question[w]}]
  /\ question' = [question EXCEPT ![w] = 0]
  /\ Goto(w, "replies")
  /\ UNCHANGED <<calls, slack, waiting, others, ghost, faults>>

\* _MARK_SEEN_SQL, and newest and seen_ts with it
Mark(w) ==
  /\ pc[w] = "mark"
  /\ LET row == Head(rows[w])
         newest == IF question[w] > row.seen THEN question[w] ELSE row.seen
     IN  /\ seen' = [seen EXCEPT ![row.incident] = newest]
         /\ rows' = [rows EXCEPT ![w] = <<[row EXCEPT !.seen = newest]>> \o Tail(@)]
  /\ todo' = [todo EXCEPT ![w] = @ \ {question[w]}]
  /\ question' = [question EXCEPT ![w] = 0]
  /\ Goto(w, "replies")
  /\ UNCHANGED <<calls, slack, waiting, others, ghost, faults>>

\* Any other exception escapes the idle hook; the new process polls at once.
Crash(w) ==
  /\ pc[w] # "idle"
  /\ Fault
  /\ pc' = [pc EXCEPT ![w] = "idle"]
  /\ rows' = [rows EXCEPT ![w] = <<>>]
  /\ todo' = [todo EXCEPT ![w] = {}]
  /\ question' = [question EXCEPT ![w] = 0]
  /\ waiting' = [waiting EXCEPT ![w] = FALSE]
  /\ unmarked' = IF pc[w] = "mark"
                 THEN [unmarked EXCEPT ![Head(rows[w]).incident] = @ + 1]
                 ELSE unmarked
  /\ UNCHANGED <<calls, slack, seen, others, overlapped>>

----------------------------------------------------------------------------
(* What else the worker pays for, and the people in the channel *)

\* Mutant: a call nobody owes is paid for.
CheckDayUnowed(w) ==
  /\ pc[w] = "idle" /\ DayAllows
  /\ others' = others - 1
  /\ Goto(w, "other")
  /\ UNCHANGED <<calls, slack, seen, rows, todo, question, waiting, ghost, faults>>

CheckDayForOther(w) ==
  /\ pc[w] = "idle" /\ others > 0 /\ DayAllows
  /\ others' = others - 1
  /\ Goto(w, "other")
  /\ UNCHANGED <<calls, slack, seen, rows, todo, question, waiting, ghost, faults>>

SpendForOther(w) ==
  /\ pc[w] = "other"
  /\ SpendHour \/ Refuse
  /\ Goto(w, "idle")
  /\ UNCHANGED <<slack, seen, rows, todo, question, waiting, others, ghost, faults>>

BriefIsDelivered(i) ==
  /\ i \in unbriefed
  /\ unbriefed' = unbriefed \ {i}
  /\ open' = <<i>> \o open
  /\ UNCHANGED <<calls, thread, seen, local, others, ghost, faults>>

\* 24 hours after its brief
ThreadCloses ==
  /\ open # <<>>
  /\ open' = SubSeq(open, 1, Len(open) - 1)
  /\ UNCHANGED <<calls, thread, unbriefed, seen, local, others, ghost, faults>>

Write(i, who) ==
  /\ i \notin unbriefed
  /\ Cardinality(Written(i)) < MaxWritten
  /\ thread' = [thread EXCEPT ![i] = Append(@, [from |-> who, to |-> 0])]
  /\ UNCHANGED <<calls, open, unbriefed, seen, local, others, ghost, faults>>

NextHour ==
  /\ HourTurns
  /\ UNCHANGED <<slack, seen, local, others, ghost, faults>>

----------------------------------------------------------------------------
Step(w) ==
  \/ Poll(w) \/ NoMoreThreads(w) \/ Fetch(w) \/ NoMoreReplies(w) \/ Search(w)
  \/ CheckDay(w) \/ Spend(w) \/ Post(w) \/ Mark(w) \/ SpendForOther(w)

Next ==
  \/ \E w \in Worker :
       Step(w) \/ Due(w) \/ FetchFails(w) \/ PostFails(w) \/ Crash(w) \/ CheckDayForOther(w)
  \/ \E i \in Incident : BriefIsDelivered(i) \/ Write(i, "person") \/ Write(i, "other")
  \/ ThreadCloses \/ NextHour

Spec == Init /\ [][Next]_vars

\* The idle hook comes round, the clock runs.
Fairness ==
  /\ \A w \in Worker : WF_vars(Step(w)) /\ WF_vars(Due(w))
  /\ WF_vars(NextHour)

FairSpec == Spec /\ Fairness

----------------------------------------------------------------------------
(* Properties *)

\* thread_seen_ts moves only past questions that were answered, whatever
\* fails in between and however many workers poll from old snapshots: a
\* reply that is not answered stays in front of the mark.
NoQuestionIsSkipped ==
  \A i \in Incident : \A k \in Questions(i) : k <= seen[i] => k \in Answered(i)

\* While polls do not overlap, a question is answered again only for an
\* answer whose mark was never written: the mark comes after every answer,
\* not after the thread, and a failed post keeps the marks before it.
RepeatsAreExcused ==
  ~overlapped =>
    \A i \in Incident :
      Cardinality(AnswersIn(i)) <= Cardinality(Answered(i)) + unmarked[i]

\* The day's cap is read before the hour is spent, so workers that read it
\* together may pass it, each by the one call it was about to make and no more.
DailyCapHolds == DayCalls <= DailyCap + Cardinality(Worker) - 1

\* Every question of a watched thread is answered, or its thread leaves the
\* watch, although budgets run out, briefs compete for them, Slack fails and
\* workers crash: a deferred question is retried.
QuestionsAreAnswered ==
  \A i \in Incident :
    LET watched == \E k \in DOMAIN Watched : Watched[k] = i
        pending == Questions(i) \ Answered(i) # {}
    IN  (watched /\ pending) ~> (~watched \/ ~pending)
=============================================================================
