------------------------------ MODULE LiveEval ------------------------------
(***************************************************************************)
(* `make live-eval` beside the running pipeline: the guard that waits for  *)
(* the replay backlog to drain (freshet/ops/index_ready.py), the hybrid    *)
(* search that the autopilot's answers and the evaluation share (freshet/  *)
(* rag/retrieval.py), and the evaluation that asks one question after the  *)
(* other (freshet/eval/live_retrieval.py).                                 *)
(*                                                                         *)
(* The poller, the stream job and the embedder go on while the guard reads *)
(* one lag after the other and a search runs one SELECT after the other.   *)
(* A chunk's text is the message and the ordinal it was written from; what *)
(* a question makes of a text (its cosine, its centered cosine, its        *)
(* full-text rank) is given by the question.  What the evaluation computes *)
(* from its rankings is a number in a file that nothing reads back, and is *)
(* left out.                                                               *)
(***************************************************************************)
EXTENDS Integers, Sequences, FiniteSets

CONSTANTS
  Feed,        \* what the poller will produce, message by message
  Incident,    \* the incident of an event; events are numbered by their ts
  Questions,   \* what searches may ask
  Floor,       \* min_similarity
  CenteredFloor,   \* min_similarity_centered
  ArmK,        \* ARM_K, the depth of an arm
  RrfK,        \* RRF_K
  K,           \* the K of the evaluation
  MaxFaults,   \* bound on injected faults of all kinds
  None         \* no filter

Message == [event : Nat \ {0}, chunks : Nat \ {0}]
Text == UNION {{<<m, c>> : c \in 1 .. Feed[m].chunks} : m \in DOMAIN Feed}
Event == {Feed[m].event : m \in DOMAIN Feed}

ASSUME LiveEvalAssumption ==
  /\ Feed \in Seq(Message)
  /\ \A q \in Questions : q \in [cos : [Text -> Nat], ccos : [Text -> Nat], centered : BOOLEAN,
                                 rank : [Text -> Nat], since : Event \cup {None}]
  /\ ArmK \in Nat \ {0} /\ RrfK \in Nat /\ ArmK <= RrfK
  /\ K \in Nat \ {0} /\ MaxFaults \in Nat
  /\ None \notin Event

VARIABLES
  \* Kafka: raw.incidents, normalized.updates, and the offsets of their groups
  raw, updates,
  streamOffset, embedderOffset,
  taken,       \* what the running stream job has read and emitted
  \* the embedder
  handled, wrote,
  index,       \* vector_records: the message a chunk_id was written from
  \* the guard, and the evaluation behind it
  stage,
  last,        \* wait_ready's `last`: was the lag of each group 0?
  todo,        \* the query events of the candidates not asked yet
  \* a search
  at, ask, vec, kw, hits, abstained,
  \* history used only to state properties
  mark,        \* Len(raw.incidents) when the guard read the stream's lag
  faults

kafka == <<raw, updates, streamOffset, embedderOffset, taken>>
embedder == <<handled, wrote, index>>
pipeline == <<kafka, embedder>>
guard == <<stage, last, mark>>
evaluation == <<todo>>
search == <<at, ask, vec, kw, hits, abstained>>
vars == <<pipeline, guard, evaluation, search, faults>>

Fault == faults < MaxFaults /\ faults' = faults + 1

Nothing == [by |-> None, question |-> None, exclude |-> None, since |-> None]

Init ==
  /\ raw = 0 /\ updates = <<>> /\ streamOffset = 0 /\ embedderOffset = 0 /\ taken = 0
  /\ handled = 0 /\ wrote = 0 /\ index = <<>>
  /\ stage = "wait" /\ last = <<>> /\ mark = 0
  /\ todo = {}
  /\ at = "idle" /\ ask = Nothing /\ vec = <<>> /\ kw = <<>> /\ hits = <<>> /\ abstained = FALSE
  /\ faults = 0

----------------------------------------------------------------------------
(* The pipeline *)

Produce ==
  /\ raw < Len(Feed) /\ raw' = raw + 1
  /\ UNCHANGED <<updates, streamOffset, embedderOffset, taken, embedder, guard, evaluation,
                 search, faults>>

\* The stream job emits the next message; a checkpoint flushes the sink and
\* commits the offsets of the source.
Emit ==
  /\ taken < raw /\ taken' = taken + 1
  /\ updates' = Append(updates, taken + 1)
  /\ UNCHANGED <<raw, streamOffset, embedderOffset, embedder, guard, evaluation, search, faults>>

Checkpoint ==
  /\ streamOffset # taken /\ streamOffset' = taken
  /\ UNCHANGED <<raw, updates, embedderOffset, taken, embedder, guard, evaluation, search, faults>>

\* From a checkpoint, or submitted anew: then the group keeps its offset until
\* the new job's first checkpoint.
JobRestarts ==
  /\ Fault /\ taken' \in {streamOffset, 0} \ {taken}
  /\ UNCHANGED <<raw, updates, streamOffset, embedderOffset, embedder, guard, evaluation, search>>

Overwrite(rows, id, m) == [x \in DOMAIN rows \cup {id} |-> IF x = id THEN m ELSE rows[x]]

\* handle(): one upsert per chunk, then the chunks an older text had more.
Upsert ==
  LET m == updates[handled + 1] IN
  /\ handled < Len(updates) /\ wrote < Feed[m].chunks
  /\ wrote' = wrote + 1
  /\ index' = Overwrite(index, <<Feed[m].event, wrote + 1>>, m)
  /\ UNCHANGED <<kafka, handled, guard, evaluation, search, faults>>

Trim ==
  LET m == updates[handled + 1] IN
  /\ handled < Len(updates) /\ wrote = Feed[m].chunks
  /\ handled' = handled + 1 /\ wrote' = 0
  /\ index' = [id \in {id \in DOMAIN index : id[1] = Feed[m].event => id[2] <= Feed[m].chunks}
                 |-> index[id]]
  /\ UNCHANGED <<kafka, guard, evaluation, search, faults>>

\* A full batch, or an idle poll.
Commit ==
  /\ embedderOffset < handled /\ embedderOffset' = handled
  /\ UNCHANGED <<raw, updates, streamOffset, taken, embedder, guard, evaluation, search, faults>>

EmbedderRestarts ==
  /\ Fault /\ handled' = embedderOffset /\ wrote' = 0
  /\ UNCHANGED <<kafka, index, guard, evaluation, search>>

----------------------------------------------------------------------------
(* wait_ready *)

\* Seeded bug: the groups are read against the direction of the flow.
GroupsReversed == <<"embedder", "freshet-stream">>

Groups == <<"freshet-stream", "embedder">>

\* TOTAL-LAG.  An assumption about `rpk group describe`: a group that has
\* committed nothing yet lags by all its topic holds, as one that starts at
\* the earliest offset does; and a group it does not list is an error.
Lag(group) ==
  IF group = "freshet-stream" THEN raw - streamOffset ELSE Len(updates) - embedderOffset

\* One `rpk group describe`; it may fail.
ReadLag ==
  LET group == Groups[Len(last) + 1] IN
  /\ stage = "wait" /\ Len(last) < Len(Groups)
  /\ \/ last' = Append(last, Lag(group) = 0) /\ UNCHANGED faults
     \/ Fault /\ last' = Append(last, FALSE)
  /\ mark' = IF group = "freshet-stream" THEN raw ELSE mark
  /\ UNCHANGED <<pipeline, stage, evaluation, search>>

AllClear == \A g \in DOMAIN last : last[g]

\* Somewhere behind: sleep and read again, or give up at the deadline.
WaitOn ==
  /\ stage = "wait" /\ Len(last) = Len(Groups) /\ ~AllClear
  /\ last' = <<>> /\ mark' = 0 /\ stage' \in {"wait", "timeout"}
  /\ UNCHANGED <<pipeline, evaluation, search, faults>>

Again ==
  /\ stage = "timeout" /\ stage' = "wait"
  /\ UNCHANGED <<pipeline, last, mark, evaluation, search, faults>>

----------------------------------------------------------------------------
(* The evaluation *)

Indexed == {id[1] : id \in DOMAIN index}
Least(S) == CHOOSE x \in S : \A y \in S : x <= y

\* eligible_candidates: incidents with two updates or more, asked for with the
\* words of the first.
Candidates ==
  LET Of(i) == {e \in Indexed : Incident[e] = i} IN
  {Least(Of(i)) : i \in {Incident[e] : e \in {e \in Indexed : Cardinality(Of(Incident[e])) > 1}}}

Start ==
  /\ stage = "wait" /\ Len(last) = Len(Groups) /\ AllClear
  /\ stage' = "ready" /\ todo' = Candidates
  /\ UNCHANGED <<pipeline, last, mark, search, faults>>

Current == Least(todo)

EvaluationAsks ==
  /\ stage = "ready" /\ todo # {} /\ at = "idle" /\ at' = "vector"
  /\ \E q \in Questions :
       ask' = [by |-> "evaluation", question |-> q, exclude |-> Current, since |-> None]
  /\ UNCHANGED <<pipeline, guard, evaluation, vec, kw, hits, abstained, faults>>

\* A search is over and its result used.
Return ==
  /\ at = "done" /\ at' = "idle"
  /\ ask' = Nothing /\ vec' = <<>> /\ kw' = <<>> /\ hits' = <<>> /\ abstained' = FALSE
  /\ UNCHANGED <<pipeline, guard, faults>>

\* A ranking counts whether or not its search abstained.
Score == ask.by = "evaluation" /\ Return /\ todo' = todo \ {Current}

Report ==
  /\ stage = "ready" /\ todo = {} /\ stage' = "wait" /\ last' = <<>> /\ mark' = 0
  /\ UNCHANGED <<pipeline, evaluation, search, faults>>

----------------------------------------------------------------------------
(* hybrid_search *)

\* A question in a thread, with the window its words imply, if any.
ThreadAsks ==
  /\ at = "idle" /\ at' = "vector"
  /\ \E q \in Questions :
       ask' = [by |-> "thread", question |-> q, exclude |-> None, since |-> q.since]
  /\ UNCHANGED <<pipeline, guard, evaluation, vec, kw, hits, abstained, faults>>

\* answer_question: the hits join the thread's own updates unless it abstained.
Answer == ask.by = "thread" /\ Return /\ UNCHANGED evaluation

\* The rows _where() lets through, with the text they hold now.
Rows ==
  {[id |-> id, text |-> <<index[id], id[2]>>] : id \in
     {id \in DOMAIN index : /\ id[1] # ask.exclude
                            /\ ask.since = None \/ id[1] >= ask.since}}

Smaller(x, y) == IF x < y THEN x ELSE y

\* The first n of a ranking.
Top(ranking, n) ==
  [i \in 1 .. Smaller(n, Cardinality(DOMAIN ranking)) |->
     CHOOSE x \in DOMAIN ranking : ranking[x] = i]

IdBefore(x, y) == x[1] < y[1] \/ (x[1] = y[1] /\ x[2] < y[2])

\* ORDER BY value DESC, chunk_id.
By(value, r, s) ==
  \/ value[r.text] > value[s.text]
  \/ value[r.text] = value[s.text] /\ IdBefore(r.id, s.id)

Arm(rows, value) ==
  Top([r \in rows |-> Cardinality({s \in rows : ~By(value, r, s)})], ArmK)

VectorArm ==
  /\ at = "vector" /\ at' = "keyword"
  /\ vec' = Arm(Rows, ask.question.cos)
  /\ UNCHANGED <<pipeline, guard, evaluation, ask, kw, hits, abstained, faults>>

KeywordArm ==
  LET Matches == {r \in Rows : ask.question.rank[r.text] > 0} IN
  /\ at = "keyword" /\ at' = "fuse"
  /\ kw' = Arm(Matches, ask.question.rank)
  /\ UNCHANGED <<pipeline, guard, evaluation, ask, vec, hits, abstained, faults>>

Ids(list) == {list[i].id : i \in DOMAIN list}
Place(list, id) == CHOOSE i \in DOMAIN list : list[i].id = id
Row(list, id) == list[Place(list, id)]

\* Scores are fractions <<numerator, denominator>>.
Plus(x, y) == <<x[1] * y[2] + y[1] * x[2], x[2] * y[2]>>
Higher(x, y) == x[1] * y[2] > y[1] * x[2]
Share(list, id) == IF id \in Ids(list) THEN <<1, RrfK + Place(list, id) - 1>> ELSE <<0, 1>>

\* Seeded bug: a later list replaces the share of an earlier one.
LastScore(id) == IF id \in Ids(kw) THEN Share(kw, id) ELSE Share(vec, id)

RrfScore(id) == Plus(Share(vec, id), Share(kw, id))

\* Seeded bug: the keyword list is fused first.
EnteredKeywordFirst(id) ==
  IF id \in Ids(kw) THEN Place(kw, id) ELSE Len(kw) + Place(vec, id)

\* Both sorts are stable: equal scores stay in the order in which the
\* dictionary got its keys.
Entered(id) == IF id \in Ids(vec) THEN Place(vec, id) ELSE Len(vec) + Place(kw, id)

Ahead(x, y) ==
  \/ Higher(RrfScore(x), RrfScore(y))
  \/ ~Higher(RrfScore(y), RrfScore(x)) /\ Entered(x) < Entered(y)

\* The row, its similarity and its centered one come from the same arm.
Fused(k) ==
  LET found == Ids(vec) \cup Ids(kw)
      order == Top([x \in found |-> Cardinality({y \in found : ~Ahead(x, y)})], k)
  IN [i \in DOMAIN order |->
        IF order[i] \in Ids(vec) THEN Row(vec, order[i]) ELSE Row(kw, order[i])]

\* In the centered space when a centroid is stored.
Reaches(question, text) ==
  IF question.centered THEN question.ccos[text] >= CenteredFloor
                       ELSE question.cos[text] >= Floor

\* A time filter skips the floor.
Fuse ==
  /\ at = "fuse" /\ at' = "done"
  /\ hits' = Fused(K + 1)
  /\ abstained' = IF ask.since # None THEN hits' = <<>>
                  ELSE \A i \in DOMAIN hits' : ~Reaches(ask.question, hits'[i].text)
  /\ UNCHANGED <<pipeline, guard, evaluation, ask, vec, kw, faults>>

----------------------------------------------------------------------------

Pipeline ==
  \/ Produce \/ Emit \/ Checkpoint \/ JobRestarts
  \/ Upsert \/ Trim \/ Commit \/ EmbedderRestarts
Guard == ReadLag \/ WaitOn \/ Again
Evaluation == Start \/ EvaluationAsks \/ Score \/ Report
Search == ThreadAsks \/ VectorArm \/ KeywordArm \/ Fuse \/ Answer
Next == Pipeline \/ Guard \/ Evaluation \/ Search

Spec == Init /\ [][Next]_vars

----------------------------------------------------------------------------
(* Properties *)

\* "Wait until the Kafka-to-index path has drained its replay backlog"
\* (index_ready.py): behind the guard, every event that was on raw.incidents
\* when the guard looked is searchable, although the two lags were read one
\* after the other, beside a pipeline that restarts and replays.
ReadyMeansIndexed ==
  stage = "ready" => \A m \in 1 .. mark : <<Feed[m].event, 1>> \in DOMAIN index

InBoth == Ids(vec) \cap Ids(kw)

\* What can outweigh the chunk nearest to the question: what both arms found,
\* and the keyword arm ranks above it.
Rivals ==
  {x \in InBoth : vec[1].id \in Ids(kw) => Place(kw, x) < Place(kw, vec[1].id)}

\* "Abstain when nothing is retrieved or the best cosine similarity is below
\* the threshold" (retrieval.py): a search that abstains has not thrown away
\* the chunk nearest to the question, unless its rivals fill the result.
NearestIsHeard ==
  at = "done" /\ abstained /\ vec # <<>> /\ Reaches(ask.question, vec[1].text) =>
    Cardinality(Rivals) > K

\* Reciprocal-rank fusion prefers agreement: nothing that both arms found comes
\* after something that one arm found, and of two chunks that both found none
\* comes first that both arms rank lower, although the embedder rewrites and
\* trims chunks between the two SELECTs.
AgreementWins ==
  at = "done" =>
    \A i, j \in DOMAIN hits : i < j /\ hits[j].id \in InBoth =>
      LET x == hits[i].id y == hits[j].id IN
      /\ x \in InBoth
      /\ Place(vec, x) < Place(vec, y) \/ Place(kw, x) < Place(kw, y)
=============================================================================
