--------------------------- MODULE LiveEvalProofs ---------------------------
(***************************************************************************)
(* The guard of `make live-eval`, for any feed, questions, bounds on the   *)
(* faults and depths of a search: behind it every event that was on        *)
(* raw.incidents when it looked is in the index.  Only LiveEvalAssumption  *)
(* is assumed; of it, that every message has a chunk.  Then the hybrid     *)
(* search, for any texts, questions and floors: the fusion respects what   *)
(* the arms agree on, and an abstention has not cut off the nearest chunk. *)
(* Of the assumption this takes ARM_K <= RRF_K.                            *)
(***************************************************************************)
EXTENDS LiveEval, FiniteSetTheorems, TLAPS

\* What the numbers of the pipeline are, and that a commit is never ahead of
\* the work.
CountOK ==
  /\ raw \in Nat /\ raw <= Len(Feed)
  /\ taken \in Nat /\ taken <= raw /\ streamOffset \in Nat /\ streamOffset <= raw
  /\ updates \in Seq(1 .. Len(Feed))
  /\ handled \in Nat /\ handled <= Len(updates)
  /\ embedderOffset \in Nat /\ embedderOffset <= handled
  /\ wrote \in Nat
  /\ stage \in {"wait", "timeout", "ready"}
  /\ last \in Seq(BOOLEAN) /\ Len(last) <= 2
  /\ mark \in Nat /\ mark <= raw

Searchable(m) == <<Feed[m].event, 1>> \in DOMAIN index

\* The messages up to n are on the topic.
Emitted(n, topic) == \A m \in 1 .. n : \E i \in 1 .. Len(topic) : topic[i] = m

\* What the job has taken or committed was emitted, and what the embedder has
\* handled, or begun, left its first chunk.
FlowInv ==
  /\ Emitted(taken, updates) /\ Emitted(streamOffset, updates)
  /\ \A i \in 1 .. handled : Searchable(updates[i])
  /\ wrote > 0 => handled < Len(updates) /\ Searchable(updates[handled + 1])

\* A lag of 0 meant that everything before the mark was emitted, and then that
\* all of it was handled.
Clear(lags, g) == g <= Len(lags) /\ lags[g] = TRUE

GuardInv ==
  /\ Clear(last, 1) => Emitted(mark, updates)
  /\ Clear(last, 1) /\ Clear(last, 2) => \A m \in 1 .. mark : Searchable(m)
  /\ stage = "ready" => Clear(last, 1) /\ Clear(last, 2)

DrainInv == CountOK /\ FlowInv /\ GuardInv

LEMMA FeedFacts ==
  /\ Len(Feed) \in Nat
  /\ \A m \in 1 .. Len(Feed) : Feed[m].chunks \in Nat \ {0}
<1>1. Feed \in Seq(Message)
  BY LiveEvalAssumption
<1>2. \A m \in 1 .. Len(Feed) : Feed[m] \in Message
  BY <1>1
<1>3. \A x \in Message : x.chunks \in Nat \ {0}
  BY DEF Message
<1>. QED
  BY <1>1, <1>2, <1>3

LEMMA InitDrain == Init => DrainInv
BY FeedFacts DEF Init, DrainInv, CountOK, FlowInv, Emitted, GuardInv

\* Nothing the invariant speaks of has changed.
LEMMA DrainFrame ==
  ASSUME DrainInv, UNCHANGED <<pipeline, guard>>
  PROVE  DrainInv'
BY DEF DrainInv, CountOK, FlowInv, Emitted, Searchable, GuardInv, pipeline, kafka, embedder,
       guard

LEMMA DrainProduce == ASSUME DrainInv, Produce PROVE DrainInv'
<1>1. CountOK'
  BY FeedFacts DEF Produce, DrainInv, CountOK, embedder, guard
<1>. QED
  BY <1>1 DEF Produce, DrainInv, FlowInv, Emitted, Searchable, GuardInv, embedder, guard

LEMMA DrainEmit == ASSUME DrainInv, Emit PROVE DrainInv'
<1>. USE DEF DrainInv
<1>1. /\ taken + 1 \in 1 .. Len(Feed) /\ taken' = taken + 1
      /\ updates' = Append(updates, taken + 1)
      /\ UNCHANGED <<raw, streamOffset, embedderOffset, handled, wrote, index, stage, last, mark>>
  BY FeedFacts DEF Emit, CountOK, embedder, guard
<1>2. /\ updates' \in Seq(1 .. Len(Feed)) /\ Len(updates') = Len(updates) + 1
      /\ \A i \in 1 .. Len(updates) : updates'[i] = updates[i]
      /\ updates'[Len(updates) + 1] = taken + 1
      /\ Len(updates) \in Nat
  BY <1>1 DEF CountOK
<1>3. CountOK'
  BY <1>1, <1>2 DEF Emit, CountOK
<1>4. ASSUME NEW n \in Nat, Emitted(n, updates) PROVE Emitted(n, updates')
  BY <1>2, <1>4 DEF Emitted
<1>5. Emitted(taken + 1, updates')
  <2>1. Emitted(taken, updates') /\ taken \in Nat
    BY <1>4 DEF FlowInv, CountOK
  <2>2. \A m \in 1 .. taken + 1 : m \in 1 .. taken \/ m = taken + 1
    BY <2>1
  <2>. QED
    BY <1>2, <2>1, <2>2 DEF Emitted
<1>6. FlowInv'
  <2>1. Emitted(taken', updates') /\ Emitted(streamOffset', updates')
    BY <1>1, <1>4, <1>5 DEF FlowInv, CountOK
  <2>0. handled \in Nat /\ handled <= Len(updates)
    BY DEF CountOK
  <2>2. \A i \in 1 .. handled : updates'[i] = updates[i] /\ Searchable(updates[i])
    <3>1. \A i \in 1 .. handled : i \in 1 .. Len(updates)
      BY <1>2, <2>0
    <3>2. \A i \in 1 .. handled : Searchable(updates[i])
      BY DEF FlowInv
    <3>. QED
      BY <1>2, <3>1, <3>2
  <2>3. wrote > 0 => /\ handled < Len(updates) /\ Searchable(updates[handled + 1])
                     /\ updates'[handled + 1] = updates[handled + 1]
    BY <1>2, <2>0 DEF FlowInv
  <2>4. \A i \in 1 .. handled' : Searchable(updates[i])'
    BY <1>1, <2>2 DEF Searchable
  <2>5. wrote' > 0 => handled' < Len(updates') /\ Searchable(updates[handled + 1])'
    <3>1. wrote' = wrote /\ handled' = handled /\ index' = index
      BY <1>1
    <3>2. wrote > 0 => handled < Len(updates')
      BY <1>2, <2>0, <2>3
    <3>. QED
      BY <2>3, <3>1, <3>2 DEF Searchable
  <2>. QED
    BY <1>1, <2>1, <2>4, <2>5 DEF FlowInv
<1>7. GuardInv'
  BY <1>1, <1>4 DEF GuardInv, Searchable, CountOK
<1>. QED
  BY <1>3, <1>6, <1>7

LEMMA DrainJob == ASSUME DrainInv, Checkpoint \/ JobRestarts PROVE DrainInv'
<1>1. /\ taken' \in {taken, streamOffset, 0} /\ streamOffset' \in {taken, streamOffset}
      /\ UNCHANGED <<raw, updates, embedderOffset, handled, wrote, index, stage, last, mark>>
  BY DEF Checkpoint, JobRestarts, embedder, guard
<1>2. CountOK'
  BY <1>1 DEF DrainInv, CountOK
<1>. QED
  <2>1. Emitted(taken', updates') /\ Emitted(streamOffset', updates')
    BY <1>1 DEF DrainInv, FlowInv, Emitted
  <2>2. FlowInv'
    BY <1>1, <2>1 DEF DrainInv, FlowInv, Searchable
  <2>3. GuardInv'
    BY <1>1 DEF DrainInv, GuardInv, Searchable
  <2>. QED
    BY <1>2, <2>2, <2>3 DEF DrainInv

\* First chunks that were there are there.
LEMMA DrainIndex ==
  ASSUME DrainInv, CountOK', UNCHANGED <<updates, taken, streamOffset, guard>>,
         \A m \in 1 .. Len(Feed) : Searchable(m) => Searchable(m)',
         \A i \in 1 .. handled' : Searchable(updates[i])',
         wrote' > 0 => /\ handled' < Len(updates)
                       /\ <<Feed[updates[handled' + 1]].event, 1>> \in DOMAIN index'
  PROVE  DrainInv'
<1>1. FlowInv'
  BY DEF DrainInv, FlowInv, Searchable
<1>2. mark <= Len(Feed) /\ mark \in Nat
  BY FeedFacts DEF DrainInv, CountOK
<1>3. GuardInv'
  BY <1>2, FeedFacts DEF DrainInv, GuardInv, Emitted, guard
<1>. QED
  BY <1>1, <1>3 DEF DrainInv

LEMMA DrainUpsert == ASSUME DrainInv, Upsert PROVE DrainInv'
<1>. DEFINE m == updates[handled + 1]
<1>1. /\ handled < Len(updates) /\ wrote' = wrote + 1 /\ wrote \in Nat
      /\ handled + 1 \in 1 .. Len(updates) /\ m \in 1 .. Len(Feed)
      /\ DOMAIN index' = DOMAIN index \cup {<<Feed[m].event, wrote + 1>>}
      /\ UNCHANGED <<raw, updates, streamOffset, embedderOffset, taken, handled, guard>>
  BY FeedFacts DEF Upsert, Overwrite, DrainInv, CountOK, kafka
<1>2. CountOK'
  BY SMTT(30), <1>1 DEF DrainInv, CountOK, guard
<1>3. \A n \in 1 .. Len(Feed) : Searchable(n) => Searchable(n)'
  BY <1>1 DEF Searchable
<1>4. \A i \in 1 .. handled' : Searchable(updates[i])'
  BY <1>1 DEF Searchable, DrainInv, FlowInv
<1>5. Searchable(m)'
  <2>1. CASE wrote = 0
    BY <1>1, <2>1 DEF Searchable
  <2>2. CASE wrote > 0
    BY <1>1, <2>2 DEF Searchable, DrainInv, FlowInv
  <2>. QED
    BY <1>1, <2>1, <2>2
<1>. QED
  BY <1>1, <1>2, <1>3, <1>4, <1>5, DrainIndex DEF Searchable

LEMMA DrainTrim == ASSUME DrainInv, Trim PROVE DrainInv'
<1>. DEFINE m == updates[handled + 1]
<1>1. /\ handled < Len(updates) /\ wrote = Feed[m].chunks /\ wrote' = 0
      /\ handled' = handled + 1 /\ handled \in Nat /\ Len(updates) \in Nat
      /\ handled + 1 \in 1 .. Len(updates) /\ m \in 1 .. Len(Feed)
      /\ UNCHANGED <<raw, updates, streamOffset, embedderOffset, taken, guard>>
  BY FeedFacts DEF Trim, DrainInv, CountOK, kafka
<1>2. CountOK'
  BY <1>1 DEF DrainInv, CountOK, guard
<1>3. \A n \in 1 .. Len(Feed) : Searchable(n) => Searchable(n)'
  <2>1. DOMAIN index' =
          {id \in DOMAIN index : id[1] = Feed[m].event => id[2] <= Feed[m].chunks}
    BY DEF Trim
  <2>. QED
    BY <1>1, <2>1, FeedFacts DEF Searchable
<1>4. Searchable(m)
  BY <1>1, FeedFacts DEF DrainInv, FlowInv
<1>5. \A i \in 1 .. handled : Searchable(updates[i]) /\ updates[i] \in 1 .. Len(Feed)
  <2>1. \A i \in 1 .. handled : i \in 1 .. Len(updates)
    BY <1>1
  <2>2. \A i \in 1 .. Len(updates) : updates[i] \in 1 .. Len(Feed)
    BY DEF DrainInv, CountOK
  <2>. QED
    BY <2>1, <2>2 DEF DrainInv, FlowInv
<1>6. \A i \in 1 .. handled' : i = handled + 1 \/ i \in 1 .. handled
  BY <1>1
<1>7. \A i \in 1 .. handled' : Searchable(updates[i])'
  BY <1>1, <1>3, <1>4, <1>5, <1>6 DEF Searchable
<1>. QED
  BY <1>1, <1>2, <1>3, <1>7, DrainIndex

LEMMA DrainWorker == ASSUME DrainInv, Commit \/ EmbedderRestarts PROVE DrainInv'
<1>1. /\ embedderOffset' \in {handled, embedderOffset}
      /\ handled' \in {handled, embedderOffset} /\ embedderOffset' <= handled'
      /\ wrote' = 0 \/ (wrote' = wrote /\ handled' = handled)
      /\ UNCHANGED <<raw, updates, streamOffset, taken, index, guard>>
  BY DEF Commit, EmbedderRestarts, DrainInv, CountOK, kafka, embedder
<1>2. CountOK'
  BY <1>1 DEF DrainInv, CountOK, guard
<1>3. \A n \in 1 .. Len(Feed) : Searchable(n) => Searchable(n)'
  BY <1>1 DEF Searchable
<1>4. \A i \in 1 .. handled' : Searchable(updates[i])'
  BY <1>1 DEF Searchable, DrainInv, FlowInv, CountOK
<1>5. wrote' > 0 => /\ handled' < Len(updates)
                    /\ <<Feed[updates[handled' + 1]].event, 1>> \in DOMAIN index'
  BY <1>1 DEF Searchable, DrainInv, FlowInv
<1>. QED
  BY <1>1, <1>2, <1>3, <1>4, <1>5, DrainIndex

LEMMA DrainReadLag == ASSUME DrainInv, ReadLag PROVE DrainInv'
<1>1. Len(Groups) = 2 /\ Groups[1] = "freshet-stream" /\ Groups[2] = "embedder"
  BY DEF Groups
<1>2. last \in Seq(BOOLEAN) /\ Len(last) \in Nat /\ (Len(last) = 0 \/ Len(last) = 1)
  <2>1. last \in Seq(BOOLEAN) /\ Len(last) \in Nat /\ Len(last) < 2
    BY <1>1 DEF ReadLag, DrainInv, CountOK
  <2>2. \A n \in Nat : n < 2 => n = 0 \/ n = 1
    OBVIOUS
  <2>. QED
    BY <2>1, <2>2, Zenon
<1>3. /\ stage = "wait"
      /\ UNCHANGED <<raw, updates, streamOffset, embedderOffset, taken, handled, wrote, index,
                     stage>>
      /\ mark' = IF Len(last) = 0 THEN raw ELSE mark
  BY <1>1, <1>2 DEF ReadLag, pipeline, kafka, embedder
<1>4. PICK clear \in BOOLEAN :
        /\ last' = Append(last, clear)
        /\ clear = TRUE => Lag(Groups[Len(last) + 1]) = 0
  <2>1. CASE last' = Append(last, Lag(Groups[Len(last) + 1]) = 0)
    <3>1. (Lag(Groups[Len(last) + 1]) = 0) \in BOOLEAN
      OBVIOUS
    <3>2. (Lag(Groups[Len(last) + 1]) = 0) = TRUE => Lag(Groups[Len(last) + 1]) = 0
      OBVIOUS
    <3>. QED
      BY <2>1, <3>1, <3>2, Zenon
  <2>2. CASE last' = Append(last, FALSE)
    BY <2>2
  <2>. QED
    BY <2>1, <2>2 DEF ReadLag
<1>5. /\ last' \in Seq(BOOLEAN) /\ Len(last') = Len(last) + 1
      /\ last'[Len(last) + 1] = clear /\ (Len(last) = 1 => last'[1] = last[1])
  BY <1>2, <1>4
<1>6. CountOK'
  <2>1. Len(last') <= 2
    <3>1. Len(last') = Len(last) + 1
      BY <1>5
    <3>2. \A n \in Nat : n = 0 \/ n = 1 => n + 1 <= 2
      OBVIOUS
    <3>. QED
      BY <1>2, <3>1, <3>2, Zenon
  <2>2. mark' \in Nat /\ mark' <= raw
    BY <1>3 DEF DrainInv, CountOK
  <2>. QED
    BY <1>3, <1>5, <2>1, <2>2 DEF DrainInv, CountOK
<1>7. FlowInv'
  BY <1>3 DEF DrainInv, FlowInv, Searchable
<1>8. CASE Len(last) = 0
  <2>1. Clear(last', 1) => raw = streamOffset
    BY <1>1, <1>4, <1>5, <1>8 DEF Clear, Lag, DrainInv, CountOK
  <2>2. Clear(last', 1) => Emitted(mark', updates')
    BY <1>3, <1>8, <2>1 DEF DrainInv, FlowInv
  <2>3. ~Clear(last', 2)
    BY <1>5, <1>8 DEF Clear
  <2>. QED
    BY <1>3, <1>6, <1>7, <2>2, <2>3 DEF DrainInv, GuardInv
<1>9. CASE Len(last) = 1
  <2>1. Clear(last', 2) => Len(updates) = handled
    BY <1>1, <1>4, <1>5, <1>9 DEF Clear, Lag, DrainInv, CountOK
  <2>2. Clear(last', 1) => Emitted(mark, updates)
    BY <1>5, <1>9 DEF Clear, DrainInv, GuardInv
  <2>3. Clear(last', 1) /\ Clear(last', 2) => \A m \in 1 .. mark : Searchable(m)
    BY <2>1, <2>2 DEF DrainInv, FlowInv, Emitted
  <2>. QED
    BY <1>3, <1>6, <1>7, <1>9, <2>2, <2>3 DEF DrainInv, GuardInv, Searchable
<1>. QED
  BY <1>2, <1>8, <1>9

LEMMA DrainGuard == ASSUME DrainInv, WaitOn \/ Again \/ Start \/ Report PROVE DrainInv'
<1>1. CASE WaitOn \/ Report
  <2>1. /\ last' = <<>> /\ mark' = 0 /\ stage' \in {"wait", "timeout"} /\ UNCHANGED pipeline
    BY <1>1 DEF WaitOn, Report
  <2>. QED
    BY <2>1 DEF DrainInv, CountOK, FlowInv, Emitted, Searchable, GuardInv, Clear,
                pipeline, kafka, embedder
<1>2. CASE Again \/ Start
  <2>1. /\ UNCHANGED <<pipeline, last, mark>> /\ stage' \in {"wait", "ready"}
        /\ stage' = "ready" => Clear(last, 1) /\ Clear(last, 2)
    BY <1>2 DEF Again, Start, AllClear, Clear, Groups, DrainInv, CountOK
  <2>. QED
    BY <2>1 DEF DrainInv, CountOK, FlowInv, Emitted, Searchable, GuardInv, Clear,
                pipeline, kafka, embedder
<1>. QED
  BY <1>1, <1>2

LEMMA DrainNext == ASSUME DrainInv, [Next]_vars PROVE DrainInv'
<1>1. CASE Pipeline
  BY <1>1, DrainProduce, DrainEmit, DrainJob, DrainUpsert, DrainTrim, DrainWorker DEF Pipeline
<1>2. CASE Guard
  BY <1>2, DrainReadLag, DrainGuard DEF Guard
<1>3. CASE Evaluation
  BY <1>3, DrainGuard, DrainFrame DEF Evaluation, EvaluationAsks, Score, Return
<1>4. CASE Search
  BY <1>4, DrainFrame DEF Search, ThreadAsks, VectorArm, KeywordArm, Fuse, Answer, Return
<1>5. CASE UNCHANGED vars
  BY <1>5, DrainFrame DEF vars
<1>. QED
  BY <1>1, <1>2, <1>3, <1>4, <1>5 DEF Next

\* "Wait until the Kafka-to-index path has drained its replay backlog": the two
\* lags are read one after the other, beside a pipeline that produces, restarts
\* and replays, and the guard still lets an evaluation through only when every
\* event on raw.incidents at the first reading is searchable.
THEOREM ReadinessIsSound == Spec => []ReadyMeansIndexed
<1>1. DrainInv => ReadyMeansIndexed
  BY DEF DrainInv, GuardInv, ReadyMeansIndexed, Searchable
<1>. QED
  BY <1>1, InitDrain, DrainNext, PTL DEF Spec----------------------------------------------------------------------------
(***************************************************************************)
(* Rankings.  A ranking counts, for every member of a finite set, what is  *)
(* not after it; for a total order it numbers the set from 1.              *)
(***************************************************************************)

\* upto[x] is x and what comes before it.
Chain(S, upto) ==
  /\ IsFiniteSet(S) /\ upto \in [S -> SUBSET S]
  /\ \A x \in S : x \in upto[x]
  /\ \A x, y \in S : y \in upto[x] => upto[y] \subseteq upto[x]
  /\ \A x, y \in S : x # y => (y \in upto[x] <=> x \notin upto[y])

LEMMA RanksFollowTheOrder ==
  ASSUME NEW S, NEW upto, Chain(S, upto), NEW x \in S, NEW y \in S
  PROVE  /\ Cardinality(S) \in Nat
         /\ Cardinality(upto[x]) \in 1 .. Cardinality(S)
         /\ Cardinality(upto[y]) < Cardinality(upto[x]) <=> x # y /\ y \in upto[x]
<1>. USE DEF Chain
<1>1. ASSUME NEW z \in S
      PROVE  /\ IsFiniteSet(upto[z]) /\ Cardinality(upto[z]) \in Nat
             /\ Cardinality(upto[z]) <= Cardinality(S) /\ Cardinality(upto[z]) # 0
  <2>1. upto[z] \subseteq S /\ z \in upto[z] /\ IsFiniteSet(S)
    OBVIOUS
  <2>. QED
    BY <2>1, FS_Subset, FS_CardinalityType, FS_EmptySet
<1>2. Cardinality(S) \in Nat
  BY FS_CardinalityType
<1>3. ASSUME NEW a \in S, NEW b \in S, a # b, b \in upto[a]
      PROVE  Cardinality(upto[b]) < Cardinality(upto[a])
  <2>1. upto[b] \subseteq upto[a] /\ a \in upto[a] /\ a \notin upto[b]
    BY <1>3
  <2>2. upto[b] # upto[a]
    BY <2>1
  <2>3. /\ Cardinality(upto[b]) <= Cardinality(upto[a])
        /\ Cardinality(upto[a]) = Cardinality(upto[b]) => upto[a] = upto[b]
    BY <1>1, <2>1, FS_Subset
  <2>. QED
    BY <1>1, <2>2, <2>3
<1>4. x # y => y \in upto[x] \/ x \in upto[y]
  OBVIOUS
<1>. QED
  BY <1>1, <1>2, <1>3, <1>4

LEMMA EveryRankIsTaken ==
  ASSUME NEW S, NEW upto, Chain(S, upto), NEW i \in 1 .. Cardinality(S)
  PROVE  \E x \in S : Cardinality(upto[x]) = i
<1>. DEFINE T == 1 .. Cardinality(S)
            rank == [x \in S |-> Cardinality(upto[x])]
<1>0. IsFiniteSet(S) /\ Cardinality(S) \in Nat
  BY FS_CardinalityType DEF Chain
<1>1. rank \in [S -> T]
  BY RanksFollowTheOrder
<1>2. \A x, y \in S : x # y => rank[x] # rank[y]
  <2>. SUFFICES ASSUME NEW x \in S, NEW y \in S, x # y PROVE rank[x] # rank[y]
    OBVIOUS
  <2>1. y \in upto[x] \/ x \in upto[y]
    BY DEF Chain
  <2>2. /\ Cardinality(upto[x]) \in 1 .. Cardinality(S)
        /\ Cardinality(upto[y]) \in 1 .. Cardinality(S)
        /\ Cardinality(upto[y]) < Cardinality(upto[x])
             \/ Cardinality(upto[x]) < Cardinality(upto[y])
    BY <2>1, RanksFollowTheOrder
  <2>. QED
    BY <1>0, <2>2
<1>3. rank \in Injection(S, T)
  BY <1>1, <1>2 DEF Injection, IsInjective
<1>4. IsFiniteSet(T) /\ Cardinality(T) = Cardinality(S)
  <2>1. /\ IsFiniteSet(T)
        /\ Cardinality(T) = IF 1 > Cardinality(S) THEN 0 ELSE Cardinality(S) - 1 + 1
    BY <1>0, FS_Interval
  <2>. QED
    BY <1>0, <2>1
<1>5. rank \in Surjection(S, T)
  BY <1>3, <1>4, FS_Injection
<1>6. i \in T
  OBVIOUS
<1>. QED
  BY <1>5, <1>6 DEF Surjection

\* Top(ranking, k) lists the first k in order, and each of them at its rank.
LEMMA TopIsInOrder ==
  ASSUME NEW S, NEW upto, Chain(S, upto), NEW k \in Nat,
         NEW ranking, DOMAIN ranking = S, \A x \in S : ranking[x] = Cardinality(upto[x]),
         NEW t, t = Top(ranking, k)
  PROVE  /\ t \in Seq(S) /\ Len(t) <= k
         /\ \A i, j \in DOMAIN t : i < j => t[i] # t[j] /\ t[i] \in upto[t[j]]
         /\ \A x \in S : Cardinality(upto[x]) <= k =>
              /\ Cardinality(upto[x]) \in DOMAIN t
              /\ t[Cardinality(upto[x])] = x
<1>. DEFINE n == Smaller(k, Cardinality(S))
<1>0. /\ DOMAIN ranking = S /\ Cardinality(S) \in Nat
      /\ \A x \in S : ranking[x] = Cardinality(upto[x])
  BY FS_CardinalityType DEF Chain
<1>1. n \in Nat /\ n <= k /\ n <= Cardinality(S) /\ (n = k \/ n = Cardinality(S))
  BY <1>0 DEF Smaller
<1>2. t = [i \in 1 .. n |-> CHOOSE x \in DOMAIN ranking : ranking[x] = i]
  <2>1. t = [i \in 1 .. Smaller(k, Cardinality(DOMAIN ranking)) |->
               CHOOSE x \in DOMAIN ranking : ranking[x] = i]
    BY Zenon DEF Top
  <2>. QED
    BY <1>0, <2>1
<1>. HIDE DEF n
<1>3. DOMAIN t = 1 .. n /\ \A i \in 1 .. n : t[i] \in S /\ Cardinality(upto[t[i]]) = i
  <2>. SUFFICES ASSUME NEW i \in 1 .. n PROVE t[i] \in S /\ Cardinality(upto[t[i]]) = i
    BY <1>2
  <2>1. i \in 1 .. Cardinality(S)
    BY <1>0, <1>1
  <2>2. \E x \in DOMAIN ranking : ranking[x] = i
    BY <1>0, <2>1, EveryRankIsTaken
  <2>3. t[i] = CHOOSE x \in DOMAIN ranking : ranking[x] = i
    BY <1>2
  <2>4. t[i] \in DOMAIN ranking /\ ranking[t[i]] = i
    BY <2>2, <2>3, Zenon
  <2>. QED
    BY <1>0, <2>4
<1>4. t \in Seq(S) /\ Len(t) = n
  BY <1>1, <1>2, <1>3
<1>5. ASSUME NEW i \in DOMAIN t, NEW j \in DOMAIN t, i < j
      PROVE  t[i] # t[j] /\ t[i] \in upto[t[j]]
  <2>1. /\ t[i] \in S /\ t[j] \in S
        /\ Cardinality(upto[t[i]]) = i /\ Cardinality(upto[t[j]]) = j
    BY <1>3
  <2>2. Cardinality(upto[t[i]]) < Cardinality(upto[t[j]])
    BY <1>5, <2>1
  <2>. QED
    BY <2>1, <2>2, RanksFollowTheOrder
<1>6. ASSUME NEW x \in S, Cardinality(upto[x]) <= k
      PROVE  /\ Cardinality(upto[x]) \in DOMAIN t
             /\ t[Cardinality(upto[x])] = x
  <2>1. Cardinality(upto[x]) \in 1 .. Cardinality(S)
    BY RanksFollowTheOrder
  <2>2. Cardinality(upto[x]) \in 1 .. n
    BY <1>0, <1>1, <1>6, <2>1
  <2>. DEFINE y == t[Cardinality(upto[x])]
  <2>3. y \in S /\ Cardinality(upto[y]) = Cardinality(upto[x])
    BY <1>3, <2>2
  <2>4. ~(Cardinality(upto[y]) < Cardinality(upto[x]))
        /\ ~(Cardinality(upto[x]) < Cardinality(upto[y]))
    BY <2>1, <2>3
  <2>5. x = y
    <3>1. y \in upto[x] \/ x \in upto[y] \/ x = y
      BY <2>3 DEF Chain
    <3>2. /\ x # y /\ y \in upto[x] => Cardinality(upto[y]) < Cardinality(upto[x])
          /\ y # x /\ x \in upto[y] => Cardinality(upto[x]) < Cardinality(upto[y])
      BY <2>3, RanksFollowTheOrder
    <3>. QED
      BY <2>4, <3>1, <3>2
  <2>. QED
    BY <1>3, <2>2, <2>5
<1>. QED
  BY <1>1, <1>4, <1>5, <1>6

----------------------------------------------------------------------------
(***************************************************************************)
(* Scores.  Fractions are compared without dividing.                       *)
(***************************************************************************)
Fraction == Nat \X (Nat \ {0})

LEMMA ScaleUp ==
  ASSUME NEW x \in Int, NEW y \in Int, NEW z \in Nat, x <= y
  PROVE  x * z <= y * z
<1>. DEFINE d == y - x
<1>1. d \in Nat /\ y = x + d
  OBVIOUS
<1>. HIDE DEF d
<1>2. d * z \in Nat
  BY <1>1
<1>3. (x + d) * z = x * z + d * z
  BY <1>1
<1>4. x * z \in Int
  OBVIOUS
<1>5. y * z = x * z + d * z
  BY <1>1, <1>3
<1>. QED
  BY <1>2, <1>4, <1>5

LEMMA ScaleUpStrictly ==
  ASSUME NEW x \in Int, NEW y \in Int, NEW z \in Nat \ {0}, x < y
  PROVE  x * z < y * z
<1>1. x + 1 \in Int /\ x + 1 <= y
  OBVIOUS
<1>2. (x + 1) * z <= y * z
  BY <1>1, ScaleUp
<1>3. (x + 1) * z = x * z + z
  OBVIOUS
<1>4. x * z \in Int /\ y * z \in Int
  OBVIOUS
<1>. QED
  BY <1>2, <1>3, <1>4

LEMMA ScaleDown ==
  ASSUME NEW x \in Int, NEW y \in Int, NEW z \in Nat \ {0}, x * z <= y * z
  PROVE  x <= y
<1>1. CASE y < x
  <2>1. y * z < x * z
    BY <1>1, ScaleUpStrictly
  <2>2. x * z \in Int /\ y * z \in Int
    OBVIOUS
  <2>. QED
    BY <2>1, <2>2
<1>. QED
  BY <1>1

LEMMA HigherIsAnOrder ==
  ASSUME NEW x \in Fraction, NEW y \in Fraction, NEW z \in Fraction
  PROVE  /\ ~(Higher(x, y) /\ Higher(y, x))
         /\ ~Higher(x, y) /\ ~Higher(y, z) => ~Higher(x, z)
<1>1. PICK a \in Nat, b \in Nat \ {0} : x = <<a, b>>
  BY DEF Fraction
<1>2. PICK c \in Nat, d \in Nat \ {0} : y = <<c, d>>
  BY DEF Fraction
<1>3. PICK e \in Nat, f \in Nat \ {0} : z = <<e, f>>
  BY DEF Fraction
<1>4. /\ Higher(x, y) <=> a * d > c * b
      /\ Higher(y, x) <=> c * b > a * d
      /\ Higher(y, z) <=> c * f > e * d
      /\ Higher(x, z) <=> a * f > e * b
  BY <1>1, <1>2, <1>3 DEF Higher
<1>5. /\ a * d \in Nat /\ c * b \in Nat /\ c * f \in Nat /\ e * d \in Nat /\ a * f \in Nat
      /\ e * b \in Nat
  OBVIOUS
<1>6. ASSUME a * d <= c * b, c * f <= e * d PROVE a * f <= e * b
  <2>1. (a * d) * f <= (c * b) * f
    BY <1>5, <1>6, ScaleUp
  <2>2. (c * f) * b <= (e * d) * b
    BY <1>5, <1>6, ScaleUp
  <2>3. (a * d) * f = (a * f) * d /\ (c * b) * f = (c * f) * b /\ (e * d) * b = (e * b) * d
    OBVIOUS
  <2>4. (a * f) * d \in Int /\ (c * f) * b \in Int /\ (e * b) * d \in Int
    OBVIOUS
  <2>5. (a * f) * d <= (e * b) * d
    BY <2>1, <2>2, <2>3, <2>4
  <2>. QED
    BY <1>5, <2>5, ScaleDown
<1>. QED
  BY <1>4, <1>5, <1>6

\* 1/A + 1/B > 1/C, where A and B are at most twice as large as C can be.
LEMMA TwoSharesOutweighOne ==
  ASSUME NEW n \in Nat \ {0}, NEW a \in n .. 2 * n - 1, NEW b \in n .. 2 * n - 1,
         NEW c \in Nat, n <= c
  PROVE  (a + b) * c > 1 * (a * b)
<1>1. a \in Nat /\ b \in Nat /\ a + b \in Nat \ {0} /\ a <= 2 * n - 1 /\ b <= 2 * n - 1
  OBVIOUS
<1>2. b * a <= (2 * n - 1) * a
  BY <1>1, ScaleUp
<1>3. a * b <= (2 * n - 1) * b
  BY <1>1, ScaleUp
<1>4. (2 * n - 1) * a = 2 * (n * a) - a /\ (2 * n - 1) * b = 2 * (n * b) - b
  BY <1>1
<1>5. n * (a + b) <= c * (a + b)
  BY <1>1, ScaleUp
<1>6. n * (a + b) = n * a + n * b /\ c * (a + b) = (a + b) * c /\ b * a = a * b
  BY <1>1
<1>7. a * b \in Int /\ n * a \in Int /\ n * b \in Int /\ (a + b) * c \in Int
  BY <1>1
<1>8. (a * b) + (a * b) < 2 * (n * a) + 2 * (n * b)
  BY <1>1, <1>2, <1>3, <1>4, <1>6, <1>7
<1>9. n * a + n * b <= (a + b) * c
  BY <1>5, <1>6
<1>. QED
  BY <1>7, <1>8, <1>9

\* 1/C + 1/D > 1/A + 1/B when C < A and D < B.
LEMMA SharesFallWithThePlaces ==
  ASSUME NEW a \in Nat \ {0}, NEW b \in Nat \ {0}, NEW c \in Nat \ {0}, NEW d \in Nat \ {0},
         c < a, d < b
  PROVE  (d + c) * (a * b) > (b + a) * (c * d)
<1>1. c * a \in Nat \ {0} /\ d * b \in Nat \ {0}
  <2>1. ASSUME NEW x \in Nat \ {0}, NEW y \in Nat \ {0} PROVE x * y \in Nat \ {0}
    <3>1. 0 * y < x * y
      BY ScaleUpStrictly
    <3>2. 0 * y = 0 /\ x * y \in Int
      OBVIOUS
    <3>. QED
      BY <3>1, <3>2
  <2>. QED
    BY <2>1
<1>2. d * (c * a) < b * (c * a)
  BY <1>1, ScaleUpStrictly
<1>3. c * (d * b) < a * (d * b)
  BY <1>1, ScaleUpStrictly
<1>4. (d + c) * (a * b) = a * (d * b) + b * (c * a)
  OBVIOUS
<1>5. (b + a) * (c * d) = c * (d * b) + d * (c * a)
  OBVIOUS
<1>6. /\ d * (c * a) \in Int /\ b * (c * a) \in Int
      /\ c * (d * b) \in Int /\ a * (d * b) \in Int
  OBVIOUS
<1>. QED
  BY <1>2, <1>3, <1>4, <1>5, <1>6

----------------------------------------------------------------------------
(***************************************************************************)
(* What an arm returns, and what the fusion makes of two such lists.       *)
(***************************************************************************)

\* Rows in order, a chunk at most once, and no more of them than ARM_K.
Listing(list) ==
  /\ Len(list) \in Nat /\ DOMAIN list = 1 .. Len(list)
  /\ Len(list) <= ArmK /\ (Len(list) = 0 => list = <<>>)
  /\ \A i, j \in DOMAIN list : i < j => list[i].id # list[j].id

LEMMA PlaceOfRow ==
  ASSUME NEW list, Listing(list), NEW i \in DOMAIN list
  PROVE  list[i].id \in Ids(list) /\ Place(list, list[i].id) = i
<1>. DEFINE p == Place(list, list[i].id)
<1>1. p \in DOMAIN list /\ list[p].id = list[i].id
  BY Zenon DEF Place
<1>2. p \in Nat /\ i \in Nat /\ ~(p < i) /\ ~(i < p)
  BY <1>1 DEF Listing
<1>. QED
  BY <1>2 DEF Ids

LEMMA PlaceInList ==
  ASSUME NEW list, Listing(list), NEW id \in Ids(list)
  PROVE  /\ Place(list, id) \in 1 .. Len(list) /\ Len(list) \in Nat
         /\ Row(list, id).id = id
<1>1. PICK i \in DOMAIN list : list[i].id = id
  BY DEF Ids
<1>2. Place(list, id) = i
  BY <1>1, PlaceOfRow
<1>. QED
  BY <1>1, <1>2 DEF Row, Listing

LEMMA PlacesDiffer ==
  ASSUME NEW list, Listing(list), NEW x \in Ids(list), NEW y \in Ids(list), x # y
  PROVE  Place(list, x) # Place(list, y)
BY PlaceInList DEF Row

LEMMA IdsAreFew ==
  ASSUME NEW list, Listing(list)
  PROVE  IsFiniteSet(Ids(list))
<1>. DEFINE T == Ids(list)
            f == [i \in 1 .. Len(list) |-> list[i].id]
<1>1. f \in Surjection(1 .. Len(list), T)
  BY DEF Surjection, Ids, Listing
<1>2. IsFiniteSet(1 .. Len(list))
  BY FS_Interval DEF Listing
<1>. QED
  BY <1>1, <1>2, FS_Surjection

Found == Ids(vec) \cup Ids(kw)
Lists == Listing(vec) /\ Listing(kw)

\* The denominator of a share.
Under(list, id) == RrfK + Place(list, id) - 1

LEMMA UnderIs ==
  ASSUME NEW list, Listing(list), NEW id \in Ids(list)
  PROVE  /\ RrfK \in Nat \ {0}
         /\ Under(list, id) \in RrfK .. 2 * RrfK - 1
         /\ Under(list, id) \in Nat \ {0}
         /\ Place(list, id) = 1 => Under(list, id) = RrfK
<1>1. ArmK \in Nat \ {0} /\ RrfK \in Nat /\ ArmK <= RrfK
  BY LiveEvalAssumption
<1>2. Place(list, id) \in 1 .. Len(list) /\ Len(list) \in Nat /\ Len(list) <= ArmK
  BY PlaceInList DEF Listing
<1>. QED
  BY <1>1, <1>2 DEF Under

LEMMA ScoreIs ==
  ASSUME Lists, NEW id \in Found
  PROVE  /\ RrfScore(id) \in Fraction
         /\ id \in InBoth =>
              RrfScore(id) = <<Under(kw, id) + Under(vec, id), Under(vec, id) * Under(kw, id)>>
         /\ id \in Ids(vec) \ Ids(kw) => RrfScore(id) = <<1, Under(vec, id)>>
         /\ id \in Ids(kw) \ Ids(vec) => RrfScore(id) = <<1, Under(kw, id)>>
<1>. USE DEF Lists
<1>1. CASE id \in InBoth
  <2>1. /\ Under(vec, id) \in Nat \ {0} /\ Under(kw, id) \in Nat \ {0}
        /\ id \in Ids(vec) /\ id \in Ids(kw)
    BY <1>1, UnderIs DEF InBoth
  <2>2. Share(vec, id) = <<1, Under(vec, id)>> /\ Share(kw, id) = <<1, Under(kw, id)>>
    BY <2>1 DEF Share, Under
  <2>3. RrfScore(id) =
          <<1 * Under(kw, id) + 1 * Under(vec, id), Under(vec, id) * Under(kw, id)>>
    BY <2>2 DEF RrfScore, Plus
  <2>4. 0 * Under(kw, id) < Under(vec, id) * Under(kw, id)
    BY <2>1, ScaleUpStrictly
  <2>5. Under(vec, id) * Under(kw, id) \in Nat \ {0}
    BY <2>1, <2>4
  <2>6. 1 * Under(kw, id) + 1 * Under(vec, id) = Under(kw, id) + Under(vec, id)
    BY <2>1
  <2>. QED
    BY <2>1, <2>3, <2>5, <2>6 DEF Fraction
<1>2. CASE id \in Ids(vec) \ Ids(kw)
  <2>1. Under(vec, id) \in Nat \ {0}
    BY <1>2, UnderIs
  <2>2. Share(vec, id) = <<1, Under(vec, id)>> /\ Share(kw, id) = <<0, 1>>
    BY <1>2 DEF Share, Under
  <2>3. RrfScore(id) = <<1, Under(vec, id)>>
    BY <2>1, <2>2 DEF RrfScore, Plus
  <2>. QED
    BY <1>2, <2>1, <2>3 DEF Fraction, InBoth
<1>3. CASE id \in Ids(kw) \ Ids(vec)
  <2>1. Under(kw, id) \in Nat \ {0}
    BY <1>3, UnderIs
  <2>2. Share(kw, id) = <<1, Under(kw, id)>> /\ Share(vec, id) = <<0, 1>>
    BY <1>3 DEF Share, Under
  <2>3. RrfScore(id) = <<1, Under(kw, id)>>
    BY <2>1, <2>2 DEF RrfScore, Plus
  <2>. QED
    BY <1>3, <2>1, <2>3 DEF Fraction, InBoth
<1>. QED
  BY <1>1, <1>2, <1>3 DEF Found, InBoth

LEMMA SingleScoreIs ==
  ASSUME Lists, NEW y \in Found \ InBoth
  PROVE  \E c \in Nat : RrfK <= c /\ RrfScore(y) = <<1, c>>
<1>. USE DEF Lists
<1>1. CASE y \in Ids(vec) \ Ids(kw)
  BY <1>1, UnderIs, ScoreIs
<1>2. CASE y \in Ids(kw) \ Ids(vec)
  BY <1>2, UnderIs, ScoreIs
<1>. QED
  BY <1>1, <1>2 DEF Found, InBoth

\* What both arms found is above what one of them found.
LEMMA BothOutweighOne ==
  ASSUME Lists, NEW x \in InBoth, NEW y \in Found \ InBoth
  PROVE  Higher(RrfScore(x), RrfScore(y))
<1>. USE DEF Lists
<1>1. x \in Ids(vec) /\ x \in Ids(kw) /\ x \in Found
  BY DEF InBoth, Found
<1>2. /\ RrfK \in Nat \ {0}
      /\ Under(vec, x) \in RrfK .. 2 * RrfK - 1 /\ Under(kw, x) \in RrfK .. 2 * RrfK - 1
  BY <1>1, UnderIs
<1>3. PICK c \in Nat : RrfK <= c /\ RrfScore(y) = <<1, c>>
  BY SingleScoreIs
<1>4. (Under(kw, x) + Under(vec, x)) * c > 1 * (Under(kw, x) * Under(vec, x))
  BY <1>2, <1>3, TwoSharesOutweighOne
<1>5. Under(kw, x) * Under(vec, x) = Under(vec, x) * Under(kw, x)
  BY <1>2
<1>6. RrfScore(x) = <<Under(kw, x) + Under(vec, x), Under(vec, x) * Under(kw, x)>>
  BY <1>1, ScoreIs
<1>. QED
  BY <1>3, <1>4, <1>5, <1>6 DEF Higher

\* Of two chunks that both arms found, the one both rank first is above.
LEMMA BothAgree ==
  ASSUME Lists, NEW x \in InBoth, NEW y \in InBoth,
         Place(vec, x) < Place(vec, y), Place(kw, x) < Place(kw, y)
  PROVE  Higher(RrfScore(x), RrfScore(y))
<1>. USE DEF Lists
<1>1. /\ x \in Ids(vec) /\ x \in Ids(kw) /\ x \in Found
      /\ y \in Ids(vec) /\ y \in Ids(kw) /\ y \in Found
  BY DEF InBoth, Found
<1>2. /\ Under(vec, x) \in Nat \ {0} /\ Under(kw, x) \in Nat \ {0}
      /\ Under(vec, y) \in Nat \ {0} /\ Under(kw, y) \in Nat \ {0}
  BY <1>1, UnderIs
<1>3. Under(vec, x) < Under(vec, y) /\ Under(kw, x) < Under(kw, y)
  <2>1. /\ Place(vec, x) \in Nat /\ Place(vec, y) \in Nat
        /\ Place(kw, x) \in Nat /\ Place(kw, y) \in Nat /\ RrfK \in Nat
    BY <1>1, PlaceInList, LiveEvalAssumption
  <2>. QED
    BY <2>1 DEF Under
<1>4. (Under(kw, x) + Under(vec, x)) * (Under(vec, y) * Under(kw, y))
        > (Under(kw, y) + Under(vec, y)) * (Under(vec, x) * Under(kw, x))
  BY <1>2, <1>3, SharesFallWithThePlaces
<1>5. /\ RrfScore(x) = <<Under(kw, x) + Under(vec, x), Under(vec, x) * Under(kw, x)>>
      /\ RrfScore(y) = <<Under(kw, y) + Under(vec, y), Under(vec, y) * Under(kw, y)>>
  BY <1>1, ScoreIs
<1>. QED
  BY <1>4, <1>5 DEF Higher

LEMMA EnteredOnce ==
  ASSUME Lists, NEW x \in Found, NEW y \in Found
  PROVE  Entered(x) \in Nat /\ (x # y => Entered(x) # Entered(y))
<1>1. ASSUME NEW z \in Found
      PROVE  /\ z \in Ids(vec) => Entered(z) = Place(vec, z) /\ Entered(z) \in 1 .. Len(vec)
             /\ z \notin Ids(vec) => /\ z \in Ids(kw) /\ Place(kw, z) \in 1 .. Len(kw)
                                     /\ Entered(z) = Len(vec) + Place(kw, z)
             /\ Len(vec) \in Nat /\ Len(kw) \in Nat
  BY PlaceInList DEF Lists, Listing, Found, Entered
<1>2. Entered(x) \in Nat
  BY <1>1
<1>3. CASE x \in Ids(vec) /\ y \in Ids(vec)
  BY <1>1, <1>2, <1>3, PlacesDiffer DEF Lists
<1>4. CASE x \notin Ids(vec) /\ y \notin Ids(vec)
  <2>1. x # y => Place(kw, x) # Place(kw, y)
    BY <1>1, <1>4, PlacesDiffer DEF Lists
  <2>. QED
    BY <1>1, <1>2, <1>4, <2>1
<1>5. CASE ~(x \in Ids(vec) <=> y \in Ids(vec))
  <2>1. Entered(x) # Entered(y)
    BY <1>1, <1>5
  <2>. QED
    BY <1>2, <2>1
<1>. QED
  BY <1>3, <1>4, <1>5

\* The fused order is total.
Upto == [x \in Found |-> {y \in Found : ~Ahead(x, y)}]

LEMMA FusionIsAChain == ASSUME Lists PROVE Chain(Found, Upto)
<1>1. IsFiniteSet(Found)
  BY IdsAreFew, FS_Union DEF Lists, Found
<1>2. Upto \in [Found -> SUBSET Found]
  BY DEF Upto
<1>3. ASSUME NEW x \in Found, NEW y \in Found, NEW z \in Found
      PROVE  /\ ~(Higher(RrfScore(x), RrfScore(y)) /\ Higher(RrfScore(y), RrfScore(x)))
             /\ ~Higher(RrfScore(x), RrfScore(y)) /\ ~Higher(RrfScore(y), RrfScore(z))
                  => ~Higher(RrfScore(x), RrfScore(z))
  BY ScoreIs, HigherIsAnOrder
<1>4. \A x, y \in Found : Entered(x) \in Nat /\ (x # y => Entered(x) # Entered(y))
  BY EnteredOnce
<1>5. ASSUME NEW x \in Found PROVE ~Ahead(x, x)
  BY <1>3, <1>4 DEF Ahead
<1>6. ASSUME NEW x \in Found, NEW y \in Found, x # y PROVE Ahead(x, y) <=> ~Ahead(y, x)
  <2>1. ~(Higher(RrfScore(x), RrfScore(y)) /\ Higher(RrfScore(y), RrfScore(x)))
    BY <1>3
  <2>2. Entered(x) \in Nat /\ Entered(y) \in Nat /\ Entered(x) # Entered(y)
    BY <1>4, <1>6
  <2>. QED
    BY <2>1, <2>2 DEF Ahead
<1>7. ASSUME NEW x \in Found, NEW y \in Found, NEW z \in Found,
             ~Ahead(x, y), ~Ahead(y, z)
      PROVE  ~Ahead(x, z)
  <2>. DEFINE H(a, b) == Higher(RrfScore(a), RrfScore(b))
  <2>1. ~H(x, y) /\ (H(y, x) \/ ~(Entered(x) < Entered(y)))
    BY <1>7 DEF Ahead
  <2>2. ~H(y, z) /\ (H(z, y) \/ ~(Entered(y) < Entered(z)))
    BY <1>7 DEF Ahead
  <2>3. ~H(x, z)
    BY <1>3, <2>1, <2>2
  <2>4. H(y, x) => H(z, x)
    <3>1. ~H(y, z) /\ ~H(z, x) => ~H(y, x)
      BY <1>3
    <3>. QED
      BY <2>2, <3>1
  <2>5. H(z, y) => H(z, x)
    <3>1. ~H(z, x) /\ ~H(x, y) => ~H(z, y)
      BY <1>3
    <3>. QED
      BY <2>1, <3>1
  <2>6. Entered(x) \in Nat /\ Entered(y) \in Nat /\ Entered(z) \in Nat
    BY <1>4
  <2>7. H(z, x) \/ ~(Entered(x) < Entered(z))
    <3>. HIDE DEF H
    <3>. QED
      BY <2>1, <2>2, <2>4, <2>5, <2>6
  <2>. QED
    BY <2>3, <2>7 DEF Ahead
<1>8. \A x, y \in Found : y \in Upto[x] <=> ~Ahead(x, y)
  BY DEF Upto
<1>9. \A x, y \in Found : y \in Upto[x] => Upto[y] \subseteq Upto[x]
  BY <1>2, <1>7, <1>8
<1>. QED
  BY <1>1, <1>2, <1>5, <1>6, <1>8, <1>9 DEF Chain

\* The row of a chunk: the vector arm's, if it found the chunk.
Source(id) == IF id \in Ids(vec) THEN Row(vec, id) ELSE Row(kw, id)

LEMMA FusionIsInOrder ==
  ASSUME Lists, NEW k \in Nat
  PROVE  /\ DOMAIN Fused(k) \subseteq Nat
         /\ \A i \in DOMAIN Fused(k) : Fused(k)[i].id \in Found
         /\ \A i, j \in DOMAIN Fused(k) : i < j =>
              /\ Fused(k)[i].id # Fused(k)[j].id
              /\ ~Ahead(Fused(k)[j].id, Fused(k)[i].id)
         /\ \A x \in Found : Cardinality(Upto[x]) <= k =>
              \E i \in DOMAIN Fused(k) : Fused(k)[i] = Source(x)
<1>. DEFINE ranking == [x \in Found |-> Cardinality({y \in Found : ~Ahead(x, y)})]
            t == Top(ranking, k)
<1>1. DOMAIN ranking = Found /\ \A x \in Found : ranking[x] = Cardinality(Upto[x])
  <2>1. \A x \in Found : Upto[x] = {y \in Found : ~Ahead(x, y)}
    BY DEF Upto
  <2>. QED
    BY <2>1
<1>2. Fused(k) = [i \in DOMAIN t |->
                    IF t[i] \in Ids(vec) THEN Row(vec, t[i]) ELSE Row(kw, t[i])]
  BY Zenon DEF Fused, Found
<1>3. Chain(Found, Upto)
  BY FusionIsAChain
<1>. HIDE DEF t, ranking
<1>4. /\ t \in Seq(Found)
      /\ \A i, j \in DOMAIN t : i < j => t[i] # t[j] /\ t[i] \in Upto[t[j]]
      /\ \A x \in Found : Cardinality(Upto[x]) <= k =>
           Cardinality(Upto[x]) \in DOMAIN t /\ t[Cardinality(Upto[x])] = x
  BY <1>1, <1>3, TopIsInOrder DEF t
<1>5. DOMAIN t \subseteq Nat /\ \A i \in DOMAIN t : t[i] \in Found
  BY <1>4
<1>6. DOMAIN Fused(k) = DOMAIN t /\ \A i \in DOMAIN t : Fused(k)[i] = Source(t[i])
  BY <1>2 DEF Source
<1>7. \A x \in Found : Source(x).id = x
  BY PlaceInList DEF Source, Found, Lists
<1>8. \A i \in DOMAIN t : Fused(k)[i].id = t[i]
  BY <1>5, <1>6, <1>7
<1>9. \A i, j \in DOMAIN t : i < j => ~Ahead(t[j], t[i])
  BY <1>4, <1>5 DEF Upto
<1>. QED
  BY <1>4, <1>5, <1>6, <1>8, <1>9

----------------------------------------------------------------------------
(***************************************************************************)
(* The arms order the rows of one moment.                                  *)
(***************************************************************************)

\* A chunk was written from a message that is long enough to have it.
IndexOK ==
  /\ IsFiniteSet(DOMAIN index)
  /\ \A id \in DOMAIN index :
       /\ index[id] \in 1 .. Len(Feed)
       /\ id \in (Nat \X Nat)
       /\ id[2] \in 1 .. Feed[index[id]].chunks

RowsOK(rows) ==
  /\ IsFiniteSet(rows)
  /\ \A r \in rows : r.id \in (Nat \X Nat) /\ r.text \in Text
  /\ \A r, s \in rows : r.id = s.id => r = s

LEMMA TextIs ==
  ASSUME NEW m \in 1 .. Len(Feed), NEW c \in 1 .. Feed[m].chunks
  PROVE  <<m, c>> \in Text
<1>1. DOMAIN Feed = 1 .. Len(Feed)
  BY LiveEvalAssumption
<1>. QED
  BY <1>1 DEF Text

LEMMA RowsAreOK == ASSUME IndexOK PROVE RowsOK(Rows)
<1>. DEFINE Kept == {id \in DOMAIN index : /\ id[1] # ask.exclude
                                           /\ ask.since = None \/ id[1] >= ask.since}
            row == [id \in Kept |-> [id |-> id, text |-> <<index[id], id[2]>>]]
<1>1. IsFiniteSet(Kept)
  BY FS_Subset DEF IndexOK
<1>2. \A r : r \in Rows <=> \E id \in Kept : r = [id |-> id, text |-> <<index[id], id[2]>>]
  <2>1. Rows = {[id |-> id, text |-> <<index[id], id[2]>>] : id \in Kept}
    BY Zenon DEF Rows
  <2>. HIDE DEF Kept
  <2>. QED
    BY <2>1, Zenon
<1>3. \A r \in Rows : \E id \in Kept : r = row[id] /\ r.id = id /\ r.text = <<index[id], id[2]>>
  <2>. SUFFICES ASSUME NEW r \in Rows
                PROVE  \E id \in Kept : r = row[id] /\ r.id = id
                                        /\ r.text = <<index[id], id[2]>>
    OBVIOUS
  <2>1. PICK id \in Kept : r = [id |-> id, text |-> <<index[id], id[2]>>]
    BY <1>2, Zenon
  <2>2. r = row[id] /\ r.id = id /\ r.text = <<index[id], id[2]>>
    BY <2>1
  <2>. QED
    BY <2>2, Zenon
<1>4. IsFiniteSet(Rows)
  <2>1. \A id \in Kept : row[id] \in Rows
    <3>. SUFFICES ASSUME NEW id \in Kept PROVE row[id] \in Rows
      OBVIOUS
    <3>1. row[id] = [id |-> id, text |-> <<index[id], id[2]>>]
      OBVIOUS
    <3>. QED
      BY <1>2, <3>1, Zenon
  <2>2. \A r \in Rows : \E id \in Kept : row[id] = r
    BY <1>3, Zenon
  <2>3. DOMAIN row = Kept /\ row = [id \in Kept |-> row[id]]
    OBVIOUS
  <2>. HIDE DEF row, Kept
  <2>4. row \in [Kept -> Rows]
    BY <2>1, <2>3
  <2>5. row \in Surjection(Kept, Rows)
    BY <2>2, <2>4 DEF Surjection
  <2>. QED
    BY <1>1, <2>5, FS_Surjection
<1>5. \A id \in Kept : id \in (Nat \X Nat) /\ <<index[id], id[2]>> \in Text
  BY TextIs DEF IndexOK
<1>. HIDE DEF row, Kept
<1>. QED
  BY <1>3, <1>4, <1>5 DEF RowsOK

\* ORDER BY value DESC, chunk_id is a total order of them.
LEMMA ByIsAChain ==
  ASSUME NEW rows, RowsOK(rows), NEW value \in [Text -> Nat]
  PROVE  Chain(rows, [r \in rows |-> {s \in rows : ~By(value, r, s)}])
<1>. DEFINE upto == [r \in rows |-> {s \in rows : ~By(value, r, s)}]
<1>1. ASSUME NEW r \in rows PROVE value[r.text] \in Nat /\ r.id[1] \in Nat /\ r.id[2] \in Nat
  BY DEF RowsOK
<1>2. ASSUME NEW r \in rows PROVE ~By(value, r, r)
  BY <1>1 DEF By, IdBefore
<1>3. ASSUME NEW r \in rows, NEW s \in rows, r # s PROVE By(value, r, s) <=> ~By(value, s, r)
  <2>1. r.id[1] # s.id[1] \/ r.id[2] # s.id[2]
    <3>1. r.id # s.id /\ r.id \in (Nat \X Nat) /\ s.id \in (Nat \X Nat)
      BY <1>3 DEF RowsOK
    <3>. QED
      BY <3>1
  <2>. QED
    BY <1>1, <2>1 DEF By, IdBefore
<1>4. ASSUME NEW r \in rows, NEW s \in rows, NEW u \in rows, ~By(value, r, s), ~By(value, s, u)
      PROVE  ~By(value, r, u)
  BY <1>1, <1>4 DEF By, IdBefore
<1>5. \A r, s \in rows : s \in upto[r] <=> ~By(value, r, s)
  OBVIOUS
<1>6. upto \in [rows -> SUBSET rows]
  OBVIOUS
<1>. HIDE DEF upto
<1>7. \A r, s \in rows : s \in upto[r] => upto[s] \subseteq upto[r]
  BY <1>4, <1>5, <1>6
<1>8. Chain(rows, upto)
  BY <1>2, <1>3, <1>5, <1>6, <1>7 DEF Chain, RowsOK
<1>. QED
  BY <1>8 DEF upto

LEMMA ArmIsAListing ==
  ASSUME NEW rows, RowsOK(rows), NEW value \in [Text -> Nat]
  PROVE  Listing(Arm(rows, value))
<1>. DEFINE upto == [r \in rows |-> {s \in rows : ~By(value, r, s)}]
            ranking == [r \in rows |-> Cardinality({s \in rows : ~By(value, r, s)})]
            t == Top(ranking, ArmK)
<1>1. DOMAIN ranking = rows /\ \A r \in rows : ranking[r] = Cardinality(upto[r])
  <2>1. \A r \in rows : upto[r] = {s \in rows : ~By(value, r, s)}
    OBVIOUS
  <2>. QED
    BY <2>1
<1>2. Chain(rows, upto)
  BY ByIsAChain
<1>3. Arm(rows, value) = t
  BY Zenon DEF Arm
<1>4. ArmK \in Nat
  BY LiveEvalAssumption
<1>. HIDE DEF t, ranking, upto
<1>5. /\ t \in Seq(rows) /\ Len(t) <= ArmK
      /\ \A i, j \in DOMAIN t : i < j => t[i] # t[j] /\ t[i] \in upto[t[j]]
  BY <1>1, <1>2, <1>4, TopIsInOrder DEF t
<1>6. /\ Len(t) \in Nat /\ DOMAIN t = 1 .. Len(t)
      /\ \A i \in DOMAIN t : t[i] \in rows
  BY <1>5
<1>7. \A i, j \in DOMAIN t : i < j => t[i].id # t[j].id
  BY <1>5, <1>6 DEF RowsOK
<1>. QED
  BY <1>3, <1>5, <1>6, <1>7 DEF Listing

----------------------------------------------------------------------------
(***************************************************************************)
(* The index is written from the feed.                                     *)
(***************************************************************************)
LEMMA IndexUpsert == ASSUME DrainInv, IndexOK, Upsert PROVE IndexOK'
<1>. DEFINE m == updates[handled + 1]
            new == <<Feed[m].event, wrote + 1>>
<1>1. /\ handled + 1 \in 1 .. Len(updates) /\ m \in 1 .. Len(Feed)
      /\ wrote \in Nat /\ wrote < Feed[m].chunks
  BY DEF Upsert, DrainInv, CountOK
<1>2. Feed[m].chunks \in Nat /\ Feed[m].event \in Nat
  <2>1. Feed[m] \in Message
    BY <1>1, LiveEvalAssumption
  <2>. QED
    BY <2>1 DEF Message
<1>3. new \in (Nat \X Nat) /\ new[2] \in 1 .. Feed[m].chunks
  BY <1>1, <1>2
<1>4. /\ DOMAIN index' = DOMAIN index \cup {new}
      /\ \A id \in DOMAIN index' : index'[id] = IF id = new THEN m ELSE index[id]
  BY DEF Upsert, Overwrite
<1>. HIDE DEF m, new
<1>5. IsFiniteSet(DOMAIN index')
  <2>1. IsFiniteSet(DOMAIN index)
    BY DEF IndexOK
  <2>2. IsFiniteSet((DOMAIN index) \cup {new})
    BY <2>1, FS_AddElement
  <2>. QED
    BY <1>4, <2>2
<1>. QED
  BY <1>1, <1>3, <1>4, <1>5 DEF IndexOK

LEMMA IndexTrim == ASSUME IndexOK, Trim PROVE IndexOK'
<1>1. /\ DOMAIN index' \subseteq DOMAIN index
      /\ \A id \in DOMAIN index' : index'[id] = index[id]
  BY DEF Trim
<1>2. IsFiniteSet(DOMAIN index')
  BY <1>1, FS_Subset DEF IndexOK
<1>. QED
  BY <1>1, <1>2 DEF IndexOK

LEMMA IndexNext == ASSUME DrainInv, IndexOK, [Next]_vars PROVE IndexOK'
<1>1. index' = index \/ Upsert \/ Trim
  BY DEF Next, Pipeline, Guard, Evaluation, Search, Produce, Emit, Checkpoint, JobRestarts,
         Commit, EmbedderRestarts, ReadLag, WaitOn, Again, Start, EvaluationAsks, Score, Report,
         ThreadAsks, VectorArm, KeywordArm, Fuse, Answer, Return, vars, pipeline, embedder
<1>2. index' = index => IndexOK'
  BY DEF IndexOK
<1>. QED
  BY <1>1, <1>2, IndexUpsert, IndexTrim

----------------------------------------------------------------------------
(***************************************************************************)
(* The search.                                                             *)
(***************************************************************************)
SearchInv ==
  /\ at # "idle" => ask.question \in Questions
  /\ at \in {"keyword", "fuse", "done"} => Listing(vec)
  /\ at \in {"fuse", "done"} => Listing(kw)
  /\ NearestIsHeard /\ AgreementWins

RankInv == DrainInv /\ IndexOK /\ SearchInv

\* Only its rivals come before the nearest chunk.
LEMMA OnlyRivalsAreAhead ==
  ASSUME Lists, 1 \in DOMAIN vec, NEW y \in Upto[vec[1].id], y # vec[1].id
  PROVE  y \in Rivals
<1>. DEFINE v == vec[1].id
<1>1. /\ v \in Ids(vec) /\ v \in Found /\ Place(vec, v) = 1
  BY PlaceOfRow DEF Lists, Found
<1>2. y \in Found /\ ~Ahead(v, y)
  BY <1>1 DEF Upto
<1>. HIDE DEF v
<1>3. ASSUME y \notin InBoth PROVE FALSE
  <2>1. y \in Found \ InBoth
    BY <1>2, <1>3
  <2>2. CASE v \in InBoth
    BY <1>2, <2>1, <2>2, BothOutweighOne DEF Ahead
  <2>3. CASE v \notin InBoth
    <3>1. v \in Ids(vec) \ Ids(kw)
      BY <1>1, <2>3 DEF InBoth
    <3>2. RrfScore(v) = <<1, RrfK>> /\ RrfK \in Nat
      BY <1>1, <3>1, ScoreIs, UnderIs DEF Lists
    <3>3. PICK c \in Nat : RrfK <= c /\ RrfScore(y) = <<1, c>>
      BY <2>1, SingleScoreIs
    <3>4. ~Higher(RrfScore(y), RrfScore(v))
      BY <3>2, <3>3 DEF Higher
    <3>5. Entered(v) = 1
      BY <1>1 DEF Entered
    <3>6. Entered(y) \in Nat /\ Entered(y) # Entered(v)
      BY <1>1, <1>2, EnteredOnce DEF v
    <3>7. Entered(y) # 0
      <4>1. CASE y \in Ids(vec)
        BY <4>1, PlaceInList DEF Entered, Lists
      <4>2. CASE y \notin Ids(vec)
        BY <1>2, <4>2, PlaceInList DEF Entered, Found, Lists, Listing
      <4>. QED
        BY <4>1, <4>2
    <3>8. Entered(v) < Entered(y)
      BY <3>5, <3>6, <3>7
    <3>. QED
      BY <1>2, <3>4, <3>8 DEF Ahead
  <2>. QED
    BY <2>2, <2>3
<1>4. ASSUME v \in Ids(kw), y \in InBoth PROVE Place(kw, y) < Place(kw, v)
  <2>1. v \in InBoth /\ y \in Ids(vec) /\ y \in Ids(kw)
    BY <1>1, <1>4 DEF InBoth
  <2>2. /\ Place(vec, y) \in Nat \ {0} /\ Place(vec, y) # Place(vec, v)
        /\ Place(kw, y) \in Nat /\ Place(kw, v) \in Nat /\ Place(kw, y) # Place(kw, v)
    <3>1. /\ Place(vec, y) \in 1 .. Len(vec) /\ Len(vec) \in Nat
          /\ Place(kw, y) \in 1 .. Len(kw) /\ Place(kw, v) \in 1 .. Len(kw) /\ Len(kw) \in Nat
      BY <1>4, <2>1, PlaceInList DEF Lists
    <3>2. Place(vec, y) # Place(vec, v) /\ Place(kw, y) # Place(kw, v)
      BY <1>1, <1>4, <2>1, PlacesDiffer DEF Lists, v
    <3>. QED
      BY <3>1, <3>2
  <2>3. Place(vec, v) < Place(vec, y)
    BY <1>1, <2>2
  <2>4. ~(Place(kw, v) < Place(kw, y))
    BY <1>2, <1>4, <2>1, <2>3, BothAgree DEF Ahead
  <2>. QED
    BY <2>2, <2>4
<1>. QED
  BY <1>3, <1>4 DEF Rivals, v

LEMMA NearestIsNotCutOff ==
  ASSUME Lists, vec # <<>>, ~(Cardinality(Rivals) > K)
  PROVE  1 \in DOMAIN vec /\ \E i \in DOMAIN Fused(K + 1) : Fused(K + 1)[i] = vec[1]
<1>. DEFINE v == vec[1].id
<1>1. 1 \in DOMAIN vec
  BY DEF Lists, Listing
<1>2. v \in Ids(vec) /\ v \in Found /\ Place(vec, v) = 1
  BY <1>1, PlaceOfRow DEF Lists, Found
<1>3. Source(v) = vec[1]
  BY <1>2 DEF Source, Row
<1>4. K + 1 \in Nat /\ K \in Nat
  BY LiveEvalAssumption
<1>5. Upto[v] \subseteq Rivals \cup {v}
  <2>1. \A y \in Upto[v] : y # v => y \in Rivals
    BY <1>1, OnlyRivalsAreAhead
  <2>. QED
    BY <2>1
<1>. HIDE DEF v
<1>6. IsFiniteSet(Rivals)
  <2>1. Rivals \subseteq Ids(vec)
    BY DEF Rivals, InBoth
  <2>. QED
    BY <2>1, IdsAreFew, FS_Subset DEF Lists
<1>7. /\ IsFiniteSet(Rivals \cup {v})
      /\ Cardinality(Rivals) \in Nat
      /\ Cardinality(Rivals \cup {v}) \in {Cardinality(Rivals), Cardinality(Rivals) + 1}
  BY <1>6, FS_AddElement, FS_CardinalityType
<1>8. Cardinality(Upto[v]) \in Nat /\ Cardinality(Upto[v]) <= Cardinality(Rivals \cup {v})
  <2>1. IsFiniteSet(Upto[v]) /\ Cardinality(Upto[v]) <= Cardinality(Rivals \cup {v})
    BY <1>5, <1>7, FS_Subset
  <2>. QED
    BY <2>1, FS_CardinalityType
<1>9. Cardinality(Upto[v]) <= K + 1
  BY <1>4, <1>7, <1>8
<1>. QED
  BY <1>1, <1>2, <1>3, <1>4, <1>9, FusionIsInOrder

LEMMA FuseKeepsTheNearest == ASSUME Lists, Fuse PROVE NearestIsHeard'
<1>1. /\ UNCHANGED <<ask, vec, kw>> /\ hits' = Fused(K + 1)
      /\ abstained' = IF ask.since # None THEN hits' = <<>>
                      ELSE \A i \in DOMAIN hits' : ~Reaches(ask.question, hits'[i].text)
  BY DEF Fuse
<1>2. Rivals' = Rivals
  BY <1>1 DEF Rivals, InBoth
<1>. SUFFICES ASSUME abstained', vec # <<>>, Reaches(ask.question, vec[1].text),
                     ~(Cardinality(Rivals) > K)
              PROVE  FALSE
  <2>1. vec' = vec /\ ask' = ask
    BY <1>1
  <2>. QED
    BY <1>2, <2>1, Zenon DEF NearestIsHeard
<1>3. PICK i \in DOMAIN hits' : hits'[i] = vec[1]
  BY <1>1, NearestIsNotCutOff
<1>4. hits' # <<>>
  BY <1>3
<1>5. CASE ask.since # None
  BY <1>1, <1>4, <1>5
<1>6. CASE ask.since = None
  <2>1. \A n \in DOMAIN hits' : ~Reaches(ask.question, hits'[n].text)
    BY <1>1, <1>6
  <2>. QED
    BY <1>3, <2>1
<1>. QED
  BY <1>5, <1>6

LEMMA FuseAgrees == ASSUME Lists, Fuse PROVE AgreementWins'
<1>1. UNCHANGED <<vec, kw>> /\ hits' = Fused(K + 1)
  BY DEF Fuse
<1>2. InBoth' = InBoth
  BY <1>1 DEF InBoth
<1>. SUFFICES ASSUME NEW i \in DOMAIN hits', NEW j \in DOMAIN hits', i < j,
                     hits'[j].id \in InBoth
              PROVE  /\ hits'[i].id \in InBoth
                     /\ \/ Place(vec, hits'[i].id) < Place(vec, hits'[j].id)
                        \/ Place(kw, hits'[i].id) < Place(kw, hits'[j].id)
  BY <1>1, <1>2 DEF AgreementWins
<1>. DEFINE x == hits'[i].id
            y == hits'[j].id
<1>3. K + 1 \in Nat
  BY LiveEvalAssumption
<1>4. x \in Found /\ y \in Found /\ x # y /\ ~Ahead(y, x)
  BY <1>1, <1>3, FusionIsInOrder
<1>. HIDE DEF x, y
<1>5. y \in InBoth
  BY DEF y
<1>6. x \in InBoth
  BY <1>4, <1>5, BothOutweighOne DEF Ahead
<1>7. /\ Place(vec, x) \in Nat /\ Place(vec, y) \in Nat /\ Place(vec, x) # Place(vec, y)
      /\ Place(kw, x) \in Nat /\ Place(kw, y) \in Nat /\ Place(kw, x) # Place(kw, y)
  <2>1. x \in Ids(vec) /\ x \in Ids(kw) /\ y \in Ids(vec) /\ y \in Ids(kw)
    BY <1>5, <1>6 DEF InBoth
  <2>. QED
    BY <1>4, <2>1, PlaceInList, PlacesDiffer DEF Lists
<1>8. Place(vec, x) < Place(vec, y) \/ Place(kw, x) < Place(kw, y)
  <2>1. ~(Place(vec, y) < Place(vec, x) /\ Place(kw, y) < Place(kw, x))
    BY <1>4, <1>5, <1>6, BothAgree DEF Ahead
  <2>. QED
    BY <1>7, <2>1
<1>. QED
  BY <1>6, <1>8 DEF x, y

LEMMA SearchFrame == ASSUME SearchInv, UNCHANGED search PROVE SearchInv'
<1>1. UNCHANGED <<at, ask, vec, kw, hits, abstained>>
  BY DEF search
<1>2. Rivals' = Rivals /\ InBoth' = InBoth
  BY <1>1 DEF Rivals, InBoth
<1>3. NearestIsHeard'
  BY <1>1, <1>2 DEF SearchInv, NearestIsHeard
<1>4. AgreementWins'
  BY <1>1, <1>2 DEF SearchInv, AgreementWins
<1>. QED
  BY <1>1, <1>3, <1>4 DEF SearchInv

\* Before the fusion there is nothing to be said of its result.
LEMMA NotDone ==
  ASSUME at' # "done"
  PROVE  NearestIsHeard' /\ AgreementWins'
<1>1. NearestIsHeard'
  BY Zenon DEF NearestIsHeard
<1>2. AgreementWins'
  BY Zenon DEF AgreementWins
<1>. QED
  BY <1>1, <1>2

LEMMA QuestionIs ==
  ASSUME NEW q \in Questions
  PROVE  q.cos \in [Text -> Nat] /\ q.rank \in [Text -> Nat]
BY LiveEvalAssumption

LEMMA SearchVector == ASSUME IndexOK, SearchInv, VectorArm PROVE SearchInv'
<1>1. /\ at = "vector" /\ at' = "keyword" /\ ask' = ask
      /\ vec' = Arm(Rows, ask.question.cos)
  BY DEF VectorArm
<1>2. ask.question \in Questions
  BY <1>1 DEF SearchInv
<1>3. Listing(vec')
  BY <1>1, <1>2, RowsAreOK, QuestionIs, ArmIsAListing
<1>. QED
  BY <1>1, <1>2, <1>3, NotDone DEF SearchInv

LEMMA SearchKeyword == ASSUME IndexOK, SearchInv, KeywordArm PROVE SearchInv'
<1>. DEFINE Matches == {r \in Rows : ask.question.rank[r.text] > 0}
<1>1. /\ at = "keyword" /\ at' = "fuse" /\ ask' = ask /\ vec' = vec
      /\ kw' = Arm(Matches, ask.question.rank)
  BY Zenon DEF KeywordArm
<1>2. ask.question \in Questions /\ Listing(vec)
  BY <1>1 DEF SearchInv
<1>3. RowsOK(Matches)
  <2>1. RowsOK(Rows) /\ Matches \subseteq Rows
    BY RowsAreOK
  <2>. HIDE DEF Matches
  <2>2. IsFiniteSet(Matches)
    BY <2>1, FS_Subset DEF RowsOK
  <2>. QED
    BY <2>1, <2>2 DEF RowsOK
<1>. HIDE DEF Matches
<1>4. Listing(kw')
  BY <1>1, <1>2, <1>3, QuestionIs, ArmIsAListing
<1>. QED
  BY <1>1, <1>2, <1>4, NotDone DEF SearchInv

LEMMA SearchFuse == ASSUME SearchInv, Fuse PROVE SearchInv'
<1>1. at = "fuse" /\ at' = "done" /\ UNCHANGED <<ask, vec, kw>>
  BY DEF Fuse
<1>2. ask.question \in Questions /\ Listing(vec) /\ Listing(kw)
  BY <1>1 DEF SearchInv
<1>3. NearestIsHeard' /\ AgreementWins'
  BY <1>2, FuseKeepsTheNearest, FuseAgrees DEF Lists
<1>. QED
  BY <1>1, <1>2, <1>3 DEF SearchInv

LEMMA SearchEnds ==
  ASSUME EvaluationAsks \/ ThreadAsks \/ Return
  PROVE  SearchInv'
<1>1. CASE EvaluationAsks \/ ThreadAsks
  <2>1. at' = "vector" /\ ask'.question \in Questions
    BY <1>1 DEF EvaluationAsks, ThreadAsks
  <2>. QED
    BY <2>1, NotDone DEF SearchInv
<1>2. CASE Return
  <2>1. at' = "idle"
    BY <1>2 DEF Return
  <2>. QED
    BY <2>1, NotDone DEF SearchInv
<1>. QED
  BY <1>1, <1>2

LEMMA SearchNext == ASSUME RankInv, [Next]_vars PROVE SearchInv'
<1>. USE DEF RankInv
<1>1. CASE Pipeline
  <2>1. UNCHANGED search
    BY <1>1 DEF Pipeline, Produce, Emit, Checkpoint, JobRestarts, Upsert, Trim, Commit,
                EmbedderRestarts
  <2>. QED
    BY <2>1, SearchFrame
<1>2. CASE Guard
  <2>1. UNCHANGED search
    BY <1>2 DEF Guard, ReadLag, WaitOn, Again
  <2>. QED
    BY <2>1, SearchFrame
<1>3. CASE Evaluation
  <2>1. UNCHANGED search \/ EvaluationAsks \/ Return
    BY <1>3 DEF Evaluation, Start, Score, Report
  <2>. QED
    BY <2>1, SearchFrame, SearchEnds
<1>4. CASE Search
  BY <1>4, SearchEnds, SearchVector, SearchKeyword, SearchFuse DEF Search, Answer
<1>5. CASE UNCHANGED vars
  <2>1. UNCHANGED search
    BY <1>5 DEF vars
  <2>. QED
    BY <2>1, SearchFrame
<1>. QED
  BY <1>1, <1>2, <1>3, <1>4, <1>5 DEF Next

LEMMA RankInit == Init => RankInv
<1>. SUFFICES ASSUME Init PROVE RankInv
  OBVIOUS
<1>1. IndexOK
  <2>1. DOMAIN index = {}
    BY DEF Init
  <2>. QED
    BY <2>1, FS_EmptySet DEF IndexOK
<1>2. SearchInv
  <2>1. at = "idle"
    BY DEF Init
  <2>2. NearestIsHeard
    BY <2>1, Zenon DEF NearestIsHeard
  <2>3. AgreementWins
    BY <2>1, Zenon DEF AgreementWins
  <2>. QED
    BY <2>1, <2>2, <2>3 DEF SearchInv
<1>. QED
  BY <1>1, <1>2, InitDrain DEF RankInv

LEMMA RankNext == ASSUME RankInv, [Next]_vars PROVE RankInv'
<1>. USE DEF RankInv
<1>. QED
  BY DrainNext, IndexNext, SearchNext

\* A search that abstains has not cut off the chunk nearest to the question,
\* unless as many chunks as it returns were found by both arms and ranked above
\* it by the keyword arm.
THEOREM NearestIsNotLost == Spec => []NearestIsHeard
<1>1. RankInv => NearestIsHeard
  BY DEF RankInv, SearchInv
<1>. QED
  BY <1>1, RankInit, RankNext, PTL DEF Spec

\* The fusion puts what both arms found first, and follows them where they
\* agree, for every pair of depths with ARM_K <= RRF_K.
THEOREM AgreementIsRespected == Spec => []AgreementWins
<1>1. RankInv => AgreementWins
  BY DEF RankInv, SearchInv
<1>. QED
  BY <1>1, RankInit, RankNext, PTL DEF Spec
=============================================================================
