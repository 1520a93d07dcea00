-------------------------- MODULE ThreadAgentProofs --------------------------
(***************************************************************************)
(* Proofs about ThreadAgent and Budget, for any workers, incidents, caps   *)
(* and bounds: types, the caps of the hour and of the day, that no         *)
(* question is skipped, and that answers are repeated only for marks that  *)
(* were lost.                                                              *)
(***************************************************************************)
EXTENDS ThreadAgent, Sums, SequenceTheorems, FiniteSetTheorems, TLAPS

Label == {"idle", "threads", "replies", "day", "hour", "post", "mark", "other"}

\* A worker in a thread has its row at hand, also after the thread closed.
RowInv ==
  \A w \in Worker : pc[w] \in {"replies", "day", "hour", "post", "mark"} => rows[w] # <<>>

Types == TypeOK /\ RowInv

USE BudgetAssumption, ThreadAssumption

----------------------------------------------------------------------------
(* Sequences *)

LEMMA AppendIsTyped ==
  ASSUME NEW S, NEW s \in Seq(S), NEW e \in S
  PROVE  Append(s, e) \in Seq(S)
  OBVIOUS

LEMMA TailIsTyped ==
  ASSUME NEW S, NEW s \in Seq(S), s # <<>>
  PROVE  /\ Tail(s) \in Seq(S) /\ Head(s) \in S
         /\ \A n \in 1 .. Len(Tail(s)) : n + 1 \in 1 .. Len(s) /\ Tail(s)[n] = s[n + 1]
  OBVIOUS

LEMMA ReplacedHead ==
  ASSUME NEW S, NEW s \in Seq(S), NEW e \in S, s # <<>>
  PROVE  /\ <<e>> \o Tail(s) \in Seq(S)
         /\ <<e>> \o Tail(s) # <<>>
         /\ Head(<<e>> \o Tail(s)) = e
         /\ \A n \in 1 .. Len(<<e>> \o Tail(s)) :
              \/ (<<e>> \o Tail(s))[n] = e
              \/ n \in 1 .. Len(s) /\ (<<e>> \o Tail(s))[n] = s[n]
  <1> DEFINE t == <<e>> \o Tail(s)
  <1>1. Tail(s) \in Seq(S) /\ Len(Tail(s)) = Len(s) - 1
    BY TailIsTyped
  <1>2. t \in Seq(S) /\ Len(t) = Len(s)
    BY <1>1
  <1>3. \A n \in 1 .. Len(t) : t[n] = IF n = 1 THEN e ELSE s[n]
    BY <1>1
  <1> QED BY <1>2, <1>3

\* What a snapshot of the open threads looks like.
LEMMA SnapshotIsTyped ==
  ASSUME Types
  PROVE  /\ OpenThreads \in Seq(Row)
         /\ \A n \in 1 .. Len(OpenThreads) :
              OpenThreads[n].incident \in Incident /\ OpenThreads[n].seen = seen[OpenThreads[n].incident]
  <1>1. Watched \in Seq(Incident)
    <2>1. (IF Len(open) < Limit THEN Len(open) ELSE Limit) \in 0 .. Len(open)
      BY DEF Types, TypeOK
    <2> QED BY <2>1, SubSeqProperties DEF Types, TypeOK, Watched
  <1>2. DOMAIN Watched = 1 .. Len(Watched) /\ Len(Watched) \in Nat
    BY <1>1
  <1>3. \A k \in DOMAIN Watched : Watched[k] \in Incident
    BY <1>1, <1>2
  <1>4. OpenThreads \in Seq(Row) /\ Len(OpenThreads) = Len(Watched)
    BY <1>2, <1>3 DEF OpenThreads, Row, Types, TypeOK
  <1> QED BY <1>2, <1>3, <1>4 DEF OpenThreads

----------------------------------------------------------------------------
(* Type correctness *)

LEMMA TypesInit == Init => Types
  <1> SUFFICES ASSUME Init PROVE Types
    OBVIOUS
  <1>1. \A S : <<>> \in Seq(S)
    OBVIOUS
  <1>2. BudgetTypeOK
    BY DEF Init, BudgetInit, BudgetTypeOK, Age
  <1>3. thread \in [Incident -> Seq(Message)] /\ open \in Seq(Incident) /\ rows \in [Worker -> Seq(Row)]
    BY <1>1 DEF Init
  <1>4. /\ unbriefed \in SUBSET Incident /\ seen \in [Incident -> Nat]
        /\ unmarked \in [Incident -> Nat] /\ overlapped \in BOOLEAN
        /\ others \in 0 .. MaxOthers /\ faults \in 0 .. MaxFaults
    <2>1. MaxOthers \in 0 .. MaxOthers /\ 0 \in 0 .. MaxFaults
      BY ThreadAssumption
    <2> QED BY <2>1 DEF Init
  <1>5. /\ pc \in [Worker -> Label] /\ waiting \in [Worker -> BOOLEAN]
        /\ todo \in [Worker -> SUBSET Nat] /\ question \in [Worker -> Nat]
    BY DEF Init, Label
  <1>6. RowInv
    BY DEF Init, RowInv
  <1> QED
    BY <1>2, <1>3, <1>4, <1>5, <1>6 DEF Types, TypeOK, Label

LEMMA TypesNext == Types /\ [Next]_vars => Types'
  <1> SUFFICES ASSUME Types, [Next]_vars PROVE Types'
    OBVIOUS
  <1> USE DEF Types, TypeOK, RowInv, Goto, Fault, slack, local, ghost
  <1>1. ASSUME NEW w \in Worker, Poll(w) PROVE Types'
    BY <1>1, SnapshotIsTyped DEF Poll, BudgetTypeOK
  <1>2. ASSUME NEW w \in Worker, NoMoreThreads(w) PROVE Types'
    BY <1>2 DEF NoMoreThreads, Return, BudgetTypeOK
  <1>3. ASSUME NEW w \in Worker, Fetch(w) PROVE Types'
    <2>1. Unseen(Head(rows[w])) \subseteq Nat
      <3>1. Head(rows[w]).incident \in Incident
        <4>1. rows[w] \in Seq(Row) /\ rows[w] # <<>>
          BY <1>3 DEF Fetch
        <4>2. Head(rows[w]) \in Row
          BY <4>1, TailIsTyped
        <4> QED BY <4>2 DEF Row
      <3>2. DOMAIN thread[Head(rows[w]).incident] \subseteq Nat
        BY <3>1
      <3> QED BY <3>2 DEF Unseen, Questions
    <2> QED BY <1>3, <2>1 DEF Fetch, BudgetTypeOK
  <1>4. ASSUME NEW w \in Worker, rows[w] # <<>>, NextThread(w) \/ Return(w)
        PROVE  /\ pc' \in [Worker -> Label] /\ rows' \in [Worker -> Seq(Row)]
               /\ todo' \in [Worker -> SUBSET Nat] /\ question' \in [Worker -> Nat]
               /\ waiting' \in [Worker -> BOOLEAN] /\ RowInv'
    <2>1. Tail(rows[w]) \in Seq(Row) /\ <<>> \in Seq(Row)
      BY <1>4, TailIsTyped
    <2>2. CASE NextThread(w)
      BY <2>1, <2>2 DEF NextThread, Label
    <2>3. CASE Return(w)
      BY <2>1, <2>3 DEF Return, Label
    <2> QED BY <1>4, <2>2, <2>3
  <1>5. ASSUME NEW w \in Worker, FetchFails(w) PROVE Types'
    BY <1>5, <1>4 DEF FetchFails, BudgetTypeOK, Label
  <1>6. ASSUME NEW w \in Worker, NoMoreReplies(w) PROVE Types'
    BY <1>6, <1>4 DEF NoMoreReplies, BudgetTypeOK, Label
  <1>7. ASSUME NEW w \in Worker, Search(w) PROVE Types'
    <2>1. PICK k \in todo[w] : question' = [question EXCEPT ![w] = k]
      BY <1>7 DEF Search
    <2>2. question' \in [Worker -> Nat]
      BY <2>1
    <2>3. pc' \in [Worker -> Label]
      BY <1>7 DEF Search, Goto, Label
    <2>4. UNCHANGED <<calls, slack, seen, rows, todo, waiting, others, ghost, faults>>
      BY <1>7 DEF Search
    <2>5. TypeOK'
      BY <2>2, <2>3, <2>4 DEF BudgetTypeOK, Label
    <2>6. pc[w] = "replies" /\ \A v \in Worker \ {w} : pc'[v] = pc[v]
      BY <1>7 DEF Search
    <2>7. RowInv'
      BY <2>4, <2>6
    <2> QED BY <2>5, <2>7
  <1>8. ASSUME NEW w \in Worker, CheckDay(w) PROVE Types'
    <2>1. CASE DayAllows
      BY <1>8, <2>1 DEF CheckDay, BudgetTypeOK
    <2>2. CASE ~DayAllows
      BY <1>8, <2>2, <1>4 DEF CheckDay, BudgetTypeOK, Label
    <2> QED BY <2>1, <2>2
  <1>9. SpendHour \/ Refuse => BudgetTypeOK'
    BY DEF SpendHour, Refuse, BudgetTypeOK, Age
  <1>10. ASSUME NEW w \in Worker, Spend(w) PROVE Types'
    <2>1. CASE SpendHour /\ Goto(w, "post") /\ UNCHANGED <<rows, todo, question, waiting>>
      BY <1>10, <2>1, <1>9 DEF Spend
    <2>2. CASE Refuse /\ Return(w)
      BY <1>10, <2>2, <1>9, <1>4 DEF Spend, Label
    <2> QED BY <1>10, <2>1, <2>2 DEF Spend
  <1>11. ASSUME NEW w \in Worker, pc[w] \in {"post", "mark"}
         PROVE  rows[w] # <<>> /\ Head(rows[w]) \in Row /\ Head(rows[w]).incident \in Incident
                /\ Head(rows[w]).seen \in Nat
    <2>1. rows[w] \in Seq(Row) /\ rows[w] # <<>>
      BY <1>11
    <2>2. Head(rows[w]) \in Row
      BY <2>1, TailIsTyped
    <2> QED BY <2>1, <2>2 DEF Row
  <1>12. ASSUME NEW w \in Worker, pc[w] = "post", Show(w)
         PROVE  thread' \in [Incident -> Seq(Message)]
    <2>1. [from |-> "bot", to |-> question[w]] \in Message
      BY DEF Message
    <2> QED BY <1>12, <2>1, <1>11, AppendIsTyped DEF Show
  <1>13. ASSUME NEW w \in Worker, Post(w) PROVE Types'
    BY <1>13, <1>12 DEF Post, BudgetTypeOK
  <1>14. ASSUME NEW w \in Worker, PostFails(w) PROVE Types'
    <2>1. thread' \in [Incident -> Seq(Message)] /\ unmarked' \in [Incident -> Nat]
      <3>1. pc[w] = "post"
        BY <1>14 DEF PostFails
      <3>2. CASE UNCHANGED <<thread, unmarked>>
        BY <3>2
      <3>3. CASE Show(w) /\ unmarked' = [unmarked EXCEPT ![Head(rows[w]).incident] = @ + 1]
        <4>1. unmarked' \in [Incident -> Nat]
          BY <3>1, <3>3, <1>11
        <4> QED BY <3>1, <3>3, <4>1, <1>12
      <3> QED BY <1>14, <3>2, <3>3 DEF PostFails
    <2>2. rows[w] # <<>> /\ (NextThread(w) \/ Return(w))
      BY <1>11, <1>14 DEF PostFails
    <2>3. faults' \in 0 .. MaxFaults /\ UNCHANGED <<calls, open, unbriefed, seen, others, overlapped>>
      BY <1>14 DEF PostFails, Fault
    <2> HIDE DEF NextThread, Return
    <2> QED BY <2>1, <2>2, <2>3, <1>4 DEF BudgetTypeOK, Label
  <1>15. ASSUME NEW w \in Worker, Mark(w) PROVE Types'
    <2> DEFINE row == Head(rows[w])
               newest == IF question[w] > row.seen THEN question[w] ELSE row.seen
    <2>1. newest \in Nat /\ row.incident \in Incident /\ [row EXCEPT !.seen = newest] \in Row
      BY <1>15, <1>11 DEF Mark, Row
    <2>2. rows' \in [Worker -> Seq(Row)] /\ rows'[w] # <<>>
          /\ \A v \in Worker : v # w => rows'[v] = rows[v]
      BY <1>15, <1>11, <2>1, ReplacedHead DEF Mark
    <2>3. seen' \in [Incident -> Nat]
      BY <1>15, <2>1 DEF Mark
    <2> QED BY <1>15, <2>2, <2>3 DEF Mark, BudgetTypeOK
  <1>16. ASSUME NEW w \in Worker, Crash(w) PROVE Types'
    <2>1. unmarked' \in [Incident -> Nat]
      BY <1>16, <1>11 DEF Crash
    <2> QED BY <1>16, <2>1 DEF Crash, BudgetTypeOK
  <1>17. ASSUME NEW w \in Worker, Due(w) \/ CheckDayForOther(w) PROVE Types'
    <2>1. CASE Due(w)
      BY <2>1 DEF Due, BudgetTypeOK
    <2>2. CASE CheckDayForOther(w)
      <3>1. others' \in 0 .. MaxOthers
        BY <2>2 DEF CheckDayForOther
      <3> QED BY <2>2, <3>1 DEF CheckDayForOther, BudgetTypeOK
    <2> QED BY <1>17, <2>1, <2>2
  <1>18. ASSUME NEW w \in Worker, SpendForOther(w) PROVE Types'
    BY <1>18, <1>9 DEF SpendForOther
  <1>19. ASSUME NEW i \in Incident, BriefIsDelivered(i) PROVE Types'
    <2>1. <<i>> \o open \in Seq(Incident)
      OBVIOUS
    <2> QED BY <1>19, <2>1 DEF BriefIsDelivered, BudgetTypeOK
  <1>20. ASSUME NEW i \in Incident, NEW who \in {"person", "other"}, Write(i, who) PROVE Types'
    <2>1. [from |-> who, to |-> 0] \in Message
      BY DEF Message
    <2>2. thread' \in [Incident -> Seq(Message)]
      BY <1>20, <2>1, AppendIsTyped DEF Write
    <2> QED BY <1>20, <2>2 DEF Write, BudgetTypeOK
  <1>21. ASSUME ThreadCloses PROVE Types'
    <2>1. open' \in Seq(Incident)
      BY <1>21, SubSeqProperties DEF ThreadCloses
    <2> QED BY <1>21, <2>1 DEF ThreadCloses, BudgetTypeOK
  <1>22. ASSUME NextHour PROVE Types'
    <2>1. BudgetTypeOK'
      BY <1>22 DEF NextHour, HourTurns, BudgetTypeOK, Age
    <2> QED BY <1>22, <2>1 DEF NextHour
  <1>23. CASE UNCHANGED vars
    BY <1>23 DEF vars, BudgetTypeOK
  <1> QED
    BY <1>1, <1>2, <1>3, <1>5, <1>6, <1>7, <1>8, <1>10, <1>13, <1>14, <1>15, <1>16, <1>17,
       <1>18, <1>19, <1>20, <1>21, <1>22, <1>23 DEF Next, Step

\* Types hold always, and no worker handles a reply without the row of its
\* thread: NextThread drops the row only where its replies are dropped too.
THEOREM ThreadTypes == Spec => [](TypeOK /\ RowInv)
  <1>1. Types <=> TypeOK /\ RowInv
    BY DEF Types
  <1> QED BY <1>1, TypesInit, TypesNext, PTL DEF Spec

----------------------------------------------------------------------------
(* The hourly cap *)

\* Whoever has passed the check of the day knows that the caps are not zero,
\* so the first call of an hour, which no cap is compared with, fits too.
CapInv ==
  /\ HourlyCapHolds
  /\ \A w \in Worker : pc[w] \in {"hour", "other"} => HourlyCap > 0

LEMMA CapInit == Init => CapInv
  BY DEF Init, BudgetInit, Age, CapInv, HourlyCapHolds

LEMMA CapNext == Types /\ CapInv /\ [Next]_vars => CapInv'
  <1> SUFFICES ASSUME Types, CapInv, [Next]_vars PROVE CapInv'
    OBVIOUS
  <1> USE DEF Types, TypeOK, BudgetTypeOK, CapInv, Goto, Label
  <1>1. ASSUME HourlyCap > 0, SpendHour \/ Refuse PROVE HourlyCapHolds'
    <2>1. 0 \in Age /\ calls[0] \in Nat
      BY BudgetAssumption DEF Age
    <2>2. CASE SpendHour
      <3>1. calls[0] + 1 <= HourlyCap
        BY <1>1, <2>1, <2>2, BudgetAssumption DEF SpendHour, HourAllows
      <3> QED BY <2>1, <2>2, <3>1 DEF SpendHour, HourlyCapHolds
    <2>3. CASE Refuse
      BY <2>3 DEF Refuse, HourlyCapHolds
    <2> QED BY <1>1, <2>2, <2>3
  <1>2. ASSUME NEW w \in Worker, Goto(w, "idle") \/ Goto(w, "threads") \/ Goto(w, "replies")
                 \/ Goto(w, "day") \/ Goto(w, "post") \/ Goto(w, "mark")
        PROVE  \A v \in Worker : pc'[v] \in {"hour", "other"} => HourlyCap > 0
    BY <1>2
  <1>3. UNCHANGED calls => HourlyCapHolds'
    BY DEF HourlyCapHolds
  <1>4. ASSUME NEW w \in Worker, NextThread(w) \/ Return(w)
        PROVE  \A v \in Worker : pc'[v] \in {"hour", "other"} => HourlyCap > 0
    BY <1>2, <1>4 DEF NextThread, Return
  <1>5. ASSUME NEW w \in Worker, CheckDay(w) PROVE CapInv'
    <2>1. CASE DayAllows
      BY <1>3, <1>5, <2>1 DEF CheckDay, DayAllows
    <2>2. CASE ~DayAllows
      BY <1>3, <1>4, <1>5, <2>2 DEF CheckDay
    <2> QED BY <2>1, <2>2
  <1>6. ASSUME NEW w \in Worker, Spend(w) PROVE CapInv'
    <2>1. HourlyCapHolds'
      BY <1>1, <1>6 DEF Spend
    <2>2. \A v \in Worker : pc'[v] \in {"hour", "other"} => HourlyCap > 0
      BY <1>2, <1>4, <1>6 DEF Spend
    <2> QED BY <2>1, <2>2
  <1>7. ASSUME NEW w \in Worker, SpendForOther(w) PROVE CapInv'
    <2>1. HourlyCapHolds'
      BY <1>1, <1>7 DEF SpendForOther
    <2>2. \A v \in Worker : pc'[v] \in {"hour", "other"} => HourlyCap > 0
      BY <1>2, <1>7 DEF SpendForOther
    <2> QED BY <2>1, <2>2
  <1>8. ASSUME NEW w \in Worker, CheckDayForOther(w) PROVE CapInv'
    BY <1>3, <1>8 DEF CheckDayForOther, DayAllows
  <1>9. ASSUME NEW w \in Worker,
               Poll(w) \/ NoMoreThreads(w) \/ Fetch(w) \/ NoMoreReplies(w) \/ Search(w) \/ Post(w)
                 \/ Mark(w) \/ FetchFails(w) \/ PostFails(w) \/ Crash(w)
        PROVE  CapInv'
    <2>1. UNCHANGED calls
      BY <1>9 DEF Poll, NoMoreThreads, Fetch, NoMoreReplies, Search, Post, Mark, FetchFails, PostFails, Crash
    <2>2. \A v \in Worker : pc'[v] \in {"hour", "other"} => HourlyCap > 0
      BY <1>2, <1>4, <1>9
         DEF Poll, NoMoreThreads, Fetch, NoMoreReplies, Search, Post, Mark, FetchFails, PostFails, Crash
    <2> QED BY <1>3, <2>1, <2>2
  <1>10. ASSUME NEW w \in Worker, Due(w) PROVE CapInv'
    BY <1>3, <1>10 DEF Due
  <1>11. ASSUME NEW i \in Incident,
                BriefIsDelivered(i) \/ Write(i, "person") \/ Write(i, "other") \/ ThreadCloses
         PROVE  CapInv'
    BY <1>3, <1>11 DEF BriefIsDelivered, Write, ThreadCloses, local
  <1>12. ASSUME ThreadCloses PROVE CapInv'
    BY <1>3, <1>12 DEF ThreadCloses, local
  <1>13. ASSUME NextHour PROVE CapInv'
    <2>1. HourlyCapHolds'
      BY <1>13 DEF NextHour, HourTurns, HourlyCapHolds, Age
    <2> QED BY <1>13, <2>1 DEF NextHour, local
  <1>14. CASE UNCHANGED vars
    BY <1>3, <1>14 DEF vars, local
  <1> QED
    BY <1>5, <1>6, <1>7, <1>8, <1>9, <1>10, <1>11, <1>12, <1>13, <1>14 DEF Next, Step

\* The hourly cap binds all processes together, for good, also across crashes
\* and restarts: no interleaving of spenders makes an hour exceed it.
THEOREM HourlyCapIsHard == Spec => []HourlyCapHolds
  <1>1. CapInv => HourlyCapHolds
    BY DEF CapInv
  <1> QED BY <1>1, TypesInit, TypesNext, CapInit, CapNext, PTL DEF Spec

----------------------------------------------------------------------------
(* The daily cap *)

LEMMA AgeIsFinite == IsFiniteSet(Age)
  <1>1. 0 \in Int /\ DayHours - 1 \in Int
    BY BudgetAssumption
  <1> QED BY <1>1, FS_Interval DEF Age

LEMMA DayIsNat == ASSUME BudgetTypeOK PROVE DayCalls \in Nat
  <1>1. IsFiniteSet(Age) /\ DOMAIN calls = Age /\ \A a \in Age : calls[a] \in Nat
    BY AgeIsFinite DEF BudgetTypeOK
  <1> QED BY <1>1, SumIsNat DEF DayCalls, SumFunction

LEMMA SpendAddsOne ==
  ASSUME BudgetTypeOK, SpendHour
  PROVE  DayCalls' = DayCalls + 1
  <1>1. /\ 0 \in Age /\ IsFiniteSet(Age)
        /\ calls \in [Age -> Nat] /\ calls' \in [Age -> Nat]
        /\ calls'[0] = calls[0] + 1 /\ \A a \in Age \ {0} : calls'[a] = calls[a]
    <2>1. 0 \in Age /\ IsFiniteSet(Age)
      BY AgeIsFinite, BudgetAssumption DEF Age
    <2> QED BY <2>1 DEF BudgetTypeOK, SpendHour
  <1>2. \A a \in Age : calls[a] \in Int /\ calls'[a] \in Int
    BY <1>1
  <1>3. IsFiniteSet(Age \ {0})
    BY <1>1, FS_RemoveElement
  <1>4. SumFunctionOnSet(calls', Age \ {0}) = SumFunctionOnSet(calls, Age \ {0})
    BY <1>1, <1>2, <1>3, SumOfSame
  <1>5. /\ SumFunctionOnSet(calls, Age \ {0}) \in Int
        /\ SumFunctionOnSet(calls, Age) = calls[0] + SumFunctionOnSet(calls, Age \ {0})
        /\ SumFunctionOnSet(calls', Age) = calls'[0] + SumFunctionOnSet(calls', Age \ {0})
    BY <1>1, <1>2, SumTakesOut
  <1>6. DOMAIN calls = Age /\ DOMAIN calls' = Age /\ calls[0] \in Int
    BY <1>1
  <1>7. SumFunctionOnSet(calls', Age) = SumFunctionOnSet(calls, Age) + 1
    BY <1>1, <1>4, <1>5, <1>6
  <1> QED BY <1>6, <1>7 DEF DayCalls, SumFunction

\* The hour that leaves the day takes its calls along.
LEMMA TurnAddsNothing ==
  ASSUME BudgetTypeOK, HourTurns
  PROVE  DayCalls' <= DayCalls
  <1> DEFINE Oldest == DayHours - 1
             Later == Age \ {0}
             Kept == Age \ {Oldest}
             b == [a \in Later |-> a - 1]
  <1>1. /\ 0 \in Age /\ Oldest \in Age /\ IsFiniteSet(Age)
        /\ Later = 1 .. Oldest /\ Kept = 0 .. Oldest - 1
    BY AgeIsFinite, BudgetAssumption DEF Age
  <1>2. /\ calls \in [Age -> Nat] /\ calls' \in [Age -> Nat]
        /\ calls'[0] = 0 /\ \A a \in Later : calls'[a] = calls[a - 1]
    <2>1. \A a \in Later : a - 1 \in Age
      BY BudgetAssumption DEF Age
    <2> QED BY <1>1, <2>1 DEF BudgetTypeOK, HourTurns
  <1>3. IsFiniteSet(Later) /\ b \in Bijection(Later, Kept)
    <2>1. IsFiniteSet(Later)
      BY <1>1, FS_RemoveElement
    <2>2. \A a \in Later : a \in Int /\ a - 1 \in Kept
      BY <1>1, BudgetAssumption
    <2>3. \A k \in Kept : k \in Int /\ k + 1 \in Later /\ (k + 1) - 1 = k
      BY <1>1, BudgetAssumption
    <2> HIDE DEF Later, Kept
    <2>4. b \in [Later -> Kept] /\ \A s, t \in Later : b[s] = b[t] => s = t
      BY <2>2
    <2>5. \A k \in Kept : b[k + 1] = k
      BY <2>3
    <2> HIDE DEF b
    <2> QED BY <2>1, <2>3, <2>4, <2>5 DEF Bijection, Injection, Surjection, IsInjective
  <1>4. \A a \in Later : calls'[a] = calls[b[a]] /\ calls'[a] \in Int
    BY <1>2
  <1>5. SumFunctionOnSet(calls', Later) = SumFunctionOnSet(calls, Kept)
    <2> HIDE DEF b, Later, Kept
    <2> QED BY <1>3, <1>4, SumReindexed
  <1>6. \A a \in Age : calls[a] \in Int /\ calls'[a] \in Int
    BY <1>2
  <1>7. /\ SumFunctionOnSet(calls, Kept) \in Int
        /\ SumFunctionOnSet(calls, Age) = calls[Oldest] + SumFunctionOnSet(calls, Kept)
        /\ SumFunctionOnSet(calls', Age) = calls'[0] + SumFunctionOnSet(calls', Later)
    BY <1>1, <1>6, SumTakesOut
  <1>8. DOMAIN calls = Age /\ DOMAIN calls' = Age /\ calls[Oldest] \in Nat
    BY <1>1, <1>2
  <1>9. SumFunctionOnSet(calls', Age) <= SumFunctionOnSet(calls, Age)
    <2> HIDE DEF b, Later, Kept, Oldest
    <2> QED BY <1>2, <1>5, <1>7, <1>8
  <1> QED BY <1>8, <1>9 DEF DayCalls, SumFunction

\* Those that have passed the check of the day and not spent yet.  The day has
\* room for all of them, except that the last one may have found one call left
\* when every other worker was about to make one.
Spenders == {w \in Worker : pc[w] \in {"hour", "other"}}
DayInv == DayCalls + Cardinality(Spenders) <= DailyCap + Cardinality(Worker) - 1

LEMMA SpendersAreFew ==
  ASSUME IsFiniteSet(Worker)
  PROVE  /\ IsFiniteSet(Spenders)
         /\ Cardinality(Spenders) \in Nat /\ Cardinality(Worker) \in Nat
         /\ Cardinality(Spenders) <= Cardinality(Worker)
  BY FS_Subset, FS_CardinalityType, Spenders \in SUBSET Worker DEF Spenders

LEMMA DayInit == IsFiniteSet(Worker) /\ Worker # {} /\ Init => DayInv
  <1> SUFFICES ASSUME IsFiniteSet(Worker), Worker # {}, Init PROVE DayInv
    OBVIOUS
  <1>1. DayCalls = 0
    <2> DEFINE G == {S \in SUBSET Age : SumFunctionOnSet(calls, S) = 0}
    <2>1. IsFiniteSet(Age) /\ calls = [a \in Age |-> 0] /\ DOMAIN calls = Age
      BY AgeIsFinite DEF Init, BudgetInit
    <2>2. {} \in G
      BY SumOfNone
    <2>3. ASSUME NEW S \in SUBSET Age, NEW a \in S, S \ {a} \in G PROVE S \in G
      <3>1. IsFiniteSet(S) /\ \A x \in S : calls[x] \in Int
        BY <2>1, FS_Subset
      <3>2. SumFunctionOnSet(calls, S) = calls[a] + SumFunctionOnSet(calls, S \ {a})
        BY <3>1, SumTakesOut
      <3> QED BY <2>1, <2>3, <3>2
    <2>4. G \in SUBSET SUBSET Age
      OBVIOUS
    <2> HIDE DEF G
    <2>5. Age \in G
      BY <2>1, <2>2, <2>3, <2>4, FiniteInduction
    <2> QED BY <2>1, <2>5 DEF G, DayCalls, SumFunction
  <1>2. Spenders = {}
    BY DEF Init, Spenders
  <1>3. Cardinality(Worker) \in Nat \ {0} /\ Cardinality(Spenders) = 0
    BY <1>2, FS_EmptySet, FS_CardinalityType
  <1> QED BY <1>1, <1>3, BudgetAssumption DEF DayInv

LEMMA DayNext ==
  ASSUME IsFiniteSet(Worker), Types, DayInv, [Next]_vars
  PROVE  DayInv'
  <1> USE DEF Types, TypeOK, Goto, Label
  <1>1. DayCalls \in Nat /\ DailyCap \in Nat
    BY DayIsNat, BudgetAssumption
  <1>2. /\ IsFiniteSet(Spenders) /\ Cardinality(Spenders) \in Nat
        /\ IsFiniteSet(Spenders') /\ Cardinality(Spenders') \in Nat
        /\ Cardinality(Worker) \in Nat
        /\ Cardinality(Spenders') <= Cardinality(Worker)
    <2>1. Spenders \in SUBSET Worker /\ Spenders' \in SUBSET Worker
      BY DEF Spenders
    <2> QED BY <2>1, FS_Subset, FS_CardinalityType
  <1>3. ASSUME DayCalls' \in Nat, DayCalls' <= DayCalls, Spenders' \subseteq Spenders PROVE DayInv'
    <2>1. Cardinality(Spenders') <= Cardinality(Spenders)
      BY <1>2, <1>3, FS_Subset
    <2> QED BY <1>1, <1>2, <1>3, <2>1 DEF DayInv
  <1>4. UNCHANGED calls => DayCalls' = DayCalls
    BY DEF DayCalls
  <1>5. ASSUME DayAllows, UNCHANGED calls PROVE DayInv'
    <2>1. DayCalls < DailyCap /\ DayCalls' = DayCalls
      BY <1>4, <1>5 DEF DayAllows
    <2> QED BY <1>1, <1>2, <2>1 DEF DayInv
  <1>6. ASSUME NEW w \in Spenders, pc'[w] \notin {"hour", "other"},
               \A v \in Worker \ {w} : pc'[v] = pc[v], SpendHour \/ Refuse
        PROVE  DayInv'
    <2>1. Spenders' = Spenders \ {w}
      BY <1>6 DEF Spenders
    <2>2. CASE SpendHour
      <3>1. Cardinality(Spenders') = Cardinality(Spenders) - 1
        BY <1>2, <2>1, FS_RemoveElement
      <3> QED BY <1>1, <1>2, <2>2, <3>1, SpendAddsOne DEF DayInv
    <2>3. CASE Refuse
      BY <1>1, <1>3, <1>4, <2>1, <2>3 DEF Refuse
    <2> QED BY <1>6, <2>2, <2>3
  <1>7. ASSUME NEW w \in Worker, Goto(w, "idle") \/ Goto(w, "threads") \/ Goto(w, "replies")
                 \/ Goto(w, "day") \/ Goto(w, "post") \/ Goto(w, "mark")
        PROVE  /\ Spenders' \subseteq Spenders /\ pc'[w] \notin {"hour", "other"}
               /\ \A v \in Worker \ {w} : pc'[v] = pc[v]
    BY <1>7 DEF Spenders
  <1>8. ASSUME NEW w \in Worker, NextThread(w) \/ Return(w)
        PROVE  /\ Spenders' \subseteq Spenders /\ pc'[w] \notin {"hour", "other"}
               /\ \A v \in Worker \ {w} : pc'[v] = pc[v]
    BY <1>7, <1>8 DEF NextThread, Return
  <1>9. ASSUME UNCHANGED calls, Spenders' \subseteq Spenders PROVE DayInv'
    BY <1>1, <1>3, <1>4, <1>9
  <1>10. ASSUME NEW w \in Worker, CheckDay(w) PROVE DayInv'
    <2>1. CASE DayAllows
      BY <1>5, <1>10, <2>1 DEF CheckDay
    <2>2. CASE ~DayAllows
      BY <1>8, <1>9, <1>10, <2>2 DEF CheckDay
    <2> QED BY <2>1, <2>2
  <1>11. ASSUME NEW w \in Worker, Spend(w) PROVE DayInv'
    <2>1. w \in Spenders /\ (SpendHour \/ Refuse)
      BY <1>11 DEF Spend, Spenders
    <2>2. pc'[w] \notin {"hour", "other"} /\ \A v \in Worker \ {w} : pc'[v] = pc[v]
      BY <1>7, <1>8, <1>11 DEF Spend
    <2> QED BY <1>6, <2>1, <2>2
  <1>12. ASSUME NEW w \in Worker, SpendForOther(w) PROVE DayInv'
    <2>1. w \in Spenders /\ (SpendHour \/ Refuse)
      BY <1>12 DEF SpendForOther, Spenders
    <2>2. pc'[w] \notin {"hour", "other"} /\ \A v \in Worker \ {w} : pc'[v] = pc[v]
      BY <1>7, <1>12 DEF SpendForOther
    <2> QED BY <1>6, <2>1, <2>2
  <1>13. ASSUME NEW w \in Worker, CheckDayForOther(w) PROVE DayInv'
    BY <1>5, <1>13 DEF CheckDayForOther
  <1>14. ASSUME NEW w \in Worker,
                Poll(w) \/ NoMoreThreads(w) \/ Fetch(w) \/ NoMoreReplies(w) \/ Search(w) \/ Post(w)
                  \/ Mark(w) \/ FetchFails(w) \/ PostFails(w) \/ Crash(w)
         PROVE  DayInv'
    <2>1. UNCHANGED calls
      BY <1>14 DEF Poll, NoMoreThreads, Fetch, NoMoreReplies, Search, Post, Mark, FetchFails,
                   PostFails, Crash
    <2>2. Spenders' \subseteq Spenders
      BY <1>7, <1>8, <1>14
         DEF Poll, NoMoreThreads, Fetch, NoMoreReplies, Search, Post, Mark, FetchFails, PostFails, Crash
    <2> QED BY <1>9, <2>1, <2>2
  <1>15. ASSUME UNCHANGED <<calls, pc>> PROVE DayInv'
    <2>1. Spenders' = Spenders
      BY <1>15 DEF Spenders
    <2> QED BY <1>9, <1>15, <2>1
  <1>16. ASSUME NEW w \in Worker, Due(w) PROVE UNCHANGED <<calls, pc>>
    BY <1>16 DEF Due
  <1>17. ASSUME NEW i \in Incident, BriefIsDelivered(i) \/ Write(i, "person") \/ Write(i, "other")
         PROVE  UNCHANGED <<calls, pc>>
    BY <1>17 DEF BriefIsDelivered, Write, local
  <1>18. ThreadCloses \/ UNCHANGED vars => UNCHANGED <<calls, pc>>
    BY DEF ThreadCloses, vars, local
  <1>19. ASSUME NextHour PROVE DayInv'
    <2>1. BudgetTypeOK'
      BY <1>19, TypesNext
    <2>2. DayCalls' \in Nat
      <3>1. IsFiniteSet(Age) /\ DOMAIN calls' = Age /\ \A a \in Age : calls'[a] \in Nat
        BY <2>1, AgeIsFinite DEF BudgetTypeOK
      <3> QED BY <3>1, SumIsNat DEF DayCalls, SumFunction
    <2>3. Spenders' = Spenders
      BY <1>19 DEF NextHour, local, Spenders
    <2>4. DayCalls' <= DayCalls
      BY <1>19, TurnAddsNothing DEF NextHour
    <2> QED BY <1>3, <2>2, <2>3, <2>4
  <1> QED
    BY <1>10, <1>11, <1>12, <1>13, <1>14, <1>15, <1>16, <1>17, <1>18, <1>19 DEF Next, Step

\* The daily cap is read before the hour is spent, in two statements, and still
\* it is passed by no more than one call for every process beside the last,
\* however the processes interleave, crash and start anew and hours turn.
THEOREM DailyCapIsNearlyHard ==
  ASSUME IsFiniteSet(Worker), Worker # {}
  PROVE  Spec => []DailyCapHolds
  <1>1. Types /\ DayInv => DailyCapHolds
    <2> SUFFICES ASSUME Types, DayInv PROVE DailyCapHolds
      OBVIOUS
    <2>1. DayCalls \in Nat
      BY DayIsNat DEF Types, TypeOK
    <2> QED BY <2>1, SpendersAreFew, BudgetAssumption DEF DayInv, DailyCapHolds
  <1>2. Init => DayInv
    BY DayInit
  <1>3. Types /\ DayInv /\ [Next]_vars => DayInv'
    BY DayNext
  <1> QED BY <1>1, <1>2, <1>3, TypesInit, TypesNext, PTL DEF Spec

----------------------------------------------------------------------------
(* No question is skipped *)

\* A mark at s leaves no open question behind it, nor a future one.
Safe(i, s) ==
  /\ s \in 0 .. Len(thread[i])
  /\ \A k \in Questions(i) : k <= s => k \in Answered(i)

\* What stands before a reply the worker still has is answered, or its own.
Behind(w) ==
  LET i == Head(rows[w]).incident
  IN  \A j \in todo[w] :
        /\ j \in 1 .. Len(thread[i])
        /\ \A k \in Questions(i) : k < j /\ k \notin todo[w] => k \in Answered(i)

RowsAreSafe(w) ==
  \A n \in 1 .. Len(rows[w]) : Safe(rows[w][n].incident, rows[w][n].seen)

OldestInHand(w) ==
  /\ question[w] \in todo[w]
  /\ \A j \in todo[w] : question[w] <= j

WorkerInv(w) ==
  /\ RowsAreSafe(w)
  /\ pc[w] \in {"replies", "day", "hour", "post", "mark"} => Behind(w)
  /\ pc[w] \in {"day", "hour", "post", "mark"} => OldestInHand(w)
  /\ pc[w] = "mark" => question[w] \in Answered(Head(rows[w]).incident)

SkipInv ==
  /\ \A i \in Incident : Safe(i, seen[i])
  /\ \A w \in Worker : WorkerInv(w)

\* Threads only grow.
Grows(i) ==
  /\ Len(thread[i]) <= Len(thread'[i])
  /\ \A k \in 1 .. Len(thread[i]) : k \in Questions(i)' => k \in Questions(i)
  /\ Answered(i) \subseteq Answered(i)'

LEMMA ThreadsGrow ==
  ASSUME Types, NEW x \in Incident, NEW m \in Message,
         thread' = [thread EXCEPT ![x] = Append(@, m)]
  PROVE  /\ \A i \in Incident : Grows(i)
         /\ m.from = "bot" => m.to \in Answered(x)'
  <1> USE DEF Types, TypeOK
  <1>1. ASSUME NEW i \in Incident, i # x PROVE Grows(i)
    BY <1>1 DEF Grows, Questions, Answered, AnswersIn
  <1>2. /\ Len(thread'[x]) = Len(thread[x]) + 1
        /\ DOMAIN thread[x] = 1 .. Len(thread[x]) /\ DOMAIN thread'[x] = 1 .. Len(thread[x]) + 1
        /\ \A k \in 1 .. Len(thread[x]) : thread'[x][k] = thread[x][k]
        /\ thread'[x][Len(thread[x]) + 1] = m
        /\ Len(thread[x]) \in Nat
    OBVIOUS
  <1>3. Grows(x)
    <2>1. AnswersIn(x) \subseteq AnswersIn(x)'
      BY <1>2 DEF AnswersIn
    <2>2. Answered(x) \subseteq Answered(x)'
      BY <1>2, <2>1 DEF Answered, AnswersIn
    <2>3. \A k \in 1 .. Len(thread[x]) : k \in Questions(x)' => k \in Questions(x)
      BY <1>2 DEF Questions
    <2> QED BY <1>2, <2>2, <2>3 DEF Grows
  <1>4. m.from = "bot" => m.to \in Answered(x)'
    <2> DEFINE n == Len(thread[x]) + 1
    <2>1. n \in DOMAIN thread'[x] /\ thread'[x][n] = m
      BY <1>2
    <2> QED BY <2>1 DEF Answered, AnswersIn
  <1> QED BY <1>1, <1>3, <1>4

LEMMA ThreadsStay ==
  ASSUME Types, UNCHANGED thread
  PROVE  \A i \in Incident : Grows(i)
  BY DEF Types, TypeOK, Grows, Questions, Answered, AnswersIn

LEMMA SafeStays ==
  ASSUME Types, Types', NEW i \in Incident, NEW s \in Nat, Safe(i, s), Grows(i)
  PROVE  Safe(i, s)'
  <1>1. s \in 0 .. Len(thread'[i])
    BY DEF Safe, Grows, Types, TypeOK
  <1>2. ASSUME NEW k \in Questions(i)', k <= s PROVE k \in Answered(i)'
    <2>1. k \in 1 .. Len(thread'[i])
      BY DEF Questions, Types, TypeOK
    <2>2. k \in 1 .. Len(thread[i])
      BY <1>2, <2>1 DEF Safe
    <2> QED BY <1>2, <2>2 DEF Safe, Grows
  <1> QED BY <1>1, <1>2 DEF Safe

LEMMA EverySafeStays ==
  ASSUME Types, Types', \A i \in Incident : Grows(i)
  PROVE  \A i \in Incident, s \in Nat : Safe(i, s) => Safe(i, s)'
  BY SafeStays

LEMMA HeadIsTyped ==
  ASSUME Types, NEW w \in Worker, rows[w] # <<>>
  PROVE  Head(rows[w]) \in Row /\ Head(rows[w]).incident \in Incident /\ Head(rows[w]).seen \in Nat
  <1>1. rows[w] \in Seq(Row)
    BY DEF Types, TypeOK
  <1>2. Head(rows[w]) \in Row
    BY <1>1, TailIsTyped
  <1> QED BY <1>2 DEF Row

LEMMA BehindStays ==
  ASSUME Types, Types', NEW w \in Worker, rows[w] # <<>>, Behind(w),
         UNCHANGED <<rows[w], todo[w]>>, \A i \in Incident : Grows(i)
  PROVE  Behind(w)'
  <1>1. PICK i \in Incident : i = Head(rows[w]).incident
    BY HeadIsTyped
  <1>2. Head(rows'[w]).incident = i
    BY <1>1
  <1>3. ASSUME NEW j \in todo'[w], NEW k \in Questions(i)', k < j, k \notin todo'[w]
        PROVE  k \in Answered(i)'
    <2>1. j \in todo[w] /\ j \in 1 .. Len(thread[i])
      BY <1>1, <1>3 DEF Behind
    <2>2. k \in 1 .. Len(thread'[i])
      <3>1. k \in DOMAIN thread'[i]
        BY <1>3 DEF Questions
      <3>2. i \in Incident
        BY <1>1
      <3>3. thread' \in [Incident -> Seq(Message)]
        BY DEF Types, TypeOK
      <3>4. thread'[i] \in Seq(Message)
        BY ONLY <3>2, <3>3
      <3> QED BY ONLY <3>1, <3>4
    <2>3. k \in 1 .. Len(thread[i])
      <3>1. k \in Nat /\ 1 <= k /\ j <= Len(thread[i]) /\ Len(thread[i]) \in Nat /\ j \in Nat
        BY <2>1, <2>2, <1>1 DEF Types, TypeOK
      <3> QED BY <1>3, <3>1
    <2> QED BY <1>1, <1>3, <2>1, <2>3 DEF Behind, Grows
  <1>4. \A j \in todo'[w] : j \in 1 .. Len(thread'[i])
    BY <1>1 DEF Behind, Grows, Types, TypeOK
  <1> QED BY <1>2, <1>3, <1>4 DEF Behind

LEMMA RowsStay ==
  ASSUME Types, Types', NEW w \in Worker, RowsAreSafe(w), UNCHANGED rows[w],
         \A i \in Incident : Grows(i)
  PROVE  RowsAreSafe(w)'
  <1> SUFFICES ASSUME NEW n \in 1 .. Len(rows[w])
               PROVE  Safe(rows[w][n].incident, rows[w][n].seen)'
    BY DEF RowsAreSafe
  <1>1. rows[w][n] \in Row
    BY DEF Types, TypeOK
  <1>2. rows[w][n].incident \in Incident /\ rows[w][n].seen \in Nat
    BY <1>1 DEF Row
  <1>3. Safe(rows[w][n].incident, rows[w][n].seen)
    BY DEF RowsAreSafe
  <1>4. \A i \in Incident, s \in Nat : Safe(i, s) => Safe(i, s)'
    BY EverySafeStays
  <1>5. rows'[w][n] = rows[w][n]
    OBVIOUS
  <1> QED BY <1>2, <1>3, <1>4, <1>5 DEF Safe

\* A worker that does not move keeps its part of the invariant.
LEMMA WorkerStays ==
  ASSUME Types, Types', NEW w \in Worker, WorkerInv(w), \A i \in Incident : Grows(i),
         UNCHANGED <<pc[w], rows[w], todo[w], question[w]>>
  PROVE  WorkerInv(w)'
  <1>1. RowsAreSafe(w)'
    BY RowsStay DEF WorkerInv
  <1>2. pc[w] \in {"replies", "day", "hour", "post", "mark"} => Behind(w)'
    BY BehindStays DEF WorkerInv, Types, RowInv
  <1>3. pc[w] = "mark" => question[w] \in Answered(Head(rows[w]).incident)'
    <2> SUFFICES ASSUME pc[w] = "mark" PROVE question[w] \in Answered(Head(rows[w]).incident)'
      OBVIOUS
    <2>1. rows[w] # <<>>
      BY DEF Types, RowInv
    <2>2. PICK i \in Incident : i = Head(rows[w]).incident
      BY <2>1, HeadIsTyped
    <2>3. question[w] \in Answered(i)'
      BY <2>2 DEF WorkerInv, Grows
    <2> QED BY <2>2, <2>3
  <1> QED BY <1>1, <1>2, <1>3 DEF WorkerInv, OldestInHand

\* One that leaves the poll has nothing left to keep.
LEMMA WorkerReturns ==
  ASSUME NEW w \in Worker, pc'[w] = "idle", rows'[w] = <<>>
  PROVE  WorkerInv(w)'
  <1>1. Len(rows'[w]) = 0
    <2>1. Len(<<>>) = 0
      OBVIOUS
    <2> QED BY <2>1
  <1>2. \A n : n \notin 1 .. 0
    OBVIOUS
  <1>3. RowsAreSafe(w)'
    BY <1>1, <1>2 DEF RowsAreSafe
  <1> QED BY <1>3 DEF WorkerInv

\* One that leaves a thread keeps the rest of its rows.
LEMMA WorkerLeaves ==
  ASSUME Types, Types', NEW w \in Worker, WorkerInv(w), \A i \in Incident : Grows(i),
         pc'[w] = "threads", rows[w] # <<>>, rows'[w] = Tail(rows[w])
  PROVE  WorkerInv(w)'
  <1> SUFFICES RowsAreSafe(w)'
    BY DEF WorkerInv
  <1> SUFFICES ASSUME NEW n \in 1 .. Len(Tail(rows[w]))
               PROVE  Safe(rows[w][n].incident, rows[w][n].seen)'
    BY DEF RowsAreSafe
  <1>1. rows[w] \in Seq(Row)
    BY DEF Types, TypeOK
  <1>2. n + 1 \in 1 .. Len(rows[w]) /\ rows'[w][n] = rows[w][n + 1]
    BY <1>1, TailIsTyped
  <1>3. rows[w][n + 1].incident \in Incident /\ rows[w][n + 1].seen \in Nat
    <2>1. rows[w][n + 1] \in Row
      BY <1>1, <1>2
    <2> QED BY <2>1 DEF Row
  <1>4. Safe(rows[w][n + 1].incident, rows[w][n + 1].seen)
    BY <1>2 DEF WorkerInv, RowsAreSafe
  <1>5. \A i \in Incident, s \in Nat : Safe(i, s) => Safe(i, s)'
    BY EverySafeStays
  <1> QED BY <1>2, <1>3, <1>4, <1>5 DEF Safe

LEMMA SkipInit == Init => SkipInv
  <1> SUFFICES ASSUME Init PROVE SkipInv
    OBVIOUS
  <1>1. Len(<<>>) = 0 /\ \A n : n \notin 1 .. 0
    OBVIOUS
  <1>2. \A i \in Incident : Safe(i, seen[i])
    <2> SUFFICES ASSUME NEW i \in Incident PROVE Safe(i, seen[i])
      OBVIOUS
    <2>1. thread[i] = <<>> /\ seen[i] = 0 /\ DOMAIN thread[i] = {}
      BY DEF Init
    <2> QED BY <1>1, <2>1 DEF Safe, Questions
  <1>3. \A w \in Worker : WorkerInv(w)
    BY <1>1 DEF Init, WorkerInv, RowsAreSafe
  <1> QED BY <1>2, <1>3 DEF SkipInv

LEMMA SkipNext == Types /\ Types' /\ SkipInv /\ [Next]_vars => SkipInv'
  <1> SUFFICES ASSUME Types, Types', SkipInv, [Next]_vars PROVE SkipInv'
    OBVIOUS
  <1> USE DEF Goto
  <1>w. ASSUME NEW w \in Worker PROVE WorkerInv(w) /\ RowsAreSafe(w)
    BY DEF SkipInv, WorkerInv
  \* Where no mark moves, the marks stay safe as the threads grow.
  <1>m. ASSUME UNCHANGED seen, \A i \in Incident : Grows(i)
        PROVE  \A i \in Incident : Safe(i, seen[i])'
    BY <1>m, EverySafeStays DEF SkipInv, Types, TypeOK, Safe
  \* The workers that do not move
  <1>o. ASSUME NEW w \in Worker, \A i \in Incident : Grows(i),
               \A v \in Worker \ {w} : UNCHANGED <<pc[v], rows[v], todo[v], question[v]>>,
               WorkerInv(w)'
        PROVE  \A v \in Worker : WorkerInv(v)'
    <2> SUFFICES ASSUME NEW v \in Worker, v # w PROVE WorkerInv(v)'
      BY <1>o
    <2> QED BY <1>o, <1>w, WorkerStays
  <1>a. ASSUME \A i \in Incident : Grows(i), UNCHANGED <<pc, rows, todo, question>>
        PROVE  \A v \in Worker : WorkerInv(v)'
    BY <1>a, <1>w, WorkerStays
  <1>1. ASSUME NEW w \in Worker, Poll(w) PROVE SkipInv'
    <2>1. \A i \in Incident : Grows(i)
      BY <1>1, ThreadsStay DEF Poll, slack
    <2>2. RowsAreSafe(w)'
      <3>1. rows'[w] = OpenThreads
        BY <1>1 DEF Poll, Types, TypeOK
      <3> SUFFICES ASSUME NEW n \in 1 .. Len(OpenThreads)
                   PROVE  Safe(rows[w][n].incident, rows[w][n].seen)'
        BY <3>1 DEF RowsAreSafe
      <3>2. PICK i \in Incident : OpenThreads[n].incident = i /\ OpenThreads[n].seen = seen[i]
        BY SnapshotIsTyped
      <3>3. Safe(i, seen[i])'
        BY <1>1, <1>m, <2>1 DEF Poll
      <3>4. seen' = seen
        BY <1>1 DEF Poll
      <3> QED BY <3>1, <3>2, <3>3, <3>4
    <2>3. WorkerInv(w)'
      BY <1>1, <2>2 DEF Poll, WorkerInv, Types, TypeOK
    <2>4. \A v \in Worker : WorkerInv(v)'
      BY <1>1, <1>o, <2>1, <2>3 DEF Poll, Types, TypeOK
    <2> QED BY <1>1, <1>m, <2>1, <2>4 DEF Poll, SkipInv
  \* Leaving a thread or the poll, whatever was shown before
  <1>l. ASSUME NEW w \in Worker, \A i \in Incident : Grows(i), UNCHANGED seen,
               (NextThread(w) /\ rows[w] # <<>>) \/ Return(w)
        PROVE  SkipInv'
    <2>1. WorkerInv(w)'
      <3>1. CASE NextThread(w) /\ rows[w] # <<>>
        <4>1. pc'[w] = "threads" /\ rows'[w] = Tail(rows[w])
          BY <3>1 DEF NextThread, Types, TypeOK
        <4> QED BY <1>l, <1>w, <3>1, <4>1, WorkerLeaves
      <3>2. CASE Return(w)
        <4>1. pc'[w] = "idle" /\ rows'[w] = <<>>
          BY <3>2 DEF Return, Types, TypeOK
        <4> QED BY <4>1, WorkerReturns
      <3> QED BY <1>l, <3>1, <3>2
    <2>2. \A v \in Worker : WorkerInv(v)'
      BY <1>l, <1>o, <2>1 DEF NextThread, Return, Types, TypeOK
    <2> QED BY <1>l, <1>m, <2>2 DEF SkipInv
  <1>2. ASSUME NEW w \in Worker, NoMoreThreads(w) \/ NoMoreReplies(w) \/ FetchFails(w)
        PROVE  SkipInv'
    <2>1. \A i \in Incident : Grows(i)
      BY <1>2, ThreadsStay DEF NoMoreThreads, NoMoreReplies, FetchFails, slack
    <2>2. UNCHANGED seen /\ ((NextThread(w) /\ rows[w] # <<>>) \/ Return(w))
      BY <1>2 DEF NoMoreThreads, NoMoreReplies, FetchFails, Types, RowInv
    <2> QED BY <1>l, <2>1, <2>2
  <1>3. ASSUME NEW w \in Worker, Fetch(w) PROVE SkipInv'
    <2>1. \A i \in Incident : Grows(i)
      BY <1>3, ThreadsStay DEF Fetch, slack
    <2>2. PICK i \in Incident, s \in Nat : Head(rows[w]) = [incident |-> i, seen |-> s]
      BY <1>3, HeadIsTyped DEF Fetch, Row
    <2>3. Safe(i, s)
      <3>1. rows[w] \in Seq(Row) /\ 1 \in 1 .. Len(rows[w]) /\ Head(rows[w]) = rows[w][1]
        BY <1>3 DEF Fetch, Types, TypeOK
      <3> QED BY <1>w, <2>2, <3>1 DEF RowsAreSafe
    <2>4. todo'[w] = {k \in Questions(i) : k > s}
      BY <1>3, <2>2 DEF Fetch, Unseen, Types, TypeOK
    <2>5. UNCHANGED <<thread, rows, seen>>
      BY <1>3 DEF Fetch, slack
    <2>6. Behind(w)'
      <3>1. Questions(i) \subseteq 1 .. Len(thread[i]) /\ Questions(i)' = Questions(i)
            /\ Answered(i)' = Answered(i)
        BY <2>5 DEF Questions, Answered, AnswersIn, Types, TypeOK
      <3>2. ASSUME NEW k \in Questions(i), k \notin todo'[w] PROVE k \in Answered(i)
        <4>1. k <= s
          BY <2>4, <3>1, <3>2
        <4> QED BY <2>3, <4>1 DEF Safe
      <3>3. Head(rows'[w]).incident = i
        BY <2>2, <2>5
      <3>4. \A j \in todo'[w] : j \in 1 .. Len(thread'[i])
        BY <2>4, <2>5, <3>1
      <3> QED BY <3>1, <3>2, <3>3, <3>4 DEF Behind
    <2>7. RowsAreSafe(w)'
      BY <1>w, <2>1, <2>5, RowsStay
    <2>8. WorkerInv(w)'
      BY <1>3, <2>6, <2>7 DEF Fetch, WorkerInv, Types, TypeOK
    <2>9. \A v \in Worker : WorkerInv(v)'
      BY <1>3, <1>o, <2>1, <2>8 DEF Fetch, Types, TypeOK
    <2> QED BY <1>m, <2>1, <2>5, <2>9 DEF SkipInv
  \* Steps within a thread that neither answer nor mark
  <1>s. ASSUME NEW w \in Worker, pc[w] \in {"replies", "day", "hour"}, UNCHANGED <<thread, seen, rows, todo>>,
               pc' = [pc EXCEPT ![w] = "day"] \/ pc' = [pc EXCEPT ![w] = "hour"]
                 \/ pc' = [pc EXCEPT ![w] = "post"],
               OldestInHand(w)', \A v \in Worker \ {w} : question'[v] = question[v]
        PROVE  SkipInv'
    <2>1. \A i \in Incident : Grows(i)
      BY <1>s, ThreadsStay
    <2>2. RowsAreSafe(w)' /\ Behind(w)'
      BY <1>s, <1>w, <2>1, RowsStay, BehindStays DEF WorkerInv, Types, RowInv
    <2>3. WorkerInv(w)'
      BY <1>s, <2>2 DEF WorkerInv, Types, TypeOK
    <2>4. \A v \in Worker : WorkerInv(v)'
      BY <1>s, <1>o, <2>1, <2>3 DEF Types, TypeOK
    <2> QED BY <1>s, <1>m, <2>1, <2>4 DEF SkipInv
  <1>4. ASSUME NEW w \in Worker, Search(w) PROVE SkipInv'
    <2>1. OldestInHand(w)'
      BY <1>4 DEF Search, OldestInHand, Types, TypeOK
    <2> QED BY <1>4, <1>s, <2>1 DEF Search, slack, Types, TypeOK
  <1>5. ASSUME NEW w \in Worker, CheckDay(w) \/ Spend(w) PROVE SkipInv'
    <2>1. CASE Return(w)
      <3>1. \A i \in Incident : Grows(i)
        BY <1>5, ThreadsStay DEF CheckDay, Spend, slack
      <3> QED BY <1>5, <1>l, <2>1, <3>1 DEF CheckDay, Spend
    <2>2. CASE ~Return(w)
      <3>1. OldestInHand(w)
        BY <1>5, <1>w DEF CheckDay, Spend, WorkerInv
      <3>2. /\ UNCHANGED <<thread, seen, rows, todo, question>> /\ pc[w] \in {"day", "hour"}
            /\ pc' = [pc EXCEPT ![w] = "hour"] \/ pc' = [pc EXCEPT ![w] = "post"]
        BY <1>5, <2>2 DEF CheckDay, Spend, slack
      <3>3. OldestInHand(w)'
        BY <3>1, <3>2 DEF OldestInHand
      <3> QED BY <1>s, <3>2, <3>3
    <2> QED BY <2>1, <2>2
  \* An answer shows up in the thread of the worker's row.
  <1>h. ASSUME NEW w \in Worker, pc[w] = "post", Show(w)
        PROVE  /\ \A i \in Incident : Grows(i)
               /\ \E x \in Incident : x = Head(rows[w]).incident /\ question[w] \in Answered(x)'
    <2>1. PICK x \in Incident : x = Head(rows[w]).incident
      BY <1>h, HeadIsTyped DEF Types, RowInv
    <2>2. PICK m \in Message : m = [from |-> "bot", to |-> question[w]]
      BY DEF Message, Types, TypeOK
    <2>3. thread' = [thread EXCEPT ![x] = Append(@, m)]
      BY <1>h, <2>1, <2>2 DEF Show
    <2> QED BY <2>1, <2>2, <2>3, ThreadsGrow
  <1>6. ASSUME NEW w \in Worker, Post(w) PROVE SkipInv'
    <2>1. pc[w] = "post" /\ Show(w) /\ UNCHANGED <<seen, rows, todo, question>>
      BY <1>6 DEF Post
    <2>2. PICK x \in Incident : x = Head(rows[w]).incident /\ question[w] \in Answered(x)'
      BY <1>h, <2>1
    <2>3. \A i \in Incident : Grows(i)
      BY <1>h, <2>1
    <2>4. question'[w] \in Answered(Head(rows[w]).incident)'
      BY <2>1, <2>2
    <2>5. RowsAreSafe(w)' /\ Behind(w)' /\ OldestInHand(w)'
      <3>1. Behind(w) /\ OldestInHand(w) /\ rows[w] # <<>>
        BY <1>w, <2>1 DEF WorkerInv, Types, RowInv
      <3> QED BY <1>w, <2>1, <2>3, <3>1, RowsStay, BehindStays DEF OldestInHand
    <2>6. WorkerInv(w)'
      BY <2>4, <2>5 DEF WorkerInv
    <2>7. \A v \in Worker : WorkerInv(v)'
      BY <1>6, <1>o, <2>1, <2>3, <2>6 DEF Post, Types, TypeOK
    <2> QED BY <1>m, <2>1, <2>3, <2>7 DEF SkipInv
  <1>7. ASSUME NEW w \in Worker, PostFails(w) PROVE SkipInv'
    <2>1. pc[w] = "post" /\ rows[w] # <<>>
      BY <1>7 DEF PostFails, Types, RowInv
    <2>2. \A i \in Incident : Grows(i)
      <3>1. UNCHANGED thread \/ Show(w)
        BY <1>7 DEF PostFails
      <3> QED BY <1>h, <2>1, <3>1, ThreadsStay
    <2> QED BY <1>7, <1>l, <2>1, <2>2 DEF PostFails
  <1>8. ASSUME NEW w \in Worker, Mark(w) PROVE SkipInv'
    <2>1. PICK x \in Incident, s \in Nat : Head(rows[w]) = [incident |-> x, seen |-> s]
      BY <1>8, HeadIsTyped DEF Mark, Types, RowInv, Row
    <2>2. PICK q \in Nat : q = question[w]
      BY DEF Types, TypeOK
    <2> DEFINE newest == IF q > s THEN q ELSE s
               row == [incident |-> x, seen |-> newest]
    <2>3. /\ seen' = [seen EXCEPT ![x] = newest]
          /\ rows' = [rows EXCEPT ![w] = <<row>> \o Tail(@)]
          /\ todo' = [todo EXCEPT ![w] = @ \ {q}]
          /\ pc' = [pc EXCEPT ![w] = "replies"]
          /\ UNCHANGED thread
      <3>1. [Head(rows[w]) EXCEPT !.seen = newest] = row /\ Head(rows[w]).incident = x
            /\ Head(rows[w]).seen = s
        BY <2>1
      <3> QED BY <1>8, <2>2, <3>1 DEF Mark, slack
    <2>4. newest \in Nat /\ row \in Row
      BY DEF Row
    <2>5. \A i \in Incident : Grows(i)
      BY <2>3, ThreadsStay
    <2>6. /\ Behind(w) /\ OldestInHand(w) /\ q \in Answered(x)
          /\ rows[w] \in Seq(Row) /\ rows[w] # <<>>
      BY <1>8, <1>w, <2>1, <2>2 DEF Mark, WorkerInv, Types, TypeOK, RowInv
    <2>7. Safe(x, s)
      <3>1. 1 \in 1 .. Len(rows[w]) /\ Head(rows[w]) = rows[w][1]
        BY <2>6
      <3> QED BY <1>w, <2>1, <3>1 DEF RowsAreSafe
    <2>8. Safe(x, q)
      <3>1. q \in todo[w] /\ q \in 1 .. Len(thread[x])
        BY <2>1, <2>2, <2>6 DEF Behind, OldestInHand
      <3>2. ASSUME NEW k \in Questions(x), k <= q PROVE k \in Answered(x)
        <4>1. CASE k = q
          BY <2>6, <4>1
        <4>2. CASE k # q
          <5>1. k \in Nat /\ k < q
            BY <3>2, <4>2 DEF Questions, Types, TypeOK
          <5>2. k \notin todo[w]
            BY <2>2, <2>6, <5>1 DEF OldestInHand, Types, TypeOK
          <5> QED BY <2>1, <2>6, <3>1, <5>1, <5>2 DEF Behind
        <4> QED BY <4>1, <4>2
      <3> QED BY <3>1, <3>2 DEF Safe, Types, TypeOK
    <2>9. Safe(x, newest)'
      BY <2>3, <2>4, <2>5, <2>7, <2>8, EverySafeStays
    <2>10. \A i \in Incident : Safe(i, seen[i])'
      <3> SUFFICES ASSUME NEW i \in Incident PROVE Safe(i, seen[i])'
        OBVIOUS
      <3>1. CASE i = x
        BY <2>3, <2>9, <3>1 DEF Safe, Types, TypeOK
      <3>2. CASE i # x
        <4>1. seen'[i] = seen[i] /\ seen[i] \in Nat /\ Safe(i, seen[i])
          BY <2>3, <3>2 DEF SkipInv, Types, TypeOK
        <4> QED BY <2>5, <4>1, EverySafeStays DEF Safe
      <3> QED BY <3>1, <3>2
    <2>11. RowsAreSafe(w)'
      <3>1. rows'[w] = <<row>> \o Tail(rows[w])
        BY <2>3 DEF Types, TypeOK
      <3> SUFFICES ASSUME NEW n \in 1 .. Len(rows'[w])
                   PROVE  Safe(rows[w][n].incident, rows[w][n].seen)'
        BY DEF RowsAreSafe
      <3>2. rows'[w][n] = row \/ (n \in 1 .. Len(rows[w]) /\ rows'[w][n] = rows[w][n])
        <4>1. PICK t : t = <<row>> \o Tail(rows[w])
          OBVIOUS
        <4>2. \A m \in 1 .. Len(t) :
                \/ t[m] = row
                \/ m \in 1 .. Len(rows[w]) /\ t[m] = rows[w][m]
          BY <2>4, <2>6, <4>1, ReplacedHead
        <4>3. rows'[w] = t
          BY <3>1, <4>1
        <4>4. n \in 1 .. Len(t)
          BY <4>3
        <4>5. t[n] = row \/ (n \in 1 .. Len(rows[w]) /\ t[n] = rows[w][n])
          BY <4>2, <4>4
        <4> HIDE DEF row
        <4> QED BY <4>3, <4>5
      <3>3. CASE rows'[w][n] = row
        BY <2>9, <3>3 DEF Safe
      <3>4. CASE n \in 1 .. Len(rows[w]) /\ rows'[w][n] = rows[w][n]
        <4>1. rows[w][n] \in Row
          BY <2>6, <3>4
        <4>2. rows[w][n].incident \in Incident /\ rows[w][n].seen \in Nat
              /\ Safe(rows[w][n].incident, rows[w][n].seen)
          BY <1>w, <3>4, <4>1 DEF RowsAreSafe, Row
        <4> QED BY <2>5, <3>4, <4>2, EverySafeStays DEF Safe
      <3> QED BY <3>2, <3>3, <3>4
    <2>12. Behind(w)'
      <3>1. rows'[w] = <<row>> \o Tail(rows[w]) /\ todo'[w] = todo[w] \ {q}
        BY <2>3 DEF Types, TypeOK
      <3>2. Head(rows'[w]).incident = x
        BY <2>4, <2>6, <3>1, ReplacedHead
      <3>3. Questions(x)' = Questions(x) /\ Answered(x)' = Answered(x)
        BY <2>3 DEF Questions, Answered, AnswersIn
      <3>4. \A j \in todo[w] :
              /\ j \in 1 .. Len(thread[x])
              /\ \A k \in Questions(x) : k < j /\ k \notin todo[w] => k \in Answered(x)
        BY <2>1, <2>6 DEF Behind
      <3>5. ASSUME NEW j \in todo'[w], NEW k \in Questions(x), k < j, k \notin todo'[w]
            PROVE  k \in Answered(x)
        BY <2>6, <3>1, <3>4, <3>5
      <3>6. \A j \in todo'[w] : j \in 1 .. Len(thread'[x])
        BY <2>3, <3>1, <3>4
      <3> QED BY <3>2, <3>3, <3>5, <3>6 DEF Behind
    <2>13. WorkerInv(w)'
      BY <2>3, <2>11, <2>12 DEF WorkerInv, Types, TypeOK
    <2>14. \A v \in Worker : WorkerInv(v)'
      BY <1>8, <1>o, <2>3, <2>5, <2>13 DEF Mark, Types, TypeOK
    <2> QED BY <2>10, <2>14 DEF SkipInv
  <1>9. ASSUME NEW w \in Worker, Crash(w) PROVE SkipInv'
    <2>1. \A i \in Incident : Grows(i)
      BY <1>9, ThreadsStay DEF Crash, slack
    <2>2. pc'[w] = "idle" /\ rows'[w] = <<>>
      BY <1>9 DEF Crash, Types, TypeOK
    <2>3. WorkerInv(w)'
      BY <2>2, WorkerReturns
    <2>4. \A v \in Worker : WorkerInv(v)'
      BY <1>9, <1>o, <2>1, <2>3 DEF Crash, Types, TypeOK
    <2> QED BY <1>9, <1>m, <2>1, <2>4 DEF Crash, SkipInv
  <1>10. ASSUME NEW w \in Worker, CheckDayForOther(w) \/ SpendForOther(w) PROVE SkipInv'
    <2>1. \A i \in Incident : Grows(i)
      BY <1>10, ThreadsStay DEF CheckDayForOther, SpendForOther, slack
    <2>2. UNCHANGED <<seen, rows, todo, question>> /\ pc'[w] \in {"idle", "other"}
      BY <1>10 DEF CheckDayForOther, SpendForOther, Types, TypeOK
    <2>3. WorkerInv(w)'
      BY <1>w, <2>1, <2>2, RowsStay DEF WorkerInv
    <2>4. \A v \in Worker : WorkerInv(v)'
      BY <1>10, <1>o, <2>1, <2>2, <2>3 DEF CheckDayForOther, SpendForOther, Types, TypeOK
    <2> QED BY <1>m, <2>1, <2>2, <2>4 DEF SkipInv
  <1>11. ASSUME \A i \in Incident : Grows(i), UNCHANGED <<seen, pc, rows, todo, question>>
         PROVE  SkipInv'
    BY <1>11, <1>a, <1>m DEF SkipInv
  <1>12. ASSUME NEW w \in Worker, Due(w) PROVE SkipInv'
    BY <1>11, <1>12, ThreadsStay DEF Due, slack
  <1>13. ASSUME NEW i \in Incident, BriefIsDelivered(i) PROVE SkipInv'
    BY <1>11, <1>13, ThreadsStay DEF BriefIsDelivered, local
  <1>14. ASSUME NEW i \in Incident, NEW who \in {"person", "other"}, Write(i, who) PROVE SkipInv'
    <2>1. PICK m \in Message : m = [from |-> who, to |-> 0]
      BY DEF Message
    <2>2. \A j \in Incident : Grows(j)
      BY <1>14, <2>1, ThreadsGrow DEF Write
    <2> QED BY <1>11, <1>14, <2>2 DEF Write, local
  <1>15. ASSUME ThreadCloses \/ NextHour PROVE SkipInv'
    BY <1>11, <1>15, ThreadsStay DEF ThreadCloses, NextHour, slack, local
  <1>16. CASE UNCHANGED vars
    BY <1>11, <1>16, ThreadsStay DEF vars, slack, local
  <1> QED
    BY <1>1, <1>2, <1>3, <1>4, <1>5, <1>6, <1>7, <1>8, <1>9, <1>10, <1>12, <1>13, <1>14, <1>15, <1>16
       DEF Next, Step

\* Whatever fails between search, answer and mark, and however old the
\* snapshots of concurrent polls are, thread_seen_ts stays behind every
\* question that has no answer.
THEOREM NothingIsSkipped == Spec => []NoQuestionIsSkipped
  <1>1. SkipInv => NoQuestionIsSkipped
    BY DEF SkipInv, Safe, NoQuestionIsSkipped
  <1> QED BY <1>1, TypesInit, TypesNext, SkipInit, SkipNext, PTL DEF Spec

----------------------------------------------------------------------------
(* Repeated answers.  While polls do not overlap, the one under way works    *)
(* from the marks as they are, so it can only repeat an answer beyond the    *)
(* mark.  Such an exposed answer is one whose mark was lost: every one of    *)
(* them has been counted in `unmarked` when it came to be exposed, and none  *)
(* is exposed any more once it is repeated.                                  *)

Single == \A v, w \in Worker : Polling(v) /\ Polling(w) => v = w

\* No thread is open twice.
OpenInv ==
  \A m \in 1 .. Len(open) :
    /\ open[m] \notin unbriefed
    /\ \A n \in 1 .. Len(open) : open[m] = open[n] => m = n

InThread == {"replies", "day", "hour", "post", "mark"}

\* The rows of a poll name each thread once, with the mark it has now, and the
\* replies in hand are beyond it.
Part(w) ==
  Polling(w) =>
    /\ \A n \in 1 .. Len(rows[w]) : rows[w][n].seen = seen[rows[w][n].incident]
    /\ \A m, n \in 1 .. Len(rows[w]) : rows[w][m].incident = rows[w][n].incident => m = n
    /\ pc[w] \in InThread => \A k \in todo[w] : k > seen[Head(rows[w]).incident]

Marking(i, k) ==
  \E w \in Worker : pc[w] = "mark" /\ Head(rows[w]).incident = i /\ question[w] = k
Exposed(i) == {k \in Answered(i) : k > seen[i] /\ ~Marking(i, k)}

Counted(i) ==
  /\ IsFiniteSet(AnswersIn(i)) /\ IsFiniteSet(Answered(i))
  /\ Cardinality(AnswersIn(i)) + Cardinality(Exposed(i)) <= Cardinality(Answered(i)) + unmarked[i]

Rep == Single /\ (\A w \in Worker : Part(w)) /\ (\A i \in Incident : Counted(i))
RepInv == OpenInv /\ (~overlapped => Rep)

\* What an answer adds to the counts: one that is marked next, one that is not.
LEMMA CountAnswer ==
  ASSUME NEW A, NEW D, NEW E, NEW a, NEW q, NEW u \in Nat,
         IsFiniteSet(A), IsFiniteSet(D), E \subseteq D, a \notin A, q \in D => q \in E,
         Cardinality(A) + Cardinality(E) <= Cardinality(D) + u
  PROVE  /\ IsFiniteSet(A \cup {a}) /\ IsFiniteSet(D \cup {q})
         /\ Cardinality(A \cup {a}) + Cardinality(E \ {q}) <= Cardinality(D \cup {q}) + u
         /\ Cardinality(A \cup {a}) + Cardinality(E \cup {q}) <= Cardinality(D \cup {q}) + u + 1
  <1>1. IsFiniteSet(E)
    BY FS_Subset
  <1>2. /\ Cardinality(A) \in Nat /\ Cardinality(D) \in Nat /\ Cardinality(E) \in Nat
        /\ IsFiniteSet(A \cup {a}) /\ Cardinality(A \cup {a}) = Cardinality(A) + 1
        /\ IsFiniteSet(D \cup {q})
    BY <1>1, FS_AddElement, FS_CardinalityType
  <1>3. Cardinality(D \cup {q}) = IF q \in D THEN Cardinality(D) ELSE Cardinality(D) + 1
    BY FS_AddElement
  <1>4. Cardinality(E \cup {q}) = IF q \in E THEN Cardinality(E) ELSE Cardinality(E) + 1
    BY <1>1, FS_AddElement
  <1>5. Cardinality(E \ {q}) = IF q \in E THEN Cardinality(E) - 1 ELSE Cardinality(E)
    BY <1>1, FS_RemoveElement
  <1> QED BY <1>2, <1>3, <1>4, <1>5

LEMMA ReplacedHeadAt ==
  ASSUME NEW S, NEW s \in Seq(S), NEW e \in S, s # <<>>
  PROVE  /\ Len(<<e>> \o Tail(s)) = Len(s) /\ Head(<<e>> \o Tail(s)) = e
         /\ \A n \in 1 .. Len(s) : (<<e>> \o Tail(s))[n] = IF n = 1 THEN e ELSE s[n]
  <1>1. Tail(s) \in Seq(S) /\ Len(Tail(s)) = Len(s) - 1
    BY TailIsTyped
  <1> QED BY <1>1

LEMMA SnapshotIsDistinct ==
  ASSUME Types, OpenInv
  PROVE  \A m, n \in 1 .. Len(OpenThreads) :
           OpenThreads[m].incident = OpenThreads[n].incident => m = n
  <1> DEFINE len == IF Len(open) < Limit THEN Len(open) ELSE Limit
  <1>1. len \in 0 .. Len(open) /\ len \in Nat /\ Len(open) \in Nat
    <2>1. Len(open) \in Nat
      BY DEF Types, TypeOK
    <2> QED BY <2>1, ThreadAssumption
  <1>2. \A k \in 1 .. len : open[k] \in Incident
    <2>1. open \in Seq(Incident) /\ \A k \in 1 .. len : k \in 1 .. Len(open)
      BY <1>1 DEF Types, TypeOK
    <2> HIDE DEF len
    <2> QED BY <2>1, ElementOfSeq
  <1>3. /\ Watched \in Seq(Incident) /\ Len(Watched) = len
        /\ \A k \in 1 .. len : Watched[k] = open[k]
    <2>1. len - 1 + 1 = len /\ \A k \in 1 .. len : 1 + k - 1 = k
      BY <1>1
    <2> QED BY <1>1, <1>2, <2>1, SubSeqProperties DEF Watched
  <1>4. DOMAIN OpenThreads = 1 .. len /\ \A k \in 1 .. len : OpenThreads[k].incident = open[k]
    BY <1>3 DEF OpenThreads
  <1>5. Len(OpenThreads) = len
    BY <1>1, <1>4, SnapshotIsTyped
  <1> HIDE DEF len
  <1> QED BY <1>1, <1>4, <1>5 DEF OpenInv

\* Nobody posts or marks, and the worker that moves keeps its part.
LEMMA RepMoves ==
  ASSUME Types, Rep, NEW w \in Worker, UNCHANGED <<thread, seen, unmarked>>,
         \A v \in Worker \ {w} : UNCHANGED <<pc[v], rows[v], todo[v], question[v]>>,
         pc[w] # "mark", pc'[w] # "mark",
         Polling(w)' => Polling(w) \/ \A v \in Worker \ {w} : ~Polling(v),
         Part(w)'
  PROVE  Rep'
  <1>1. Single'
    BY DEF Rep, Single, Polling
  <1>2. ASSUME NEW v \in Worker PROVE Part(v)'
    <2>1. CASE v = w
      BY <2>1
    <2>2. CASE v # w
      BY <2>2 DEF Rep, Part, Polling
    <2> QED BY <2>1, <2>2
  <1>3. ASSUME NEW i \in Incident PROVE Counted(i)'
    <2>1. AnswersIn(i)' = AnswersIn(i) /\ Answered(i)' = Answered(i)
      BY DEF AnswersIn, Answered
    <2>2. \A k : Marking(i, k)' <=> Marking(i, k)
      BY DEF Marking
    <2>3. Exposed(i)' = Exposed(i)
      BY <2>1, <2>2 DEF Exposed
    <2> QED BY <2>1, <2>3 DEF Rep, Counted
  <1> QED BY <1>1, <1>2, <1>3 DEF Rep

\* Leaving a thread keeps the other rows, leaving the poll keeps none.
LEMMA PartLeaves ==
  ASSUME Types, Rep, NEW w \in Worker, Polling(w), UNCHANGED seen,
         (NextThread(w) /\ rows[w] # <<>>) \/ Return(w)
  PROVE  Part(w)'
  <1>1. CASE Return(w)
    BY <1>1 DEF Return, Goto, Part, Polling, Types, TypeOK
  <1>2. CASE NextThread(w) /\ rows[w] # <<>>
    <2>1. rows[w] \in Seq(Row) /\ rows'[w] = Tail(rows[w]) /\ pc'[w] = "threads"
      BY <1>2 DEF NextThread, Goto, Types, TypeOK
    <2>2. \A n \in 1 .. Len(rows'[w]) : n \in Nat /\ n + 1 \in 1 .. Len(rows[w])
                                         /\ rows'[w][n] = rows[w][n + 1]
      BY <1>2, <2>1, TailIsTyped
    <2>3. Part(w)
      BY DEF Rep
    <2>4. \A n \in 1 .. Len(rows'[w]) : rows'[w][n].seen = seen'[rows'[w][n].incident]
      BY <2>2, <2>3 DEF Part
    <2>5. ASSUME NEW m \in 1 .. Len(rows'[w]), NEW n \in 1 .. Len(rows'[w]),
                 rows'[w][m].incident = rows'[w][n].incident
          PROVE  m = n
      <3>1. /\ m \in Nat /\ n \in Nat /\ m + 1 \in 1 .. Len(rows[w]) /\ n + 1 \in 1 .. Len(rows[w])
            /\ rows[w][m + 1].incident = rows[w][n + 1].incident
        BY <2>2, <2>5
      <3>2. \A j, k \in 1 .. Len(rows[w]) : rows[w][j].incident = rows[w][k].incident => j = k
        BY <2>3 DEF Part
      <3>3. m + 1 = n + 1
        BY <3>1, <3>2
      <3> QED BY <3>1, <3>3
    <2> QED BY <2>1, <2>4, <2>5 DEF Part, InThread
  <1> QED BY <1>1, <1>2

\* The thread of the row in hand gets an answer to the question in hand.
LEMMA ShowCounts ==
  ASSUME Types, Types', SkipInv, Rep, NEW w \in Worker, pc[w] = "post", Show(w), UNCHANGED seen,
         \A v \in Worker \ {w} : UNCHANGED <<pc[v], rows[v], todo[v], question[v]>>,
         \/ pc'[w] = "mark" /\ UNCHANGED <<rows[w], question[w], unmarked>>
         \/ /\ pc'[w] # "mark"
            /\ unmarked' = [unmarked EXCEPT ![Head(rows[w]).incident] = @ + 1]
  PROVE  \A i \in Incident : Counted(i)'
  <1>1. PICK x \in Incident : x = Head(rows[w]).incident
    BY HeadIsTyped DEF Types, RowInv
  <1>2. PICK q \in Nat : q = question[w]
    BY DEF Types, TypeOK
  <1>3. PICK m \in Message : m = [from |-> "bot", to |-> q]
    BY DEF Message
  <1>4. m.from = "bot" /\ m.to = q /\ thread' = [thread EXCEPT ![x] = Append(@, m)]
    BY <1>1, <1>2, <1>3 DEF Show
  <1>5. q > seen[x]
    <2>1. q \in todo[w]
      BY <1>2 DEF SkipInv, WorkerInv, OldestInHand
    <2> QED BY <1>1, <2>1 DEF Rep, Part, Polling, InThread
  <1>6. \A v \in Worker : pc[v] # "mark" /\ (v # w => pc'[v] # "mark")
    BY DEF Rep, Single, Polling
  <1> SUFFICES ASSUME NEW i \in Incident PROVE Counted(i)'
    OBVIOUS
  <1>7. Counted(i) /\ unmarked[i] \in Nat /\ seen[i] \in Nat
    BY DEF Rep, Types, TypeOK
  <1>8. CASE i # x
    <2>1. AnswersIn(i)' = AnswersIn(i) /\ Answered(i)' = Answered(i)
      BY <1>4, <1>8 DEF AnswersIn, Answered, Types, TypeOK
    <2>2. \A k : ~Marking(i, k) /\ ~Marking(i, k)'
      BY <1>1, <1>6, <1>8 DEF Marking
    <2>3. Exposed(i)' = Exposed(i)
      BY <2>1, <2>2 DEF Exposed
    <2>4. unmarked'[i] = unmarked[i]
      BY <1>1, <1>8 DEF Types, TypeOK
    <2> QED BY <1>7, <2>1, <2>3, <2>4 DEF Counted
  <1>9. CASE i = x
    <2> DEFINE n == Len(thread[x]) + 1
    <2>1. /\ DOMAIN thread[x] = 1 .. Len(thread[x]) /\ DOMAIN thread'[x] = DOMAIN thread[x] \cup {n}
          /\ \A k \in DOMAIN thread[x] : thread'[x][k] = thread[x][k]
          /\ thread'[x][n] = m /\ n \notin DOMAIN thread[x]
      <3>1. thread[x] \in Seq(Message) /\ thread'[x] = Append(thread[x], m)
        BY <1>4 DEF Types, TypeOK
      <3>2. /\ Len(thread'[x]) = Len(thread[x]) + 1 /\ Len(thread[x]) \in Nat
            /\ DOMAIN thread[x] = 1 .. Len(thread[x]) /\ DOMAIN thread'[x] = 1 .. Len(thread[x]) + 1
            /\ \A k \in 1 .. Len(thread[x]) : thread'[x][k] = thread[x][k]
            /\ thread'[x][Len(thread[x]) + 1] = m
        BY <3>1
      <3> QED BY <3>2
    <2>2. AnswersIn(x)' = AnswersIn(x) \cup {n} /\ n \notin AnswersIn(x)
      BY <1>4, <2>1 DEF AnswersIn
    <2>3. Answered(x)' = Answered(x) \cup {q}
      <3>1. \A k \in AnswersIn(x) : thread'[x][k].to = thread[x][k].to
        BY <2>1 DEF AnswersIn
      <3>2. thread'[x][n].to = q
        BY <1>4, <2>1
      <3> HIDE DEF n
      <3> QED BY <2>2, <3>1, <3>2 DEF Answered
    <2>4. Exposed(x) = {k \in Answered(x) : k > seen[x]}
      BY <1>6 DEF Exposed, Marking
    <2>5. Exposed(x) \subseteq Answered(x) /\ (q \in Answered(x) => q \in Exposed(x))
      BY <1>5, <2>4
    <2>6. /\ IsFiniteSet(AnswersIn(x)') /\ IsFiniteSet(Answered(x)')
          /\ Cardinality(AnswersIn(x)') + Cardinality(Exposed(x) \ {q})
               <= Cardinality(Answered(x)') + unmarked[x]
          /\ Cardinality(AnswersIn(x)') + Cardinality(Exposed(x) \cup {q})
               <= Cardinality(Answered(x)') + unmarked[x] + 1
      <3>1. /\ IsFiniteSet(AnswersIn(x)) /\ IsFiniteSet(Answered(x)) /\ unmarked[x] \in Nat
            /\ Cardinality(AnswersIn(x)) + Cardinality(Exposed(x))
                 <= Cardinality(Answered(x)) + unmarked[x]
        BY <1>7, <1>9 DEF Counted
      <3>2. PICK A, D, X, u : A = AnswersIn(x) /\ D = Answered(x) /\ X = Exposed(x) /\ u = unmarked[x]
        OBVIOUS
      <3> HIDE DEF n
      <3>3. /\ IsFiniteSet(A \cup {n}) /\ IsFiniteSet(D \cup {q})
            /\ Cardinality(A \cup {n}) + Cardinality(X \ {q}) <= Cardinality(D \cup {q}) + u
            /\ Cardinality(A \cup {n}) + Cardinality(X \cup {q}) <= Cardinality(D \cup {q}) + u + 1
        <4>1. /\ u \in Nat /\ IsFiniteSet(A) /\ IsFiniteSet(D) /\ X \subseteq D /\ n \notin A
              /\ q \in D => q \in X
              /\ Cardinality(A) + Cardinality(X) <= Cardinality(D) + u
          BY <2>2, <2>5, <3>1, <3>2
        <4> HIDE <3>2
        <4> QED BY <4>1, CountAnswer
      <3> QED BY <2>2, <2>3, <3>2, <3>3
    <2>7. CASE pc'[w] = "mark" /\ UNCHANGED <<rows[w], question[w], unmarked>>
      <3>1. \A k : Marking(x, k)' <=> k = q
        BY <1>1, <1>2, <1>6, <2>7 DEF Marking
      <3>2. Exposed(x)' = Exposed(x) \ {q}
        BY <2>3, <2>4, <3>1 DEF Exposed
      <3> QED BY <1>9, <2>6, <2>7, <3>2 DEF Counted
    <2>8. CASE /\ pc'[w] # "mark"
               /\ unmarked' = [unmarked EXCEPT ![Head(rows[w]).incident] = @ + 1]
      <3>1. \A k : ~Marking(x, k)'
        BY <1>6, <2>8 DEF Marking
      <3>2. Exposed(x)' = Exposed(x) \cup {q}
        BY <1>5, <2>3, <2>4, <3>1 DEF Exposed
      <3>3. unmarked'[x] = unmarked[x] + 1
        BY <1>1, <2>8 DEF Types, TypeOK
      <3>4. Cardinality(AnswersIn(x)') + Cardinality(Exposed(x)')
              <= Cardinality(Answered(x)') + unmarked'[x]
        <4>1. /\ Cardinality(Answered(x)') \in Nat /\ unmarked[x] \in Nat
              /\ Cardinality(AnswersIn(x)') + Cardinality(Exposed(x) \cup {q})
                   <= Cardinality(Answered(x)') + unmarked[x] + 1
          BY <1>7, <1>9, <2>6, FS_CardinalityType
        <4>2. Cardinality(Answered(x)') + unmarked[x] + 1 = Cardinality(Answered(x)') + (unmarked[x] + 1)
          BY <4>1
        <4> QED BY <3>2, <3>3, <4>1, <4>2
      <3> QED BY <1>9, <2>6, <3>4 DEF Counted
    <2> QED BY <2>7, <2>8
  <1> QED BY <1>8, <1>9

\* The mark of an answer exposes nothing.
LEMMA RepMark ==
  ASSUME Types, SkipInv, Rep, NEW w \in Worker, Mark(w) PROVE Rep'
  <1>1. PICK x \in Incident : x = Head(rows[w]).incident
    BY HeadIsTyped DEF Mark, Types, RowInv
  <1>2. PICK q \in Nat : q = question[w]
    BY DEF Types, TypeOK
  <1>3. /\ rows[w] \in Seq(Row) /\ rows[w] # <<>> /\ Polling(w) /\ Part(w)
        /\ 1 \in 1 .. Len(rows[w]) /\ Head(rows[w]) = rows[w][1]
    BY DEF Mark, Types, TypeOK, RowInv, Polling, Rep
  <1>4. q \in todo[w] /\ \A k \in todo[w] : q <= k
    BY <1>2 DEF Mark, SkipInv, WorkerInv, OldestInHand
  <1>5. Head(rows[w]).seen = seen[x] /\ q > seen[x] /\ seen[x] \in Nat
    BY <1>1, <1>3, <1>4 DEF Mark, Part, InThread, Types, TypeOK
  <1>6. Head(rows[w]) = [incident |-> x, seen |-> seen[x]]
    BY <1>1, <1>3, <1>5, HeadIsTyped DEF Row
  <1> DEFINE row == [incident |-> x, seen |-> q]
  <1>7. /\ seen' = [seen EXCEPT ![x] = q]
        /\ rows' = [rows EXCEPT ![w] = <<row>> \o Tail(@)]
        /\ todo' = [todo EXCEPT ![w] = @ \ {q}]
        /\ pc' = [pc EXCEPT ![w] = "replies"]
        /\ UNCHANGED <<thread, unmarked>>
    <2>1. [Head(rows[w]) EXCEPT !.seen = q] = row
      BY <1>6
    <2> QED BY <1>1, <1>2, <1>5, <2>1 DEF Mark, Goto, slack, ghost
  <1>8. row \in Row /\ row.incident = x /\ row.seen = q
    BY DEF Row
  <1> HIDE DEF row
  <1>9. /\ Len(rows'[w]) = Len(rows[w]) /\ Head(rows'[w]) = row
        /\ \A n \in 1 .. Len(rows[w]) : rows'[w][n] = IF n = 1 THEN row ELSE rows[w][n]
    <2>1. rows'[w] = <<row>> \o Tail(rows[w])
      BY <1>7 DEF Types, TypeOK
    <2> QED BY <1>3, <1>8, <2>1, ReplacedHeadAt
  <1>10. \A v \in Worker \ {w} : ~Polling(v) /\ ~Polling(v)'
    BY <1>3, <1>7 DEF Rep, Single, Polling
  <1>11. Single'
    BY <1>10 DEF Single
  <1>12. Part(w)'
    <2>1. ASSUME NEW n \in 1 .. Len(rows'[w])
          PROVE  /\ rows'[w][n].seen = seen'[rows'[w][n].incident]
                 /\ rows'[w][n].incident = rows[w][n].incident
      <3>1. CASE n = 1
        BY <1>1, <1>3, <1>7, <1>8, <1>9, <3>1 DEF Types, TypeOK
      <3>2. CASE n # 1
        <4>1. n \in 1 .. Len(rows[w]) /\ rows'[w][n] = rows[w][n]
          BY <1>9, <3>2
        <4>2. rows[w][n].incident # x
          BY <1>1, <1>3, <3>2, <4>1 DEF Part
        <4>3. rows[w][n].incident \in Incident
          <5>1. rows[w][n] \in Row
            BY <1>3, <4>1, ElementOfSeq
          <5> QED BY <5>1 DEF Row
        <4>4. rows[w][n].seen = seen[rows[w][n].incident]
          BY <1>3, <4>1 DEF Part
        <4> QED BY <1>7, <4>1, <4>2, <4>3, <4>4 DEF Types, TypeOK
      <3> QED BY <3>1, <3>2
    <2>2. \A m, n \in 1 .. Len(rows'[w]) : rows'[w][m].incident = rows'[w][n].incident => m = n
      BY <1>3, <1>9, <2>1 DEF Part
    <2>3. \A k \in todo'[w] : k > seen'[Head(rows'[w]).incident]
      <3>1. todo'[w] = todo[w] \ {q} /\ todo[w] \subseteq Nat /\ seen'[x] = q
        BY <1>7 DEF Types, TypeOK
      <3> QED BY <1>4, <1>8, <1>9, <3>1
    <2> QED BY <2>1, <2>2, <2>3 DEF Part
  <1>13. ASSUME NEW i \in Incident PROVE Counted(i)'
    <2>1. AnswersIn(i)' = AnswersIn(i) /\ Answered(i)' = Answered(i) /\ unmarked'[i] = unmarked[i]
      BY <1>7 DEF AnswersIn, Answered
    <2>2. Counted(i) /\ unmarked[i] \in Nat /\ seen[i] \in Nat
      BY DEF Rep, Types, TypeOK
    <2>3. \A k : Marking(i, k) <=> i = x /\ k = q
      BY <1>1, <1>2, <1>10 DEF Mark, Marking, Polling
    <2>4. Exposed(i)' \subseteq Exposed(i)
      <3> SUFFICES ASSUME NEW k \in Exposed(i)' PROVE k \in Exposed(i)
        OBVIOUS
      <3>1. k \in Answered(i) /\ k > seen'[i] /\ k \in Nat
        <4>1. k \in Answered(i) /\ k > seen'[i]
          BY <2>1 DEF Exposed
        <4>2. PICK n \in DOMAIN thread[i] : k = thread[i][n].to
          BY <4>1 DEF Answered, AnswersIn
        <4>3. thread[i] \in Seq(Message)
          BY DEF Types, TypeOK
        <4>4. thread[i][n] \in Message
          BY <4>3
        <4> QED BY <4>1, <4>2, <4>4 DEF Message
      <3>2. CASE i = x
        BY <1>5, <1>7, <2>3, <3>1, <3>2 DEF Exposed, Types, TypeOK
      <3>3. CASE i # x
        BY <1>7, <2>3, <3>1, <3>3 DEF Exposed, Types, TypeOK
      <3> QED BY <3>2, <3>3
    <2>5. IsFiniteSet(Exposed(i))
      BY <2>2, FS_Subset DEF Exposed, Counted
    <2>6. Cardinality(Exposed(i)') <= Cardinality(Exposed(i)) /\ IsFiniteSet(Exposed(i)')
      BY <2>4, <2>5, FS_Subset
    <2>7. /\ Cardinality(Exposed(i)) \in Nat /\ Cardinality(Exposed(i)') \in Nat
          /\ Cardinality(AnswersIn(i)) \in Nat /\ Cardinality(Answered(i)) \in Nat
      BY <2>2, <2>5, <2>6, FS_CardinalityType DEF Counted
    <2> QED BY <2>1, <2>2, <2>6, <2>7 DEF Counted
  <1>14. ASSUME NEW v \in Worker PROVE Part(v)'
    BY <1>10, <1>12 DEF Part
  <1> QED BY <1>11, <1>13, <1>14 DEF Rep


\* A crash between an answer and its mark loses the mark.
LEMMA RepCrash ==
  ASSUME Types, Rep, NEW w \in Worker, Crash(w) PROVE Rep'
  <1>1. /\ pc'[w] = "idle" /\ ~Polling(w)' /\ UNCHANGED <<thread, seen>>
        /\ \A v \in Worker \ {w} : UNCHANGED <<pc[v], rows[v], todo[v], question[v]>>
    BY DEF Crash, slack, Types, TypeOK, Polling
  <1>2. Part(w)'
    BY <1>1 DEF Part
  <1>3. CASE pc[w] # "mark"
    BY <1>1, <1>2, <1>3, RepMoves DEF Crash
  <1>4. CASE pc[w] = "mark"
    <2>1. PICK x \in Incident : x = Head(rows[w]).incident
      BY <1>4, HeadIsTyped DEF Types, RowInv
    <2>2. PICK q \in Nat : q = question[w]
      BY DEF Types, TypeOK
    <2>3. unmarked' = [unmarked EXCEPT ![x] = @ + 1]
      BY <1>4, <2>1 DEF Crash
    <2>4. \A v \in Worker \ {w} : ~Polling(v) /\ ~Polling(v)'
      BY <1>1, <1>4 DEF Rep, Single, Polling
    <2>5. Single'
      BY <1>1, <2>4 DEF Single
    <2>6. \A v \in Worker : Part(v)'
      BY <1>2, <2>4 DEF Part
    <2>7. ASSUME NEW i \in Incident PROVE Counted(i)'
      <3>1. AnswersIn(i)' = AnswersIn(i) /\ Answered(i)' = Answered(i)
        BY <1>1 DEF AnswersIn, Answered
      <3>2. \A k : (Marking(i, k) => i = x /\ k = q) /\ ~Marking(i, k)'
        BY <1>1, <2>1, <2>2, <2>4 DEF Marking, Polling
      <3>3. Exposed(i)' \subseteq (IF i = x THEN Exposed(i) \cup {q} ELSE Exposed(i))
        BY <1>1, <3>1, <3>2 DEF Exposed
      <3>4. Counted(i) /\ unmarked[i] \in Nat
        BY DEF Rep, Types, TypeOK
      <3>5. IsFiniteSet(Exposed(i))
        BY <3>4, FS_Subset DEF Exposed, Counted
      <3>6. /\ Cardinality(Exposed(i)) \in Nat /\ Cardinality(AnswersIn(i)) \in Nat
            /\ Cardinality(Answered(i)) \in Nat
        BY <3>4, <3>5, FS_CardinalityType DEF Counted
      <3>7. CASE i = x
        <4>1. /\ IsFiniteSet(Exposed(i) \cup {q})
              /\ Cardinality(Exposed(i) \cup {q}) \in Nat
              /\ Cardinality(Exposed(i) \cup {q}) <= Cardinality(Exposed(i)) + 1
          <5>1. /\ IsFiniteSet(Exposed(i) \cup {q})
                /\ Cardinality(Exposed(i) \cup {q})
                     = IF q \in Exposed(i) THEN Cardinality(Exposed(i)) ELSE Cardinality(Exposed(i)) + 1
            BY <3>5, FS_AddElement
          <5> QED BY <3>6, <5>1
        <4>2. Cardinality(Exposed(i)') <= Cardinality(Exposed(i) \cup {q})
              /\ Cardinality(Exposed(i)') \in Nat
          BY <3>3, <3>7, <4>1, FS_Subset, FS_CardinalityType
        <4>3. unmarked'[i] = unmarked[i] + 1
          BY <2>3, <3>7 DEF Types, TypeOK
        <4> QED BY <3>1, <3>4, <3>6, <4>1, <4>2, <4>3 DEF Counted
      <3>8. CASE i # x
        <4>1. Cardinality(Exposed(i)') <= Cardinality(Exposed(i)) /\ Cardinality(Exposed(i)') \in Nat
          BY <3>3, <3>5, <3>8, FS_Subset, FS_CardinalityType
        <4>2. unmarked'[i] = unmarked[i]
          BY <2>3, <3>8 DEF Types, TypeOK
        <4> QED BY <3>1, <3>4, <3>6, <4>1, <4>2 DEF Counted
      <3> QED BY <3>7, <3>8
    <2> QED BY <2>5, <2>6, <2>7 DEF Rep
  <1> QED BY <1>3, <1>4

\* What another person writes is no answer.
LEMMA WritesCountNothing ==
  ASSUME Types, NEW x \in Incident, NEW who \in {"person", "other"}, Write(x, who),
         NEW i \in Incident
  PROVE  AnswersIn(i)' = AnswersIn(i) /\ Answered(i)' = Answered(i)
  <1>1. PICK m \in Message : m = [from |-> who, to |-> 0]
    BY DEF Message
  <1>2. thread' = [thread EXCEPT ![x] = Append(@, m)] /\ m.from # "bot"
    BY <1>1 DEF Write
  <1>3. CASE i # x
    BY <1>2, <1>3 DEF AnswersIn, Answered, Types, TypeOK
  <1>4. CASE i = x
    <2> DEFINE n == Len(thread[i]) + 1
    <2>1. /\ DOMAIN thread'[i] = DOMAIN thread[i] \cup {n} /\ n \notin DOMAIN thread[i]
          /\ \A k \in DOMAIN thread[i] : thread'[i][k] = thread[i][k]
          /\ thread'[i][n] = m
      <3>1. thread[i] \in Seq(Message) /\ thread'[i] = Append(thread[i], m)
        BY <1>2, <1>4 DEF Types, TypeOK
      <3>2. /\ Len(thread[i]) \in Nat
            /\ DOMAIN thread[i] = 1 .. Len(thread[i]) /\ DOMAIN thread'[i] = 1 .. Len(thread[i]) + 1
            /\ \A k \in 1 .. Len(thread[i]) : thread'[i][k] = thread[i][k]
            /\ thread'[i][Len(thread[i]) + 1] = m
        BY <3>1
      <3> QED BY <3>2
    <2> HIDE DEF n
    <2>2. AnswersIn(i)' = AnswersIn(i)
      BY <1>2, <2>1 DEF AnswersIn
    <2>3. \A k \in AnswersIn(i) : thread'[i][k].to = thread[i][k].to
      BY <2>1 DEF AnswersIn
    <2> QED BY <2>2, <2>3 DEF Answered
  <1> QED BY <1>3, <1>4

LEMMA OpenNext == Types /\ OpenInv /\ [Next]_vars => OpenInv'
  <1> SUFFICES ASSUME Types, OpenInv, [Next]_vars PROVE OpenInv'
    OBVIOUS
  <1> USE DEF OpenInv, slack, local, ghost
  <1>1. ASSUME UNCHANGED <<open, unbriefed>> PROVE OpenInv'
    BY <1>1
  <1>2. ASSUME NEW i \in Incident, BriefIsDelivered(i) PROVE OpenInv'
    <2>1. /\ open \in Seq(Incident) /\ i \in unbriefed /\ open' = <<i>> \o open
          /\ unbriefed' = unbriefed \ {i}
      BY <1>2 DEF BriefIsDelivered, Types, TypeOK
    <2>2. /\ Len(open') = Len(open) + 1 /\ Len(open) \in Nat
          /\ \A n \in 1 .. Len(open') : open'[n] = IF n = 1 THEN i ELSE open[n - 1]
      BY <2>1
    <2>3. \A n \in 1 .. Len(open') : n # 1 => n - 1 \in 1 .. Len(open)
      BY <2>2
    <2>4. ASSUME NEW m \in 1 .. Len(open'), NEW n \in 1 .. Len(open'), open'[m] = open'[n]
          PROVE  m = n
      <3>1. CASE m = 1 \/ n = 1
        BY <2>1, <2>2, <2>3, <2>4, <3>1
      <3>2. CASE m # 1 /\ n # 1
        <4>1. open[m - 1] = open[n - 1]
          BY <2>2, <2>4, <3>2
        <4>2. m - 1 = n - 1
          BY <2>3, <3>2, <4>1
        <4> QED BY <4>2
      <3> QED BY <3>1, <3>2
    <2>5. ASSUME NEW m \in 1 .. Len(open') PROVE open'[m] \notin unbriefed'
      BY <2>1, <2>2, <2>3
    <2> QED BY <2>4, <2>5
  <1>3. ASSUME ThreadCloses PROVE OpenInv'
    <2>1. open \in Seq(Incident) /\ open # <<>> /\ UNCHANGED unbriefed
      BY <1>3 DEF ThreadCloses, Types, TypeOK
    <2>2. Len(open) \in Nat /\ Len(open) > 0
      BY <2>1
    <2> DEFINE len == Len(open) - 1
    <2>3. len \in 0 .. Len(open) /\ \A n \in 1 .. len : n \in 1 .. Len(open)
      BY <2>2
    <2>4. open' = SubSeq(open, 1, len)
      BY <1>3 DEF ThreadCloses
    <2>5. Len(open') = len /\ \A n \in 1 .. len : open'[n] = open[n]
      <3>1. \A n \in 1 .. len : open[n] \in Incident
        BY <2>1, <2>3, ElementOfSeq
      <3>2. 1 \in Int /\ len \in Int /\ len - 1 + 1 = len /\ \A n \in 1 .. len : 1 + n - 1 = n
        BY <2>3
      <3> QED BY <2>3, <2>4, <3>1, <3>2, SubSeqProperties
    <2> HIDE DEF len
    <2> QED BY <2>1, <2>3, <2>5
  <1>4. ASSUME NEW w \in Worker, Step(w) \/ Due(w) \/ FetchFails(w) \/ PostFails(w) \/ Crash(w)
                 \/ CheckDayForOther(w)
        PROVE  UNCHANGED <<open, unbriefed>>
    BY <1>4 DEF Step, Due, FetchFails, PostFails, Crash, CheckDayForOther, Poll, NoMoreThreads, Fetch,
                NoMoreReplies, Search, CheckDay, Spend, Post, Mark, SpendForOther
  <1>5. ASSUME NEW i \in Incident, Write(i, "person") \/ Write(i, "other")
        PROVE  UNCHANGED <<open, unbriefed>>
    BY <1>5 DEF Write
  <1>6. NextHour \/ UNCHANGED vars => UNCHANGED <<open, unbriefed>>
    BY DEF NextHour, vars
  <1> QED BY <1>1, <1>2, <1>3, <1>4, <1>5, <1>6 DEF Next

LEMMA RepInit == Init => RepInv
  <1> SUFFICES ASSUME Init PROVE RepInv
    OBVIOUS
  <1>1. OpenInv
    BY DEF Init, OpenInv
  <1>2. Single /\ \A w \in Worker : Part(w)
    BY DEF Init, Single, Part, Polling
  <1>3. ASSUME NEW i \in Incident PROVE Counted(i)
    <2>1. AnswersIn(i) = {} /\ Answered(i) = {} /\ Exposed(i) = {}
      BY DEF Init, AnswersIn, Answered, Exposed
    <2>2. unmarked[i] = 0
      BY DEF Init
    <2> QED BY <2>1, <2>2, FS_EmptySet DEF Counted
  <1> QED BY <1>1, <1>2, <1>3 DEF RepInv, Rep

LEMMA RepNext == Types /\ Types' /\ SkipInv /\ RepInv /\ [Next]_vars => RepInv'
  <1> SUFFICES ASSUME Types, Types', SkipInv, RepInv, [Next]_vars, ~overlapped' PROVE Rep'
    BY OpenNext DEF RepInv
  <1> USE DEF Goto, slack, local, ghost
  <1>r. Rep
    <2>1. ~overlapped
      BY DEF Next, Step, Due, FetchFails, PostFails, Crash, CheckDayForOther, Poll, NoMoreThreads,
             Fetch, NoMoreReplies, Search, CheckDay, Spend, Post, Mark, SpendForOther,
             BriefIsDelivered, Write, ThreadCloses, NextHour, vars, Types, TypeOK
    <2> QED BY <2>1 DEF RepInv
  <1>o. ASSUME NEW w \in Worker, pc'[w] \in Label,
               pc' = [pc EXCEPT ![w] = pc'[w]], rows' = [rows EXCEPT ![w] = rows'[w]],
               todo' = [todo EXCEPT ![w] = todo'[w]], question' = [question EXCEPT ![w] = question'[w]]
        PROVE  \A v \in Worker \ {w} : UNCHANGED <<pc[v], rows[v], todo[v], question[v]>>
    BY <1>o DEF Types, TypeOK
  <1>l. ASSUME NEW w \in Worker, NextThread(w) \/ Return(w)
        PROVE  /\ \A v \in Worker \ {w} : UNCHANGED <<pc[v], rows[v], todo[v], question[v]>>
               /\ pc'[w] \in {"threads", "idle"}
    BY <1>l DEF NextThread, Return, Types, TypeOK
  <1>1. ASSUME NEW w \in Worker, Poll(w) PROVE Rep'
    <2>1. /\ pc[w] = "idle" /\ pc'[w] = "threads" /\ rows'[w] = OpenThreads
          /\ UNCHANGED <<thread, seen, unmarked>>
          /\ \A v \in Worker \ {w} : UNCHANGED <<pc[v], rows[v], todo[v], question[v]>>
          /\ \A v \in Worker \ {w} : ~Polling(v)
      BY <1>1 DEF Poll, Types, TypeOK
    <2>2. Part(w)'
      BY <2>1, SnapshotIsTyped, SnapshotIsDistinct DEF Part, InThread, RepInv
    <2> QED BY <1>r, <2>1, <2>2, RepMoves
  <1>2. ASSUME NEW w \in Worker, NoMoreThreads(w) \/ NoMoreReplies(w) \/ FetchFails(w) PROVE Rep'
    <2>1. /\ pc[w] \in {"threads", "replies"} /\ UNCHANGED <<thread, seen, unmarked>>
          /\ (NextThread(w) /\ rows[w] # <<>>) \/ Return(w)
      BY <1>2 DEF NoMoreThreads, NoMoreReplies, FetchFails, Types, RowInv
    <2>2. Part(w)'
      BY <1>r, <2>1, PartLeaves DEF Polling
    <2> QED BY <1>r, <1>l, <2>1, <2>2, RepMoves DEF Polling
  <1>3. ASSUME NEW w \in Worker, Fetch(w) PROVE Rep'
    <2>1. /\ pc[w] = "threads" /\ pc'[w] = "replies" /\ rows[w] # <<>> /\ UNCHANGED <<thread, seen, unmarked>>
          /\ \A v \in Worker \ {w} : UNCHANGED <<pc[v], rows[v], todo[v], question[v]>>
          /\ UNCHANGED rows[w] /\ todo'[w] = Unseen(Head(rows[w]))
      BY <1>3 DEF Fetch, Types, TypeOK
    <2>2. Head(rows[w]).seen = seen[Head(rows[w]).incident]
      <3>1. 1 \in 1 .. Len(rows[w]) /\ Head(rows[w]) = rows[w][1]
        BY <2>1 DEF Types, TypeOK
      <3> QED BY <1>r, <2>1, <3>1 DEF Rep, Part, Polling
    <2>3. Part(w)'
      BY <1>r, <2>1, <2>2 DEF Rep, Part, Polling, Unseen
    <2> QED BY <1>r, <2>1, <2>3, RepMoves DEF Polling
  \* Steps within a thread that neither answer nor mark
  <1>s. ASSUME NEW w \in Worker, pc[w] \in {"replies", "day", "hour"}, pc'[w] \in {"day", "hour", "post"},
               UNCHANGED <<thread, seen, unmarked, rows[w], todo[w]>>,
               \A v \in Worker \ {w} : UNCHANGED <<pc[v], rows[v], todo[v], question[v]>>
        PROVE  Rep'
    <2>1. Part(w)'
      BY <1>r, <1>s DEF Rep, Part, Polling, InThread
    <2> QED BY <1>r, <1>s, <2>1, RepMoves DEF Polling
  <1>4. ASSUME NEW w \in Worker, Search(w) PROVE Rep'
    BY <1>4, <1>s DEF Search, Types, TypeOK
  <1>5. ASSUME NEW w \in Worker, CheckDay(w) \/ Spend(w) PROVE Rep'
    <2>1. pc[w] \in {"day", "hour"} /\ UNCHANGED <<thread, seen, unmarked>>
      BY <1>5 DEF CheckDay, Spend
    <2>2. CASE Return(w)
      <3>1. Part(w)'
        BY <1>r, <2>1, <2>2, PartLeaves DEF Polling
      <3> QED BY <1>r, <1>l, <2>1, <2>2, <3>1, RepMoves DEF Polling
    <2>3. CASE ~Return(w)
      BY <1>5, <1>s, <2>1, <2>3 DEF CheckDay, Spend, Types, TypeOK
    <2> QED BY <2>2, <2>3
  <1>6. ASSUME NEW w \in Worker, Post(w) PROVE Rep'
    <2>1. /\ pc[w] = "post" /\ pc'[w] = "mark" /\ Show(w) /\ UNCHANGED <<seen, rows, todo, question, unmarked>>
          /\ \A v \in Worker \ {w} : UNCHANGED <<pc[v], rows[v], todo[v], question[v]>>
      BY <1>6 DEF Post, Types, TypeOK
    <2>2. \A i \in Incident : Counted(i)'
      BY <1>r, <2>1, ShowCounts
    <2>3. Single'
      BY <1>r, <2>1 DEF Rep, Single, Polling
    <2>4. \A v \in Worker : Part(v)'
      BY <1>r, <2>1 DEF Rep, Part, Polling, InThread
    <2> QED BY <2>2, <2>3, <2>4 DEF Rep
  <1>7. ASSUME NEW w \in Worker, PostFails(w) PROVE Rep'
    <2>1. /\ pc[w] = "post" /\ UNCHANGED seen /\ rows[w] # <<>>
          /\ NextThread(w) \/ Return(w)
      BY <1>7 DEF PostFails, Types, RowInv
    <2>2. Part(w)'
      BY <1>r, <2>1, PartLeaves DEF Polling
    <2>3. CASE UNCHANGED <<thread, unmarked>>
      BY <1>r, <1>l, <2>1, <2>2, <2>3, RepMoves DEF Polling
    <2>4. CASE Show(w) /\ unmarked' = [unmarked EXCEPT ![Head(rows[w]).incident] = @ + 1]
      <3>1. /\ pc'[w] # "mark"
            /\ \A v \in Worker \ {w} : UNCHANGED <<pc[v], rows[v], todo[v], question[v]>>
        BY <1>l, <2>1
      <3>2. \A i \in Incident : Counted(i)'
        BY <1>r, <2>1, <2>4, <3>1, ShowCounts
      <3>3. \A v \in Worker \ {w} : ~Polling(v) /\ ~Polling(v)'
        BY <1>r, <2>1, <3>1 DEF Rep, Single, Polling
      <3>4. Single'
        BY <3>3 DEF Single
      <3>5. \A v \in Worker : Part(v)'
        BY <2>2, <3>3 DEF Part
      <3> QED BY <3>2, <3>4, <3>5 DEF Rep
    <2> QED BY <1>7, <2>3, <2>4 DEF PostFails
  <1>8. ASSUME NEW w \in Worker, Mark(w) PROVE Rep'
    BY <1>r, <1>8, RepMark
  <1>9. ASSUME NEW w \in Worker, Crash(w) PROVE Rep'
    BY <1>r, <1>9, RepCrash
  <1>10. ASSUME NEW w \in Worker, CheckDayForOther(w) \/ SpendForOther(w) PROVE Rep'
    <2>1. /\ pc[w] \in {"idle", "other"} /\ pc'[w] \in {"idle", "other"} /\ UNCHANGED <<thread, seen, unmarked>>
          /\ \A v \in Worker \ {w} : UNCHANGED <<pc[v], rows[v], todo[v], question[v]>>
      BY <1>10 DEF CheckDayForOther, SpendForOther, Types, TypeOK
    <2>2. Part(w)'
      BY <2>1 DEF Part, Polling
    <2> QED BY <1>r, <2>1, <2>2, RepMoves DEF Polling
  <1>11. ASSUME UNCHANGED <<seen, pc, rows, todo, question, unmarked>>,
                \A i \in Incident : AnswersIn(i)' = AnswersIn(i) /\ Answered(i)' = Answered(i)
         PROVE  Rep'
    <2>1. ASSUME NEW i \in Incident PROVE Counted(i)'
      <3>1. \A k : Marking(i, k)' <=> Marking(i, k)
        BY <1>11 DEF Marking
      <3>2. Exposed(i)' = Exposed(i)
        BY <1>11, <3>1 DEF Exposed
      <3> QED BY <1>r, <1>11, <3>2 DEF Rep, Counted
    <2>2. Single' /\ \A v \in Worker : Part(v)'
      BY <1>r, <1>11 DEF Rep, Single, Part, Polling
    <2> QED BY <2>1, <2>2 DEF Rep
  <1>12. ASSUME UNCHANGED <<thread, seen, pc, rows, todo, question, unmarked>> PROVE Rep'
    <2>1. \A i \in Incident : AnswersIn(i)' = AnswersIn(i) /\ Answered(i)' = Answered(i)
      BY <1>12 DEF AnswersIn, Answered
    <2> QED BY <1>11, <1>12, <2>1
  <1>13. ASSUME NEW w \in Worker, Due(w) PROVE Rep'
    BY <1>12, <1>13 DEF Due
  <1>14. ASSUME NEW i \in Incident, BriefIsDelivered(i) PROVE Rep'
    BY <1>12, <1>14 DEF BriefIsDelivered
  <1>15. ASSUME NEW i \in Incident, NEW who \in {"person", "other"}, Write(i, who) PROVE Rep'
    <2>1. \A j \in Incident : AnswersIn(j)' = AnswersIn(j) /\ Answered(j)' = Answered(j)
      BY <1>15, WritesCountNothing
    <2>2. UNCHANGED <<seen, pc, rows, todo, question, unmarked>>
      BY <1>15 DEF Write
    <2> QED BY <1>11, <2>1, <2>2
  <1>16. CASE ThreadCloses \/ NextHour
    BY <1>12, <1>16 DEF ThreadCloses, NextHour
  <1>17. CASE UNCHANGED vars
    BY <1>12, <1>17 DEF vars
  <1> QED
    BY <1>1, <1>2, <1>3, <1>4, <1>5, <1>6, <1>7, <1>8, <1>9, <1>10, <1>13, <1>14, <1>15, <1>16, <1>17
       DEF Next, Step

\* While the idle hooks of the workers do not overlap, an answer is shown again
\* only for a mark that was never written: a post that Slack showed and reported
\* as failed, or a crash between an answer and its mark.  A budget that runs out
\* and a later question that fails repeat nothing.
THEOREM OnlyLostMarksAnswerAgain == Spec => []RepeatsAreExcused
  <1>1. Types /\ RepInv => RepeatsAreExcused
    <2> SUFFICES ASSUME Types, RepInv, ~overlapped, NEW i \in Incident
                 PROVE  Cardinality(AnswersIn(i)) <= Cardinality(Answered(i)) + unmarked[i]
      BY DEF RepeatsAreExcused
    <2>1. Counted(i)
      BY DEF RepInv, Rep
    <2>2. IsFiniteSet(Exposed(i))
      BY <2>1, FS_Subset DEF Counted, Exposed
    <2>3. /\ Cardinality(Exposed(i)) \in Nat /\ Cardinality(AnswersIn(i)) \in Nat
          /\ Cardinality(Answered(i)) \in Nat
      BY <2>1, <2>2, FS_CardinalityType DEF Counted
    <2>4. \A a, e, d \in Nat, u \in Nat : a + e <= d + u => a <= d + u
      OBVIOUS
    <2>5. unmarked[i] \in Nat
      BY DEF Types, TypeOK
    <2> QED BY <2>1, <2>3, <2>4, <2>5 DEF Counted
  <1> QED BY <1>1, TypesInit, TypesNext, SkipInit, SkipNext, RepInit, RepNext, PTL DEF Spec

=============================================================================
