--------------------------- MODULE IndexingProofs ---------------------------
(***************************************************************************)
(* Theorems about Indexing, for any events, workers and topic, any batch   *)
(* size, breaker limit and number of faults and replays, and whether or    *)
(* not handlers keep up.                                                   *)
(***************************************************************************)
EXTENDS Indexing, TLAPS

\* Between poll and the end of the handler a worker has a message in hand.
InHandler == PC \ {"poll", "handled", "commit", "down"}

MessagesOK ==
  \A k \in DOMAIN log :
    /\ log[k].chunks <= MaxChunks
    /\ log[k].kind = "text" => log[k].chunks > 0

HandOK(w) ==
  /\ pc[w] \in InHandler \cup {"handled"} => at[w] > 0
  /\ pc[w] \in {"register", "write", "trim", "complete"} => Msg(w).kind = "text"
  /\ pc[w] = "ensure" => Msg(w).kind \in {"text", "blank"}
  /\ pc[w] = "write" => chunk[w] < Msg(w).chunks

HandInv == MessagesOK /\ \A w \in Worker : HandOK(w)
TypeInv == TypeOK /\ HandInv

LEMMA InitTypeInv == Init => TypeInv
<1>1. Init => KafkaOK
  BY IndexingAssumption DEF Init, KafkaOK
<1>2. Init => IndexOK
  BY IndexingAssumption DEF Init, IndexOK, NoReceipt, Receipt, Whole, Chunks
<1>3. Init => WorkerOK
  BY IndexingAssumption DEF Init, WorkerOK, PC
<1>4. Init => HistoryOK
  <2>1. Init => strayed \in BOOLEAN
    BY DEF Init
  <2>2. Init => indexed = {} /\ faults = 0 /\ replays = 0
    BY DEF Init
  <2>. QED
    BY <2>1, <2>2, IndexingAssumption DEF HistoryOK
<1>5. Init => HandInv
  BY IndexingAssumption DEF Init, HandInv, HandOK, MessagesOK, InHandler, PC, Message
<1>. QED
  BY <1>1, <1>2, <1>3, <1>4, <1>5 DEF TypeInv, TypeOK

LEMMA MsgInHand ==
  ASSUME TypeInv, NEW w \in Worker, pc[w] \in InHandler \cup {"handled"}
  PROVE  /\ at[w] \in DOMAIN log
         /\ Msg(w).event \in Event
         /\ Msg(w).version \in Nat
         /\ Msg(w).chunks \in 0 .. MaxChunks
<1>1. at[w] \in 1 .. Len(log) /\ log \in Seq(Message)
  BY DEF TypeInv, TypeOK, HandInv, HandOK, WorkerOK, KafkaOK
<1>2. at[w] \in DOMAIN log /\ log[at[w]] \in Message /\ log[at[w]].chunks <= MaxChunks
  BY <1>1 DEF TypeInv, HandInv, MessagesOK
<1>. QED
  BY <1>2, IndexingAssumption DEF Msg, Message

\* A process that ends is well typed.
LEMMA DieType ==
  ASSUME TypeInv, NEW w \in Worker, Die(w), UNCHANGED log
  PROVE  WorkerOK' /\ \A v \in Worker : HandOK(v)'
<1>. USE DEF TypeInv, TypeOK, HandInv, Die, Goto
<1>1. 0 \in 0 .. Len(log) /\ 0 \in 0 .. MaxChunks
  BY IndexingAssumption DEF KafkaOK
<1>2. WorkerOK'
  BY <1>1 DEF WorkerOK, PC
<1>3. ASSUME NEW v \in Worker PROVE HandOK(v)'
  BY DEF HandOK, WorkerOK, PC, InHandler, Msg
<1>. QED
  BY <1>2, <1>3

LEMMA ReceiveType == ASSUME TypeInv, NEW w \in Worker, Receive(w) PROVE TypeInv'
<1>. USE DEF Receive, Goto, kafka, db, loop, ghost, bounds
<1>. USE DEF TypeInv, TypeOK, HandInv
<1>1. KafkaOK'
  BY DEF KafkaOK, WorkerOK, HandOK, InHandler, PC
<1>2. IndexOK'
  BY DEF IndexOK, KafkaOK, WorkerOK, HandOK, InHandler, PC, Msg, Message, Receipt, Chunks
<1>3. WorkerOK'
<2>1. at[w] + 1 \in 0 .. Len(log)
    BY DEF WorkerOK, KafkaOK
  <2>. QED
    BY <2>1 DEF WorkerOK, PC
<1>4. HistoryOK'
  BY DEF KafkaOK, WorkerOK, HistoryOK, HandOK, InHandler, PC
<1>5. MessagesOK'
  BY DEF MessagesOK
<1>6. ASSUME NEW v \in Worker PROVE HandOK(v)'
  BY SMTT(30) DEF KafkaOK, WorkerOK, HandOK, MessagesOK, InHandler, PC, Msg, Message
<1>. QED
  BY <1>1, <1>2, <1>3, <1>4, <1>5, <1>6

LEMMA IdleType == ASSUME TypeInv, NEW w \in Worker, Idle(w) PROVE TypeInv'
<1>. USE DEF Idle, Goto, kafka, db, loop, ghost, bounds
<1>. USE DEF TypeInv, TypeOK, HandInv
<1>1. KafkaOK'
  BY DEF KafkaOK, WorkerOK, HandOK, InHandler, PC
<1>2. IndexOK'
  BY DEF IndexOK, KafkaOK, WorkerOK, HandOK, InHandler, PC, Msg, Message, Receipt, Chunks
<1>3. WorkerOK'
  BY IndexingAssumption DEF KafkaOK, WorkerOK, HandOK, MessagesOK, InHandler, PC, Msg, Message
<1>4. HistoryOK'
  BY DEF KafkaOK, WorkerOK, HistoryOK, HandOK, InHandler, PC
<1>5. MessagesOK'
  BY DEF MessagesOK
<1>6. ASSUME NEW v \in Worker PROVE HandOK(v)'
  BY DEF KafkaOK, WorkerOK, HandOK, MessagesOK, InHandler, PC, Msg, Message
<1>. QED
  BY <1>1, <1>2, <1>3, <1>4, <1>5, <1>6

LEMMA HandledType == ASSUME TypeInv, NEW w \in Worker, Handled(w) PROVE TypeInv'
<1>. USE DEF Handled, Goto, kafka, db, loop, ghost, bounds
<1>. USE DEF TypeInv, TypeOK, HandInv
<1>1. KafkaOK'
  BY DEF KafkaOK, WorkerOK, HandOK, InHandler, PC
<1>2. IndexOK'
  BY DEF IndexOK, KafkaOK, WorkerOK, HandOK, InHandler, PC, Msg, Message, Receipt, Chunks
<1>3. WorkerOK'
<2>1. since[w] + 1 \in Nat /\ at[w] \in 0 .. Len(log)
    BY DEF WorkerOK
  <2>2. IF since[w] + 1 >= CommitEvery THEN pc' = [pc EXCEPT ![w] = "commit"]
                                       ELSE pc' = [pc EXCEPT ![w] = "poll"]
    OBVIOUS
  <2>. QED
    BY <2>1, <2>2 DEF WorkerOK, PC
<1>4. HistoryOK'
  BY DEF KafkaOK, WorkerOK, HistoryOK, HandOK, InHandler, PC
<1>5. MessagesOK'
  BY DEF MessagesOK
<1>6. ASSUME NEW v \in Worker PROVE HandOK(v)'
  BY DEF KafkaOK, WorkerOK, HandOK, MessagesOK, InHandler, PC, Msg, Message
<1>. QED
  BY <1>1, <1>2, <1>3, <1>4, <1>5, <1>6

LEMMA CommitType == ASSUME TypeInv, NEW w \in Worker, Commit(w) PROVE TypeInv'
<1>. USE DEF TypeInv, TypeOK, HandInv
<1>. DEFINE Accepted == /\ ~fenced[w]
                       /\ committed' = done[w]
                       /\ done' = [done EXCEPT ![w] = 0]
                       /\ since' = [since EXCEPT ![w] = 0]
                       /\ Goto(w, "poll")
                       /\ UNCHANGED <<at, streak, chunk>>
            Refused == (fenced[w] \/ owner # w) /\ Die(w) /\ UNCHANGED committed
<1>1. /\ UNCHANGED <<log, owner, fenced, dlq, rows, receipt, listed, indexed, faults, replays>>
      /\ strayed' \in BOOLEAN
  BY DEF Commit, db, ghost, bounds, TypeInv, TypeOK, HistoryOK
<1>2. MessagesOK' /\ IndexOK'
  BY <1>1 DEF MessagesOK, IndexOK
<1>3. CASE Accepted
  <2>1. KafkaOK'
    BY <1>1, <1>3 DEF KafkaOK, WorkerOK
  <2>2. WorkerOK'
    BY <1>1, <1>3 DEF WorkerOK, KafkaOK, Goto, PC
  <2>3. HistoryOK'
    BY <1>1, <1>3 DEF HistoryOK
  <2>4. ASSUME NEW v \in Worker PROVE HandOK(v)'
    BY <1>1, <1>3 DEF HandOK, WorkerOK, Goto, Msg, InHandler, PC
  <2>. QED
    BY <1>2, <2>1, <2>2, <2>3, <2>4
<1>4. CASE Refused
  BY <1>1, <1>2, <1>4, DieType DEF KafkaOK, HistoryOK
<1>. QED
  BY <1>3, <1>4 DEF Commit

LEMMA RestartType == ASSUME TypeInv, NEW w \in Worker, Restart(w) PROVE TypeInv'
<1>. USE DEF Restart, Goto, kafka, db, loop, ghost, bounds
<1>. USE DEF TypeInv, TypeOK, HandInv
<1>1. KafkaOK'
  BY DEF KafkaOK, WorkerOK, HandOK, InHandler, PC
<1>2. IndexOK'
  BY DEF IndexOK, KafkaOK, WorkerOK, HandOK, InHandler, PC, Msg, Message, Receipt, Chunks
<1>3. WorkerOK'
  BY IndexingAssumption DEF KafkaOK, WorkerOK, HandOK, MessagesOK, InHandler, PC, Msg, Message
<1>4. HistoryOK'
  BY DEF KafkaOK, WorkerOK, HistoryOK, HandOK, InHandler, PC
<1>5. MessagesOK'
  BY DEF MessagesOK
<1>6. ASSUME NEW v \in Worker PROVE HandOK(v)'
  BY DEF KafkaOK, WorkerOK, HandOK, MessagesOK, InHandler, PC, Msg, Message
<1>. QED
  BY <1>1, <1>2, <1>3, <1>4, <1>5, <1>6

LEMMA ParseType == ASSUME TypeInv, NEW w \in Worker, Parse(w) PROVE TypeInv'
<1>. USE DEF Parse, Goto, kafka, db, loop, ghost, bounds
<1>. USE DEF TypeInv, TypeOK, HandInv
<1>1. KafkaOK'
  BY DEF KafkaOK, WorkerOK, HandOK, InHandler, PC
<1>2. IndexOK'
  BY DEF IndexOK, KafkaOK, WorkerOK, HandOK, InHandler, PC, Msg, Message, Receipt, Chunks
<1>3. WorkerOK'
  BY IndexingAssumption DEF KafkaOK, WorkerOK, HandOK, MessagesOK, InHandler, PC, Msg, Message
<1>4. HistoryOK'
  BY DEF KafkaOK, WorkerOK, HistoryOK, HandOK, InHandler, PC
<1>5. MessagesOK'
  BY DEF MessagesOK
<1>6. ASSUME NEW v \in Worker PROVE HandOK(v)'
  BY DEF KafkaOK, WorkerOK, HandOK, MessagesOK, InHandler, PC, Msg, Message
<1>. QED
  BY <1>1, <1>2, <1>3, <1>4, <1>5, <1>6

LEMMA EncodeType == ASSUME TypeInv, NEW w \in Worker, Encode(w) PROVE TypeInv'
<1>. USE DEF Encode, Goto, kafka, db, loop, ghost, bounds
<1>. USE DEF TypeInv, TypeOK, HandInv
<1>1. KafkaOK'
  BY DEF KafkaOK, WorkerOK, HandOK, InHandler, PC
<1>2. IndexOK'
  BY DEF IndexOK, KafkaOK, WorkerOK, HandOK, InHandler, PC, Msg, Message, Receipt, Chunks
<1>3. WorkerOK'
  BY IndexingAssumption DEF KafkaOK, WorkerOK, HandOK, MessagesOK, InHandler, PC, Msg, Message
<1>4. HistoryOK'
  BY DEF KafkaOK, WorkerOK, HistoryOK, HandOK, InHandler, PC
<1>5. MessagesOK'
  BY DEF MessagesOK
<1>6. ASSUME NEW v \in Worker PROVE HandOK(v)'
  BY DEF KafkaOK, WorkerOK, HandOK, MessagesOK, InHandler, PC, Msg, Message
<1>. QED
  BY <1>1, <1>2, <1>3, <1>4, <1>5, <1>6

LEMMA EncodeFailsType == ASSUME TypeInv, NEW w \in Worker, EncodeFails(w) PROVE TypeInv'
<1>. USE DEF TypeInv, TypeOK, HandInv
<1>1. /\ UNCHANGED <<log, committed, owner, fenced, dlq, rows, receipt, listed, at, done, since,
                    streak, chunk, indexed, strayed>>
      /\ pc[w] = "encode" /\ Goto(w, "deadletter")
      /\ UNCHANGED <<faults, replays>> \/ Fault
  BY DEF EncodeFails, kafka, db, loop, ghost, bounds
<1>2. KafkaOK' /\ IndexOK' /\ MessagesOK'
  BY <1>1 DEF KafkaOK, IndexOK, MessagesOK
<1>3. WorkerOK'
  BY <1>1 DEF WorkerOK, Goto, PC
<1>4. HistoryOK'
  BY <1>1, IndexingAssumption DEF HistoryOK, Fault
<1>5. ASSUME NEW v \in Worker PROVE HandOK(v)'
  BY <1>1 DEF HandOK, WorkerOK, Goto, Msg, InHandler, PC
<1>. QED
  BY <1>2, <1>3, <1>4, <1>5

LEMMA DeadLetterType == ASSUME TypeInv, NEW w \in Worker, DeadLetter(w) PROVE TypeInv'
<1>. DEFINE count == IF Msg(w).kind = "junk" THEN 0 ELSE streak[w] + 1
<1>1. at[w] \in DOMAIN log
  BY MsgInHand DEF DeadLetter, InHandler, PC
<1>. USE DEF TypeInv, TypeOK, HandInv
<1>2. /\ UNCHANGED <<log, committed, owner, fenced, rows, receipt, listed, indexed, strayed, faults, replays>>
      /\ dlq' = dlq \cup {at[w]}
  BY DEF DeadLetter, db, ghost, bounds
<1>3. MessagesOK' /\ IndexOK' /\ KafkaOK'
  BY <1>1, <1>2 DEF MessagesOK, IndexOK, KafkaOK
<1>4. CASE count >= MaxStreak
  <2>1. Die(w)
    BY <1>4 DEF DeadLetter
  <2>. QED
    BY <1>2, <1>3, <2>1, DieType DEF HistoryOK
<1>5. CASE ~(count >= MaxStreak)
  <2>1. /\ streak' = [streak EXCEPT ![w] = count]
        /\ Goto(w, "handled")
        /\ UNCHANGED <<at, done, since, chunk>>
    BY <1>5 DEF DeadLetter, loop
  <2>2. count \in Nat
    BY DEF WorkerOK
  <2>. HIDE DEF count
  <2>3. WorkerOK'
    BY <1>2, <2>1, <2>2 DEF WorkerOK, Goto, PC
  <2>4. HistoryOK'
    BY <1>2, <2>1 DEF HistoryOK
  <2>5. ASSUME NEW v \in Worker PROVE HandOK(v)'
    BY SMTT(30), <1>1, <1>2, <2>1 DEF HandOK, WorkerOK, KafkaOK, Goto, Msg, InHandler, PC
  <2>. QED
    BY <1>3, <2>3, <2>4, <2>5
<1>. QED
  BY <1>4, <1>5

LEMMA RegisterType == ASSUME TypeInv, NEW w \in Worker, Register(w) PROVE TypeInv'
<1>. USE DEF Register, Goto, kafka, db, loop, ghost, bounds
<1>0. at[w] \in DOMAIN log /\ Msg(w).event \in Event /\ Msg(w).version \in Nat
      /\ Msg(w).chunks \in 0 .. MaxChunks
  BY MsgInHand DEF InHandler, PC
<1>. USE DEF TypeInv, TypeOK, HandInv
<1>1. KafkaOK'
  BY DEF KafkaOK, WorkerOK, HandOK, InHandler, PC
<1>2. IndexOK'
<2>. DEFINE e == Msg(w).event
  <2>1. receipt[e] \in Receipt
    BY <1>0 DEF IndexOK
  <2>2. receipt' \in [Event -> Receipt]
    <3>1. CASE receipt[e].registered
      BY <3>1 DEF IndexOK
    <3>2. CASE ~receipt[e].registered
      <4>1. receipt' = [receipt EXCEPT ![e] =
                 [receipt[e] EXCEPT !.registered = TRUE, !.observed = rows[e] = Whole(0, 0)]]
        BY <1>0, <3>2 DEF IndexOK, Receipt
      <4>2. [receipt[e] EXCEPT !.registered = TRUE, !.observed = rows[e] = Whole(0, 0)] \in Receipt
        BY <2>1 DEF Receipt
      <4>. QED
        BY <1>0, <4>1, <4>2 DEF IndexOK
    <3>. QED
      BY <3>1, <3>2
  <2>. QED
    BY <2>2 DEF IndexOK
<1>3. WorkerOK'
  BY IndexingAssumption DEF WorkerOK, PC
<1>4. HistoryOK'
  BY DEF KafkaOK, WorkerOK, HistoryOK, HandOK, InHandler, PC
<1>5. MessagesOK'
  BY DEF MessagesOK
<1>6. ASSUME NEW v \in Worker PROVE HandOK(v)'
<2>1. pc[w] = "register" /\ Msg(w).kind = "text" /\ 0 < Msg(w).chunks
    BY <1>0, IndexingAssumption DEF HandOK, MessagesOK, Msg, KafkaOK
  <2>. QED
    BY <1>0, <2>1 DEF HandOK, WorkerOK, PC, InHandler, Msg
<1>. QED
  BY <1>1, <1>2, <1>3, <1>4, <1>5, <1>6

LEMMA WriteType == ASSUME TypeInv, NEW w \in Worker, Write(w) PROVE TypeInv'
<1>. USE DEF Write, Goto, kafka, db, loop, ghost, bounds
<1>0. at[w] \in DOMAIN log /\ Msg(w).event \in Event /\ Msg(w).version \in Nat
      /\ Msg(w).chunks \in 0 .. MaxChunks
  BY MsgInHand DEF InHandler, PC
<1>. USE DEF TypeInv, TypeOK, HandInv
<1>1. KafkaOK'
  BY DEF KafkaOK, WorkerOK, HandOK, InHandler, PC
<1>2. IndexOK'
<2>1. chunk[w] + 1 \in Chunks
    BY <1>0, IndexingAssumption DEF HandOK, WorkerOK, Chunks
  <2>2. rows' \in [Event -> [Chunks -> Nat]]
    BY <1>0, <2>1 DEF IndexOK
  <2>. QED
    BY <2>2 DEF IndexOK
<1>3. WorkerOK'
<2>1. chunk[w] + 1 \in 0 .. MaxChunks
    BY <1>0, IndexingAssumption DEF HandOK, WorkerOK
  <2>2. pc' = [pc EXCEPT ![w] = "trim"] \/ pc' = [pc EXCEPT ![w] = "write"]
    OBVIOUS
  <2>. QED
    BY <2>1, <2>2 DEF WorkerOK, PC
<1>4. HistoryOK'
  BY DEF KafkaOK, WorkerOK, HistoryOK, HandOK, InHandler, PC
<1>5. MessagesOK'
  BY DEF MessagesOK
<1>6. ASSUME NEW v \in Worker PROVE HandOK(v)'
<2>1. /\ chunk[w] \in Nat /\ chunk[w] < Msg(w).chunks
        /\ Msg(w).kind = "text" /\ at[w] > 0
        /\ pc' = [pc EXCEPT ![w] = IF chunk[w] + 1 = Msg(w).chunks THEN "trim" ELSE "write"]
        /\ chunk' = [chunk EXCEPT ![w] = chunk[w] + 1]
        /\ UNCHANGED <<at, log>>
    BY SMTT(30), <1>0, IndexingAssumption DEF HandOK, WorkerOK, InHandler, PC
  <2>2. Msg(w)' = Msg(w) /\ Msg(v)' = Msg(v)
    BY <2>1 DEF Msg
  <2>3. CASE v = w
    BY <1>0, <2>1, <2>2, <2>3 DEF HandOK, WorkerOK
  <2>4. CASE v # w
    BY <2>1, <2>2, <2>4 DEF HandOK, WorkerOK
  <2>. QED
    BY <2>3, <2>4
<1>. QED
  BY <1>1, <1>2, <1>3, <1>4, <1>5, <1>6

LEMMA TrimType == ASSUME TypeInv, NEW w \in Worker, Trim(w) PROVE TypeInv'
<1>. USE DEF Trim, Goto, kafka, db, loop, ghost, bounds
<1>. USE DEF TypeInv, TypeOK, HandInv
<1>1. KafkaOK'
  BY DEF KafkaOK, WorkerOK, HandOK, InHandler, PC
<1>2. IndexOK'
  BY DEF IndexOK, KafkaOK, WorkerOK, HandOK, InHandler, PC, Msg, Message, Receipt, Chunks
<1>3. WorkerOK'
  BY IndexingAssumption DEF KafkaOK, WorkerOK, HandOK, MessagesOK, InHandler, PC, Msg, Message
<1>4. HistoryOK'
  BY DEF KafkaOK, WorkerOK, HistoryOK, HandOK, InHandler, PC
<1>5. MessagesOK'
  BY DEF MessagesOK
<1>6. ASSUME NEW v \in Worker PROVE HandOK(v)'
  BY DEF KafkaOK, WorkerOK, HandOK, MessagesOK, InHandler, PC, Msg, Message
<1>. QED
  BY <1>1, <1>2, <1>3, <1>4, <1>5, <1>6

LEMMA EnsureType == ASSUME TypeInv, NEW w \in Worker, Ensure(w) PROVE TypeInv'
<1>. USE DEF Ensure, Goto, kafka, db, loop, ghost, bounds
<1>0. at[w] \in DOMAIN log /\ Msg(w).event \in Event /\ Msg(w).version \in Nat
      /\ Msg(w).chunks \in 0 .. MaxChunks
  BY MsgInHand DEF InHandler, PC
<1>. USE DEF TypeInv, TypeOK, HandInv
<1>1. KafkaOK'
  BY DEF KafkaOK, WorkerOK, HandOK, InHandler, PC
<1>2. IndexOK'
<2>1. listed' \subseteq Event
    BY <1>0 DEF IndexOK
  <2>. QED
    BY <2>1 DEF IndexOK
<1>3. WorkerOK'
  BY IndexingAssumption DEF KafkaOK, WorkerOK, HandOK, MessagesOK, InHandler, PC, Msg, Message
<1>4. HistoryOK'
  BY DEF KafkaOK, WorkerOK, HistoryOK, HandOK, InHandler, PC
<1>5. MessagesOK'
  BY DEF MessagesOK
<1>6. ASSUME NEW v \in Worker PROVE HandOK(v)'
<2>1. /\ at[w] > 0
        /\ pc' = [pc EXCEPT ![w] = IF Msg(w).kind = "blank" THEN "handled" ELSE "complete"]
        /\ UNCHANGED <<at, log, chunk>>
    BY DEF HandOK, InHandler, PC
  <2>2. Msg(v)' = Msg(v)
    BY <2>1 DEF Msg
  <2>. QED
    BY <2>1, <2>2 DEF HandOK, WorkerOK, InHandler, PC
<1>. QED
  BY <1>1, <1>2, <1>3, <1>4, <1>5, <1>6

LEMMA CompleteType == ASSUME TypeInv, NEW w \in Worker, Complete(w) PROVE TypeInv'
<1>. USE DEF Complete, Goto, kafka, db, loop, ghost, bounds
<1>0. at[w] \in DOMAIN log /\ Msg(w).event \in Event /\ Msg(w).version \in Nat
      /\ Msg(w).chunks \in 0 .. MaxChunks
  BY MsgInHand DEF InHandler, PC
<1>. USE DEF TypeInv, TypeOK, HandInv
<1>1. KafkaOK'
  BY DEF KafkaOK, WorkerOK, HandOK, InHandler, PC
<1>2. IndexOK'
<2>. DEFINE e == Msg(w).event
            v == Msg(w).version
            r == [receipt[e] EXCEPT !.first = IF receipt[e].observed /\ @ = 0 THEN v ELSE @,
                                   !.last = v]
  <2>1. receipt[e] \in Receipt
    BY <1>0 DEF IndexOK
  <2>2. r \in Receipt
    BY <1>0, <2>1 DEF Receipt
  <2>3. receipt' = [receipt EXCEPT ![e] = r]
    BY <1>0 DEF IndexOK, Receipt
  <2>4. receipt' \in [Event -> Receipt]
    BY <1>0, <2>2, <2>3 DEF IndexOK
  <2>. QED
    BY <2>4 DEF IndexOK
<1>3. WorkerOK'
  BY IndexingAssumption DEF KafkaOK, WorkerOK, HandOK, MessagesOK, InHandler, PC, Msg, Message
<1>4. HistoryOK'
  BY <1>0 DEF HistoryOK
<1>5. MessagesOK'
  BY DEF MessagesOK
<1>6. ASSUME NEW v \in Worker PROVE HandOK(v)'
  BY DEF KafkaOK, WorkerOK, HandOK, MessagesOK, InHandler, PC, Msg, Message
<1>. QED
  BY <1>1, <1>2, <1>3, <1>4, <1>5, <1>6

LEMMA CrashType == ASSUME TypeInv, NEW w \in Worker, Crash(w) PROVE TypeInv'
<1>1. dlq' \subseteq DOMAIN log
  BY MsgInHand DEF Crash, InHandler, PC, TypeInv, TypeOK, KafkaOK
<1>. USE DEF TypeInv, TypeOK, HandInv
<1>2. /\ UNCHANGED <<log, committed, owner, fenced, rows, receipt, listed, indexed, strayed>>
      /\ Die(w) /\ Fault
  BY DEF Crash, db, ghost
<1>3. KafkaOK' /\ IndexOK' /\ MessagesOK'
  BY <1>1, <1>2 DEF KafkaOK, IndexOK, MessagesOK
<1>4. WorkerOK' /\ (\A v \in Worker : HandOK(v)')
  BY <1>2, DieType
<1>5. HistoryOK'
  BY <1>2, <1>4, IndexingAssumption DEF HistoryOK, Fault
<1>. QED
  BY <1>3, <1>4, <1>5

LEMMA RebalanceType == ASSUME TypeInv, NEW w \in Worker, Rebalance(w) PROVE TypeInv'
<1>. USE DEF Rebalance, Fault, Goto, kafka, db, loop, ghost, bounds
<1>. USE DEF TypeInv, TypeOK, HandInv
<1>1. KafkaOK'
  BY DEF KafkaOK, WorkerOK, HandOK, InHandler, PC
<1>2. IndexOK'
  BY DEF IndexOK, KafkaOK, WorkerOK, HandOK, InHandler, PC, Msg, Message, Receipt, Chunks
<1>3. WorkerOK'
  BY IndexingAssumption DEF KafkaOK, WorkerOK, HandOK, MessagesOK, InHandler, PC, Msg, Message
<1>4. HistoryOK'
  BY IndexingAssumption DEF HistoryOK
<1>5. MessagesOK'
  BY DEF MessagesOK
<1>6. ASSUME NEW v \in Worker PROVE HandOK(v)'
  BY DEF KafkaOK, WorkerOK, HandOK, MessagesOK, InHandler, PC, Msg, Message
<1>. QED
  BY <1>1, <1>2, <1>3, <1>4, <1>5, <1>6

LEMMA ReplayType == ASSUME TypeInv, NEW k \in dlq, Replay(k) PROVE TypeInv'
<1>. USE DEF TypeInv, TypeOK, HandInv
<1>1. log \in Seq(Message) /\ k \in DOMAIN log /\ log[k] \in Message
  BY DEF KafkaOK
<1>2. /\ log' = Append(log, log[k]) /\ replays' = replays + 1 /\ replays < MaxReplays
      /\ UNCHANGED <<committed, owner, fenced, dlq, rows, receipt, listed, pc, at, done, since,
                    streak, chunk, indexed, strayed, faults>>
  BY DEF Replay, db, loop, ghost
<1>3. /\ log' \in Seq(Message) /\ Len(log') = Len(log) + 1
      /\ \A j \in DOMAIN log : j \in DOMAIN log' /\ log'[j] = log[j]
      /\ \A j \in DOMAIN log' : j \in DOMAIN log \/ log'[j] = log[k]
  BY <1>1, <1>2
<1>4. KafkaOK'
  BY <1>2, <1>3 DEF KafkaOK
<1>5. IndexOK' /\ WorkerOK' /\ HistoryOK'
  BY <1>1, <1>2, <1>3, IndexingAssumption DEF IndexOK, WorkerOK, HistoryOK
<1>6. MessagesOK'
  BY <1>1, <1>3 DEF MessagesOK
<1>7. ASSUME NEW w \in Worker PROVE HandOK(w)'
  <2>1. pc[w] \in InHandler \cup {"handled"} => Msg(w)' = Msg(w)
    BY <1>2, <1>3, MsgInHand DEF Msg
  <2>. QED
    BY <1>2, <2>1 DEF HandOK, InHandler, PC
<1>. QED
  BY <1>4, <1>5, <1>6, <1>7

LEMMA StutterType == ASSUME TypeInv, UNCHANGED vars PROVE TypeInv'
BY DEF vars, kafka, db, loop, ghost, bounds, TypeInv, TypeOK, KafkaOK, IndexOK, WorkerOK, HistoryOK,
   HandInv, HandOK, MessagesOK, Msg

LEMMA NextTypeInv == ASSUME TypeInv, [Next]_vars PROVE TypeInv'
<1>1. ASSUME NEW w \in Worker, Step(w) PROVE TypeInv'
  BY <1>1, ReceiveType, IdleType, HandledType, CommitType, RestartType, ParseType, EncodeType,
     DeadLetterType, RegisterType, WriteType, TrimType, EnsureType, CompleteType DEF Step
<1>2. ASSUME NEW w \in Worker, EncodeFails(w) \/ Crash(w) \/ Rebalance(w) PROVE TypeInv'
  BY <1>2, EncodeFailsType, CrashType, RebalanceType
<1>. QED
  BY <1>1, <1>2, ReplayType, StutterType DEF Next

\* Whatever workers, crashes, rebalances and replays do, every variable keeps its
\* type, and a worker in the middle of handle() has a message of the topic in
\* hand, of the kind its position in the handler implies.
THEOREM IndexingTypes == Spec => [](TypeOK /\ HandInv)
<1>1. TypeInv <=> TypeOK /\ HandInv
  BY DEF TypeInv
<1>. QED
  BY <1>1, InitTypeInv, NextTypeInv, PTL DEF Spec

----------------------------------------------------------------------------
(***************************************************************************)
(* "Redelivery, never loss".  CommittedIsKept is not inductive: a commit   *)
(* moves to done[w], so everything up to a batch must be kept already, and *)
(* so must everything before the message a worker has in hand.             *)
(***************************************************************************)
Prefix(n) == \A k \in 1 .. n : Kept(k)

\* The offsets a worker has dealt with.
Behind(w) == IF pc[w] \in InHandler THEN at[w] - 1 ELSE at[w]

KeptInv ==
  /\ Prefix(committed)
  /\ \A w \in Worker : Prefix(done[w]) /\ Prefix(Behind(w))

\* What is kept stays kept: all three records only grow.
LEMMA KeptStays ==
  ASSUME TypeInv, dlq \subseteq dlq', indexed \subseteq indexed', listed \subseteq listed',
         NEW n \in 0 .. Len(log), Prefix(n),
         \A k \in 1 .. Len(log) : log'[k] = log[k]
  PROVE  Prefix(n)'
<1>. SUFFICES ASSUME NEW k \in 1 .. n PROVE Kept(k)'
  BY DEF Prefix
<1>1. Kept(k) /\ log'[k] = log[k]
  BY DEF Prefix, TypeInv, TypeOK, KafkaOK
<1>. QED
  BY <1>1 DEF Kept

LEMMA RecordsGrow ==
  ASSUME TypeInv, [Next]_vars
  PROVE  /\ dlq \subseteq dlq' /\ indexed \subseteq indexed' /\ listed \subseteq listed'
         /\ \A k \in 1 .. Len(log) : log'[k] = log[k]
<1>1. ASSUME NEW w \in Worker, Step(w) \/ EncodeFails(w) \/ Crash(w) \/ Rebalance(w)
      PROVE  /\ dlq \subseteq dlq' /\ indexed \subseteq indexed' /\ listed \subseteq listed'
             /\ log' = log
  BY <1>1 DEF Step, Receive, Idle, Handled, Commit, Restart, Parse, Encode, DeadLetter, Register,
     Write, Trim, Ensure, Complete, EncodeFails, Crash, Rebalance, kafka, db, ghost
<1>2. ASSUME NEW k \in dlq, Replay(k)
      PROVE  /\ dlq \subseteq dlq' /\ indexed \subseteq indexed' /\ listed \subseteq listed'
             /\ \A j \in 1 .. Len(log) : log'[j] = log[j]
  BY <1>2 DEF Replay, db, ghost, TypeInv, TypeOK, KafkaOK
<1>3. CASE UNCHANGED vars
  BY <1>3 DEF vars, kafka, db, ghost
<1>. QED
  BY <1>1, <1>2, <1>3 DEF Next

\* The offsets a step may use without further work: those kept before it.
LEMMA OldPrefixes ==
  ASSUME TypeInv, KeptInv, [Next]_vars
  PROVE  \A n : n = 0 \/ n = committed \/ (\E w \in Worker : n \in {done[w], Behind(w)}) =>
                 \A k \in 1 .. n : Kept(k)'
<1>1. ASSUME NEW n \in 0 .. Len(log), Prefix(n) PROVE \A k \in 1 .. n : Kept(k)'
  BY <1>1, RecordsGrow, KeptStays DEF Prefix
<1>2. committed \in 0 .. Len(log) /\ 0 \in 0 .. Len(log) /\ Prefix(0)
  BY DEF TypeInv, TypeOK, KafkaOK, Prefix
<1>3. \A w \in Worker : done[w] \in 0 .. Len(log) /\ Behind(w) \in 0 .. Len(log)
  BY DEF TypeInv, TypeOK, WorkerOK, KafkaOK, HandInv, HandOK, Behind
<1>. QED
  BY <1>1, <1>2, <1>3 DEF KeptInv

\* A step of w leaves what the other workers have dealt with alone.
LEMMA KeptByOthers ==
  ASSUME TypeInv, KeptInv, [Next]_vars, NEW w \in Worker,
         \A v \in Worker \ {w} : pc'[v] = pc[v] /\ at'[v] = at[v] /\ done'[v] = done[v],
         Prefix(committed)', Prefix(done[w])', Prefix(Behind(w))'
  PROVE  KeptInv'
<1>1. ASSUME NEW v \in Worker \ {w} PROVE Prefix(done[v])' /\ Prefix(Behind(v))'
  BY <1>1, OldPrefixes DEF Prefix, Behind
<1>. QED
  BY <1>1 DEF KeptInv

LEMMA OthersStay ==
  ASSUME TypeInv, NEW w \in Worker, Step(w) \/ EncodeFails(w) \/ Crash(w) \/ Rebalance(w)
  PROVE  \A v \in Worker \ {w} : pc'[v] = pc[v] /\ at'[v] = at[v] /\ done'[v] = done[v]
BY DEF Step, Receive, Idle, Handled, Commit, Restart, Parse, Encode, DeadLetter, Register, Write,
   Trim, Ensure, Complete, EncodeFails, Crash, Rebalance, loop, Die, Goto, TypeInv, TypeOK, WorkerOK

LEMMA KeptDie ==
  ASSUME TypeInv, KeptInv, [Next]_vars, NEW w \in Worker, Die(w)
  PROVE  Prefix(done[w])' /\ Prefix(Behind(w))'
BY DEF Die, Goto, Prefix, Behind, InHandler, PC, TypeInv, TypeOK, WorkerOK

\* The message in hand joins what is behind the worker once it is kept.
LEMMA KeptHandled ==
  ASSUME TypeInv, KeptInv, [Next]_vars, NEW w \in Worker, pc[w] \in InHandler,
         UNCHANGED at, Kept(at[w])', pc'[w] = "handled"
  PROVE  Prefix(Behind(w))'
<1>1. at[w] \in Nat /\ at[w] > 0 /\ Behind(w) = at[w] - 1
  BY DEF TypeInv, TypeOK, WorkerOK, KafkaOK, HandInv, HandOK, Behind
<1>2. \A k \in 1 .. at[w] - 1 : Kept(k)'
  BY <1>1, OldPrefixes
<1>3. Behind(w)' = at[w]
  BY DEF Behind, InHandler
<1>4. \A k \in 1 .. at[w] : Kept(k)'
  BY <1>1, <1>2
<1>. QED
  BY <1>3, <1>4 DEF Prefix

LEMMA KeptNext == ASSUME TypeInv, KeptInv, [Next]_vars PROVE KeptInv'
<1>1. ASSUME NEW w \in Worker, Step(w) \/ EncodeFails(w) \/ Crash(w) \/ Rebalance(w)
      PROVE  Prefix(committed)' /\ Prefix(done[w])' /\ Prefix(Behind(w))'
  <2>. USE DEF TypeInv, TypeOK, WorkerOK
  <2>1. CASE Receive(w) \/ Idle(w)
    <3>1. UNCHANGED <<committed, done>> /\ Behind(w)' = Behind(w)
      <4>1. CASE Receive(w)
        <5>1. /\ pc[w] = "poll" /\ pc'[w] = "parse" /\ at'[w] = at[w] + 1 /\ at[w] \in Nat
              /\ UNCHANGED <<committed, done>>
          BY <4>1 DEF Receive, Goto, KafkaOK
        <5>. QED
          BY <5>1 DEF Behind, InHandler, PC
      <4>2. CASE Idle(w)
        BY <4>2 DEF Idle, Behind, Goto, InHandler, PC, loop
      <4>. QED
        BY <2>1, <4>1, <4>2
    <3>. QED
      BY <3>1, OldPrefixes DEF Prefix
  <2>2. CASE \/ Parse(w) \/ Encode(w) \/ EncodeFails(w)
             \/ Register(w) \/ Write(w) \/ Trim(w)
    <3>1. UNCHANGED <<committed, done, at>> /\ pc[w] \in InHandler
      BY <2>2 DEF Parse, Encode, EncodeFails, Register, Write, Trim, InHandler, PC, kafka, loop
    <3>2. ASSUME Parse(w) PROVE pc'[w] \in InHandler
      <4>1. \/ pc' = [pc EXCEPT ![w] = "deadletter"]
            \/ pc' = [pc EXCEPT ![w] = "ensure"]
            \/ pc' = [pc EXCEPT ![w] = "encode"]
        BY <3>2 DEF Parse, Goto
      <4>. QED
        BY <4>1 DEF InHandler, PC
    <3>3. ASSUME Write(w) PROVE pc'[w] \in InHandler
      <4>1. pc' = [pc EXCEPT ![w] = "trim"] \/ pc' = [pc EXCEPT ![w] = "write"]
        BY <3>3 DEF Write, Goto
      <4>. QED
        BY <4>1 DEF InHandler, PC
    <3>4. pc'[w] \in InHandler
      BY <2>2, <3>2, <3>3 DEF Encode, EncodeFails, Register, Trim, Goto, InHandler, PC
    <3>. QED
      BY <3>1, <3>4, OldPrefixes DEF Prefix, Behind
  <2>3. CASE Handled(w)
    <3>1. UNCHANGED committed /\ done'[w] = Behind(w) /\ Behind(w)' = Behind(w)
      BY <2>3 DEF Handled, Behind, Goto, InHandler, PC, kafka
    <3>. QED
      BY <3>1, OldPrefixes DEF Prefix
  <2>4. CASE Commit(w)
    <3>1. CASE committed' = done[w] /\ done' = [done EXCEPT ![w] = 0] /\ Goto(w, "poll") /\ UNCHANGED at
      <4>1. done'[w] = 0 /\ Behind(w)' = Behind(w)
        BY <2>4, <3>1 DEF Commit, Goto, Behind, InHandler, PC
      <4>. QED
        BY <3>1, <4>1, OldPrefixes DEF Prefix
    <3>2. CASE Die(w) /\ UNCHANGED committed
      BY <3>2, KeptDie, OldPrefixes DEF Prefix
    <3>. QED
      BY <2>4, <3>1, <3>2 DEF Commit
  <2>5. CASE Restart(w) \/ Rebalance(w)
    <3>1. UNCHANGED <<committed, done>> /\ at'[w] = committed /\ pc'[w] = "poll"
      <4>1. CASE Restart(w)
        BY <4>1 DEF Restart, Goto
      <4>2. CASE Rebalance(w)
        BY <4>2 DEF Rebalance
      <4>. QED
        BY <2>5, <4>1, <4>2
    <3>2. Behind(w)' = committed
      BY <3>1 DEF Behind, InHandler
    <3>. QED
      BY <3>1, <3>2, OldPrefixes DEF Prefix
  <2>6. CASE DeadLetter(w)
    <3>1. UNCHANGED committed /\ pc[w] = "deadletter" /\ dlq' = dlq \cup {at[w]}
      BY <2>6 DEF DeadLetter
    <3>2. CASE Die(w)
      BY <3>1, <3>2, KeptDie, OldPrefixes DEF Prefix
    <3>3. CASE Goto(w, "handled") /\ UNCHANGED loop
      <4>1. pc'[w] = "handled" /\ UNCHANGED <<at, done>> /\ Kept(at[w])'
        BY <3>1, <3>3 DEF Goto, loop, Kept
      <4>. QED
        BY <3>1, <4>1, KeptHandled, OldPrefixes DEF Prefix, InHandler, PC
    <3>. QED
      BY <2>6, <3>2, <3>3 DEF DeadLetter
  <2>7. CASE Ensure(w)
    <3>1. UNCHANGED <<committed, log, at, done>> /\ pc[w] = "ensure"
      BY <2>7 DEF Ensure, kafka, loop
    <3>2. CASE Msg(w).kind = "blank"
      <4>1. pc'[w] = "handled" /\ Kept(at[w])'
        BY <2>7, <3>1, <3>2 DEF Ensure, Goto, Kept, Msg
      <4>. QED
        BY <3>1, <4>1, KeptHandled, OldPrefixes DEF Prefix, InHandler, PC
    <3>3. CASE Msg(w).kind # "blank"
      <4>1. Behind(w)' = Behind(w)
        BY <2>7, <3>1, <3>3 DEF Ensure, Goto, Behind, InHandler, PC
      <4>. QED
        BY <3>1, <4>1, OldPrefixes DEF Prefix
    <3>. QED
      BY <3>2, <3>3
  <2>8. CASE Complete(w)
    <3>1. UNCHANGED <<committed, at, done>> /\ pc[w] = "complete" /\ pc'[w] = "handled" /\ Kept(at[w])'
      BY <2>8 DEF Complete, Goto, Kept, kafka, loop
    <3>. QED
      BY <3>1, KeptHandled, OldPrefixes DEF Prefix, InHandler, PC
  <2>9. CASE Crash(w)
    BY <2>9, KeptDie, OldPrefixes DEF Crash, Prefix
  <2>. QED
    BY <1>1, <2>1, <2>2, <2>3, <2>4, <2>5, <2>6, <2>7, <2>8, <2>9 DEF Step
<1>2. ASSUME NEW w \in Worker, Step(w) \/ EncodeFails(w) \/ Crash(w) \/ Rebalance(w)
      PROVE  KeptInv'
  BY <1>1, <1>2, OthersStay, KeptByOthers
<1>3. ASSUME UNCHANGED <<committed, done, at, pc>> PROVE KeptInv'
  BY <1>3, OldPrefixes DEF KeptInv, Prefix, Behind
<1>4. (\E k \in dlq : Replay(k)) \/ UNCHANGED vars => UNCHANGED <<committed, done, at, pc>>
  BY DEF Replay, loop, vars, kafka
<1>. QED
  BY <1>2, <1>3, <1>4 DEF Next

\* consume_loop never commits past a message that is neither indexed nor
\* dead-lettered (nor blank and registered): not through batches, idle commits,
\* the breaker, crashes, rebalances or workers that outlive their partition.
THEOREM NothingIsLost == Spec => []CommittedIsKept
<1>1. Init => KeptInv
  BY DEF Init, KeptInv, Prefix, Behind, InHandler
<1>2. KeptInv => CommittedIsKept
  BY DEF KeptInv, Prefix, CommittedIsKept
<1>. QED
  BY <1>1, <1>2, InitTypeInv, NextTypeInv, KeptNext, PTL DEF Spec

----------------------------------------------------------------------------
(***************************************************************************)
(* One writer.  While handlers keep up only the owner of the partition has *)
(* a message in hand, so what it has written of a text is still there when *)
(* it goes on, and whole when it stamps the receipt.                       *)
(***************************************************************************)
Shows(k) == rows[log[k].event] = Whole(log[k].version, log[k].chunks)

Alone == \A w \in Worker : w # owner => pc[w] \in {"poll", "commit", "down"}

Written(w, n) == \A c \in 1 .. n : rows[Msg(w).event][c] = Msg(w).version
Progress ==
  /\ pc[owner] = "write" => Written(owner, chunk[owner])
  /\ pc[owner] = "trim" => Written(owner, Msg(owner).chunks)
  /\ pc[owner] \in {"ensure", "complete"} /\ Msg(owner).kind = "text" => Shows(at[owner])

OneWriter == Alone /\ Progress

\* A worker that is not the owner writes nothing, whatever it does.
LEMMA OthersDoNotWrite ==
  ASSUME TypeInv, Alone, NEW w \in Worker, w # owner, Step(w) \/ EncodeFails(w) \/ Crash(w)
  PROVE  /\ UNCHANGED <<log, rows, dlq, owner, pc[owner], at[owner], chunk[owner]>>
         /\ pc'[w] \in {"poll", "commit", "down"} /\ \A v \in Worker \ {w} : pc'[v] = pc[v]
         /\ committed' = committed \/ strayed'
<1>1. pc[w] \in {"poll", "commit", "down"}
  BY DEF Alone
<1>2. Idle(w) \/ Commit(w) \/ Restart(w) \/ Crash(w)
  BY <1>1 DEF Step, Receive, Handled, Parse, Encode, DeadLetter, Register, Write, Trim, Ensure,
              Complete, EncodeFails
<1>3. \A f \in {pc, at, done, since, streak, chunk} : DOMAIN f = Worker
  BY DEF TypeInv, TypeOK, WorkerOK
<1>4. owner \in Worker
  BY DEF TypeInv, TypeOK, KafkaOK
<1>5. CASE Idle(w)
  BY <1>3, <1>4, <1>5 DEF Idle, Goto, db, loop
<1>6. CASE Commit(w)
  <2>1. (Goto(w, "poll") /\ UNCHANGED <<at, chunk>>) \/ Die(w)
    BY <1>6 DEF Commit
  <2>2. UNCHANGED <<log, rows, dlq, owner>>
    BY <1>6 DEF Commit, db
  <2>3. committed' = committed \/ strayed'
    BY <1>6 DEF Commit
  <2>. QED
    BY <1>3, <1>4, <2>1, <2>2, <2>3 DEF Die, Goto
<1>7. CASE Restart(w)
  BY <1>3, <1>4, <1>7 DEF Restart, Goto, db, loop
<1>8. CASE Crash(w)
  <2>1. Die(w) /\ UNCHANGED <<log, rows, dlq, committed, owner>>
    BY <1>1, <1>8 DEF Crash, db
  <2>. QED
    BY <1>3, <1>4, <2>1 DEF Die, Goto
<1>. QED
  BY <1>2, <1>5, <1>6, <1>7, <1>8

\* One chunk, or the end of a text: the event's rows come closer to the text in
\* hand, rows that say it already go on doing so, and no other event's change.
LEMMA OneText ==
  ASSUME TypeInv, Progress, Write(owner) \/ Trim(owner)
  PROVE  LET m == Msg(owner) IN
         /\ Progress'
         /\ rows[m.event] = Whole(m.version, m.chunks) => rows'[m.event] = rows[m.event]
         /\ \A f \in Event \ {m.event} : rows'[f] = rows[f]
<1>. DEFINE m == Msg(owner)
            e == m.event
<1>1. /\ UNCHANGED <<log, owner, at>>
      /\ pc[owner] \in {"write", "trim"} /\ pc[owner] \in InHandler
  BY DEF Write, Trim, InHandler, PC, kafka, loop
<1>2. e \in Event /\ m.version \in Nat /\ m.chunks \in 0 .. MaxChunks
  BY <1>1, MsgInHand DEF TypeInv, TypeOK, KafkaOK
<1>3. rows \in [Event -> [Chunks -> Nat]] /\ \A f \in Event \ {e} : rows'[f] = rows[f]
  BY <1>2 DEF Write, Trim, TypeInv, TypeOK, IndexOK
<1>4. ASSUME Write(owner)
      PROVE  Progress' /\ (rows[e] = Whole(m.version, m.chunks) => rows'[e] = rows[e])
  <2>. DEFINE c == chunk[owner] + 1
  <2>1. rows'[e] = [rows[e] EXCEPT ![c] = m.version]
    BY <1>2, <1>3, <1>4 DEF Write
  <2>4. pc[owner] = "write" /\ Written(owner, chunk[owner])
    BY <1>4 DEF Write, Progress
  <2>5. chunk[owner] \in Nat /\ chunk[owner] < m.chunks /\ m.chunks <= MaxChunks
    BY <1>2, <2>4, IndexingAssumption DEF TypeInv, TypeOK, WorkerOK, KafkaOK, HandInv, HandOK
  <2>6. c \in 1 .. m.chunks /\ c \in Chunks
    BY <1>2, <2>5, IndexingAssumption DEF Chunks
  <2>7. /\ chunk'[owner] = c
        /\ pc'[owner] = "write" \/ (pc'[owner] = "trim" /\ c = m.chunks)
    BY <1>4 DEF Write, Goto, TypeInv, TypeOK, WorkerOK, KafkaOK
  <2>2. rows[e] = Whole(m.version, m.chunks) => rows'[e] = rows[e]
    BY <1>2, <1>3, <2>1, <2>6 DEF Whole
  <2>3. \A d \in 1 .. c : rows'[e][d] = m.version
    <3>1. \A d \in 1 .. c : d \in Chunks /\ (d = c \/ d \in 1 .. chunk[owner])
      BY <1>2, <2>5, <2>6, IndexingAssumption DEF Chunks
    <3>2. \A d \in 1 .. chunk[owner] : rows[e][d] = m.version
      BY <2>4 DEF Written
    <3>. QED
      BY <1>2, <1>3, <2>1, <3>1, <3>2
  <2>8. Progress'
    BY <1>1, <2>7, <2>3 DEF Progress, Written, Msg
  <2>. QED
    BY <2>2, <2>8
<1>5. ASSUME Trim(owner)
      PROVE  Progress' /\ (rows[e] = Whole(m.version, m.chunks) => rows'[e] = rows[e])
  <2>1. /\ rows'[e] = [c \in Chunks |-> IF c <= m.chunks THEN rows[e][c] ELSE 0]
        /\ pc'[owner] = "ensure" /\ Written(owner, m.chunks)
    BY <1>2, <1>3, <1>5
       DEF Trim, Goto, Progress, TypeInv, TypeOK, WorkerOK, KafkaOK
  <2>2. rows'[e] = Whole(m.version, m.chunks)
    BY <1>2, <2>1 DEF Whole, Written, Chunks
  <2>3. Progress'
    BY <1>1, <2>1, <2>2 DEF Progress, Shows, Msg, Whole
  <2>. QED
    BY <2>2, <2>3
<1>. QED
  BY <1>3, <1>4, <1>5

\* A step of the owner that writes no rows.
LEMMA OneWriterOfOwner ==
  ASSUME TypeInv, OneWriter,
         Step(owner) \/ EncodeFails(owner) \/ Crash(owner),
         ~Write(owner), ~Trim(owner)
  PROVE  OneWriter'
<1>1. UNCHANGED <<log, rows, owner>> /\ \A v \in Worker \ {owner} : pc'[v] = pc[v]
  BY DEF Step, Receive, Idle, Handled, Commit, Restart, Parse, Encode, DeadLetter, Register, Ensure,
         Complete, EncodeFails, Crash, Die, Goto, kafka, db, TypeInv, TypeOK, WorkerOK
<1>2. /\ pc'[owner] # "trim"
      /\ pc'[owner] = "write" => chunk'[owner] = 0
      /\ pc'[owner] = "ensure" => Msg(owner).kind = "blank" /\ UNCHANGED at
      /\ pc'[owner] = "complete" => pc[owner] = "ensure" /\ UNCHANGED at
  <2>. USE DEF Goto, TypeInv, TypeOK, WorkerOK, KafkaOK
  <2>1. CASE Receive(owner) \/ Idle(owner) \/ Restart(owner)
    BY <2>1 DEF Receive, Idle, Restart
  <2>2. CASE Handled(owner)
    <3>1. pc' = [pc EXCEPT ![owner] = "commit"] \/ pc' = [pc EXCEPT ![owner] = "poll"]
      BY <2>2 DEF Handled
    <3>. QED
      BY <3>1
  <2>3. CASE Commit(owner) \/ Crash(owner)
    BY <2>3 DEF Commit, Crash, Die
  <2>4. CASE Parse(owner)
    <3>1. /\ UNCHANGED at
          /\ \/ pc' = [pc EXCEPT ![owner] = "deadletter"]
             \/ pc' = [pc EXCEPT ![owner] = "ensure"] /\ Msg(owner).kind = "blank"
             \/ pc' = [pc EXCEPT ![owner] = "encode"]
      BY <2>4 DEF Parse, loop
    <3>. QED
      BY <3>1
  <2>5. CASE Encode(owner) \/ EncodeFails(owner)
    BY <2>5 DEF Encode, EncodeFails
  <2>6. CASE DeadLetter(owner)
    BY <2>6 DEF DeadLetter, Die
  <2>7. CASE Register(owner)
    BY <2>7 DEF Register
  <2>8. CASE Ensure(owner)
    <3>1. /\ UNCHANGED at /\ pc[owner] = "ensure"
          /\ pc' = [pc EXCEPT ![owner] = "handled"] \/ pc' = [pc EXCEPT ![owner] = "complete"]
      BY <2>8 DEF Ensure, loop
    <3>. QED
      BY <3>1
  <2>9. CASE Complete(owner)
    BY <2>9 DEF Complete
  <2>. QED
    BY <2>1, <2>2, <2>3, <2>4, <2>5, <2>6, <2>7, <2>8, <2>9 DEF Step
<1>3. Alone'
  BY <1>1 DEF OneWriter, Alone
<1>4. Progress'
  BY <1>1, <1>2 DEF OneWriter, Progress, Written, Msg, Shows
<1>. QED
  BY <1>3, <1>4 DEF OneWriter

LEMMA OneWriterNext ==
  ASSUME TypeInv, OneWriter, HandlersKeepUp, [Next]_vars
  PROVE  OneWriter'
<1>1. CASE UNCHANGED vars
  BY <1>1 DEF vars, kafka, db, loop, OneWriter, Alone, Progress, Written, Msg, Shows
<1>2. ASSUME NEW k \in dlq, Replay(k) PROVE OneWriter'
  <2>1. UNCHANGED <<owner, pc, at, chunk, rows>> /\ log' = Append(log, log[k])
    BY <1>2 DEF Replay, db, loop
  <2>2. pc[owner] \in {"write", "trim", "ensure", "complete"} =>
          /\ at[owner] \in DOMAIN log /\ log'[at[owner]] = log[at[owner]]
    BY <2>1, MsgInHand DEF InHandler, PC, TypeInv, TypeOK, KafkaOK
  <2>. QED
    BY <2>1, <2>2 DEF OneWriter, Alone, Progress, Written, Msg, Shows
<1>3. ASSUME NEW w \in Worker, Rebalance(w) PROVE OneWriter'
  <2>1. /\ UNCHANGED pc /\ pc[w] = "poll" /\ owner' = w /\ pc[owner] \in {"poll", "down"}
    BY <1>3 DEF Rebalance, Busy, TypeInv, TypeOK, WorkerOK, KafkaOK
  <2>. QED
    BY <2>1 DEF OneWriter, Alone, Progress
<1>4. ASSUME NEW w \in Worker, Step(w) \/ EncodeFails(w) \/ Crash(w), w # owner
      PROVE  OneWriter'
  <2>1. /\ UNCHANGED <<log, rows, owner, pc[owner], at[owner], chunk[owner]>>
        /\ pc'[w] \in {"poll", "commit", "down"} /\ \A v \in Worker \ {w} : pc'[v] = pc[v]
    BY <1>4, OthersDoNotWrite DEF OneWriter
  <2>2. Alone'
    BY <2>1 DEF OneWriter, Alone
  <2>3. Progress'
    BY <2>1 DEF OneWriter, Progress, Written, Msg, Shows
  <2>. QED
    BY <2>2, <2>3 DEF OneWriter
<1>5. CASE Write(owner) \/ Trim(owner)
  <2>1. UNCHANGED owner /\ \A v \in Worker \ {owner} : pc'[v] = pc[v]
    BY <1>5 DEF Write, Trim, Goto, kafka, TypeInv, TypeOK, WorkerOK
  <2>2. Alone'
    BY <2>1 DEF OneWriter, Alone
  <2>3. Progress'
    BY <1>5, OneText DEF OneWriter
  <2>. QED
    BY <2>2, <2>3 DEF OneWriter
<1>. QED
  BY <1>1, <1>2, <1>3, <1>4, <1>5, OneWriterOfOwner DEF Next

LEMMA OneWriterInit == Init => OneWriter
BY DEF Init, OneWriter, Alone, Progress

\* Which steps write a receipt.
LEMMA ReceiptSteps ==
  ASSUME [Next]_vars, receipt' # receipt
  PROVE  \E w \in Worker : Register(w) \/ Complete(w)
<1>1. UNCHANGED vars => UNCHANGED receipt
  BY DEF vars, db
<1>2. ASSUME NEW k \in dlq, Replay(k) PROVE UNCHANGED receipt
  BY <1>2 DEF Replay, db
<1>3. ASSUME NEW w \in Worker, Step(w) \/ EncodeFails(w) \/ Crash(w) \/ Rebalance(w),
             ~Register(w), ~Complete(w)
      PROVE  UNCHANGED receipt
  BY <1>3 DEF Step, Receive, Idle, Handled, Commit, Restart, Parse, Encode, DeadLetter,
     Write, Trim, Ensure, EncodeFails, Crash, Rebalance, db
<1>. QED
  BY <1>1, <1>2, <1>3 DEF Next

\* "All preceding writes are acknowledged and searchable before this receipt":
\* while handlers keep up, the rows of the event are the whole of one version of
\* it when that version's receipt is stamped, through crashes in the middle of a
\* text, edits, rebalances and replays.
THEOREM ReceiptsAreSearchable ==
  ASSUME HandlersKeepUp
  PROVE  Spec => ReceiptMeansSearchable
<1>. DEFINE Stamp(e) ==
       receipt'[e].last # receipt[e].last =>
         LET v == receipt'[e].last IN
         \E n \in Chunks : rows[e] = Whole(v, n)
                          /\ \E k \in DOMAIN log : /\ log[k].event = e
                                                  /\ log[k].version = v
                                                  /\ log[k].chunks = n
<1>1. ASSUME TypeInv, OneWriter, [Next]_vars, NEW e \in Event PROVE Stamp(e)
  <2>. SUFFICES ASSUME receipt'[e].last # receipt[e].last PROVE Stamp(e)
    OBVIOUS
  <2>1. receipt \in [Event -> Receipt] /\ receipt[e] \in Receipt
    BY <1>1 DEF TypeInv, TypeOK, IndexOK
  <2>2. PICK w \in Worker : Register(w) \/ Complete(w)
    BY <1>1, ReceiptSteps
  <2>3. ~Register(w)
    <3>. SUFFICES ASSUME Register(w) PROVE receipt'[e].last = receipt[e].last
      OBVIOUS
    <3>. DEFINE f == Msg(w).event
    <3>1. \/ receipt' = receipt
          \/ receipt' = [receipt EXCEPT ![f].registered = TRUE,
                                        ![f].observed = rows[f] = Whole(0, 0)]
      BY DEF Register
    <3>. QED
      BY <2>1, <3>1 DEF Receipt
  <2>4. Complete(w) /\ pc[w] = "complete" /\ pc[w] \in InHandler
    BY <2>2, <2>3 DEF Complete, InHandler, PC
  <2>5. w = owner
    BY <1>1, <2>4 DEF OneWriter, Alone
  <2>6. /\ at[w] \in DOMAIN log /\ Msg(w).event \in Event /\ Msg(w).kind = "text"
        /\ Msg(w).chunks \in 0 .. MaxChunks /\ Msg(w).chunks > 0 /\ Msg(w) = log[at[w]]
    BY <1>1, <2>4, MsgInHand DEF TypeInv, HandInv, HandOK, MessagesOK, Msg
  <2>7. Shows(at[w])
    BY <1>1, <2>4, <2>5, <2>6 DEF OneWriter, Progress
  <2>8. e = Msg(w).event /\ receipt'[e].last = Msg(w).version
    <3>. DEFINE f == Msg(w).event
                new == [receipt[f] EXCEPT
                          !.first = IF receipt[f].observed /\ receipt[f].first = 0
                                    THEN Msg(w).version ELSE receipt[f].first,
                          !.last = Msg(w).version]
    <3>1. receipt' = [receipt EXCEPT ![f] = new] /\ receipt[f] \in Receipt
      BY <2>1, <2>4, <2>6 DEF Complete, Receipt
    <3>2. new.last = Msg(w).version
      BY <3>1 DEF Receipt
    <3>. HIDE DEF new
    <3>. QED
      BY <2>1, <2>6, <3>1, <3>2
  <2>. DEFINE n == Msg(w).chunks
  <2>9. n \in Chunks /\ rows[e] = Whole(Msg(w).version, n)
    BY <2>6, <2>7, <2>8, IndexingAssumption DEF Shows, Chunks
  <2>. QED
    BY <2>6, <2>8, <2>9
<1>2. TypeInv /\ OneWriter /\ [Next]_vars => [\A e \in Event : Stamp(e)]_vars
  BY <1>1
<1>. QED
  BY <1>2, InitTypeInv, NextTypeInv, OneWriterInit, OneWriterNext, PTL
     DEF Spec, ReceiptMeansSearchable

----------------------------------------------------------------------------
(***************************************************************************)
(* The first completion.  An event that was indexed before receipts existed *)
(* must not get one: its first chunk never goes, so that registering it    *)
(* finds its rows whenever that happens.                                   *)
(***************************************************************************)
LegacyInv ==
  \A e \in LegacyEvents :
    rows[e][1] # 0 /\ ~receipt[e].observed /\ receipt[e].first = 0

\* Rows change one event's chunks; the first chunk of a text is never cleared.
LEMMA FirstChunkStays ==
  ASSUME TypeInv, [Next]_vars, NEW e \in Event, rows[e][1] # 0
  PROVE  rows'[e][1] # 0
<1>1. ASSUME NEW w \in Worker, Write(w) \/ Trim(w) PROVE rows'[e][1] # 0
  <2>. DEFINE f == Msg(w).event
  <2>1. /\ pc[w] \in InHandler /\ at[w] \in DOMAIN log /\ f \in Event
        /\ Msg(w).kind = "text" /\ Msg(w).chunks \in 0 .. MaxChunks /\ Msg(w) = log[at[w]]
    BY <1>1, MsgInHand DEF Write, Trim, InHandler, PC, TypeInv, HandInv, HandOK, Msg
  <2>2. Msg(w).version # 0 /\ Msg(w).chunks > 0
    <3>1. log[at[w]] \in Message
      BY <2>1 DEF TypeInv, TypeOK, KafkaOK
    <3>. QED
      BY <2>1, <3>1 DEF Message, TypeInv, HandInv, MessagesOK
  <2>3. rows \in [Event -> [Chunks -> Nat]] /\ 1 \in Chunks
    BY IndexingAssumption DEF TypeInv, TypeOK, IndexOK, Chunks
  <2>4. CASE Write(w)
    BY <2>1, <2>2, <2>3, <2>4 DEF Write
  <2>5. CASE Trim(w)
    <3>1. rows'[f][1] = rows[f][1]
      BY <2>1, <2>2, <2>3, <2>5 DEF Trim
    <3>2. e # f => rows'[e] = rows[e]
      BY <2>1, <2>3, <2>5 DEF Trim
    <3>. QED
      BY <3>1, <3>2
  <2>. QED
    BY <1>1, <2>4, <2>5
<1>2. ASSUME NEW w \in Worker, Step(w) \/ EncodeFails(w) \/ Crash(w) \/ Rebalance(w),
             ~Write(w), ~Trim(w)
      PROVE  UNCHANGED rows
  BY <1>2 DEF Step, Receive, Idle, Handled, Commit, Restart, Parse, Encode, DeadLetter, Register,
     Ensure, Complete, EncodeFails, Crash, Rebalance, db
<1>3. (\E k \in dlq : Replay(k)) \/ UNCHANGED vars => UNCHANGED rows
  BY DEF Replay, vars, db
<1>. QED
  BY <1>1, <1>2, <1>3 DEF Next

\* What a step makes of one event's receipt.
LEMMA ReceiptOf ==
  ASSUME TypeInv, [Next]_vars, NEW e \in Event
  PROVE  \/ UNCHANGED receipt[e]
         \/ /\ ~receipt[e].registered
            /\ receipt'[e].observed = (rows[e] = Whole(0, 0))
            /\ receipt'[e].first = receipt[e].first
         \/ /\ receipt'[e].observed = receipt[e].observed
            /\ receipt'[e].first = receipt[e].first \/ (receipt[e].observed /\ receipt[e].first = 0)
<1>. SUFFICES ASSUME receipt'[e] # receipt[e]
              PROVE  \/ /\ ~receipt[e].registered
                        /\ receipt'[e].observed = (rows[e] = Whole(0, 0))
                        /\ receipt'[e].first = receipt[e].first
                     \/ /\ receipt'[e].observed = receipt[e].observed
                        /\ \/ receipt'[e].first = receipt[e].first
                           \/ receipt[e].observed /\ receipt[e].first = 0
  OBVIOUS
<1>1. receipt \in [Event -> Receipt] /\ receipt[e] \in Receipt
  BY DEF TypeInv, TypeOK, IndexOK
<1>2. PICK w \in Worker : Register(w) \/ Complete(w)
  BY ReceiptSteps
<1>. DEFINE f == Msg(w).event
<1>3. f \in Event
  BY <1>2, MsgInHand DEF Register, Complete, InHandler, PC
<1>4. CASE Register(w)
  <2>. DEFINE new == [receipt[f] EXCEPT !.registered = TRUE,
                                        !.observed = rows[f] = Whole(0, 0)]
  <2>1. ~receipt[f].registered /\ receipt' = [receipt EXCEPT ![f] = new]
    BY <1>1, <1>3, <1>4 DEF Register, Receipt
  <2>2. f = e
    BY <1>1, <1>3, <2>1
  <2>3. new.observed = (rows[e] = Whole(0, 0)) /\ new.first = receipt[e].first
    BY <1>1, <2>2 DEF Receipt
  <2>. HIDE DEF new
  <2>. QED
    BY <1>1, <2>1, <2>2, <2>3
<1>5. CASE Complete(w)
  <2>. DEFINE new == [receipt[f] EXCEPT
                        !.first = IF receipt[f].observed /\ receipt[f].first = 0
                                  THEN Msg(w).version ELSE receipt[f].first,
                        !.last = Msg(w).version]
  <2>1. receipt' = [receipt EXCEPT ![f] = new]
    BY <1>1, <1>3, <1>5 DEF Complete, Receipt
  <2>2. f = e
    BY <1>1, <1>3, <2>1
  <2>3. /\ new.observed = receipt[e].observed
        /\ new.first = receipt[e].first \/ (receipt[e].observed /\ receipt[e].first = 0)
    BY <1>1, <2>2 DEF Receipt
  <2>. HIDE DEF new
  <2>. QED
    BY <1>1, <2>1, <2>2, <2>3
<1>. QED
  BY <1>2, <1>4, <1>5

LEMMA LegacyNext == ASSUME TypeInv, LegacyInv, [Next]_vars PROVE LegacyInv'
<1>. SUFFICES ASSUME NEW e \in LegacyEvents
              PROVE  rows'[e][1] # 0 /\ ~receipt'[e].observed /\ receipt'[e].first = 0
  BY DEF LegacyInv
<1>1. e \in Event /\ rows[e][1] # 0 /\ ~receipt[e].observed /\ receipt[e].first = 0
  BY IndexingAssumption DEF LegacyInv
<1>2. rows[e] # Whole(0, 0)
  <2>1. 1 \in Chunks
    BY IndexingAssumption DEF Chunks
  <2>2. Whole(0, 0)[1] = 0
    BY <2>1 DEF Whole
  <2>. QED
    BY <1>1, <2>2
<1>. QED
  BY <1>1, <1>2, ReceiptOf, FirstChunkStays

\* The first completion is stamped once, however often the event is redelivered,
\* replayed or edited and by whomever, and never for an event that was indexed
\* before receipts existed.
THEOREM FirstReceiptsAreFinal == Spec => FirstReceiptIsFinal
<1>. DEFINE Final(e) ==
       /\ receipt[e].first # 0 => receipt'[e].first = receipt[e].first
       /\ e \in LegacyEvents => receipt'[e].first = 0
<1>1. Init => LegacyInv
  <2>. SUFFICES ASSUME Init, NEW e \in LegacyEvents
                PROVE  rows[e][1] # 0 /\ ~receipt[e].observed /\ receipt[e].first = 0
    BY DEF LegacyInv
  <2>1. 1 \in Chunks /\ e \in Event
    BY IndexingAssumption DEF Chunks
  <2>2. rows[e] = Whole(1, 1) /\ receipt[e] = NoReceipt
    BY <2>1 DEF Init
  <2>3. Whole(1, 1)[1] = 1
    BY <2>1 DEF Whole
  <2>. QED
    BY <2>2, <2>3 DEF NoReceipt
<1>2. ASSUME TypeInv, LegacyInv, [Next]_vars, NEW e \in Event PROVE Final(e)
  BY <1>2, LegacyNext, ReceiptOf DEF LegacyInv
<1>3. TypeInv /\ LegacyInv /\ [Next]_vars => [\A e \in Event : Final(e)]_vars
  BY <1>2
<1>. QED
  BY <1>1, <1>3, InitTypeInv, NextTypeInv, LegacyNext, PTL DEF Spec, FirstReceiptIsFinal

----------------------------------------------------------------------------
(***************************************************************************)
(* The newest text.  IndexFollowsEdits looks at a topic that is consumed;  *)
(* what holds on the way there is that every newest text the owner of the  *)
(* partition has dealt with is what the index shows, because nobody else   *)
(* writes, because the owner starts again from an offset that is not past  *)
(* what it (or the owner before it) has dealt with, and because behind the *)
(* newest text of an event no older one follows.                           *)
(***************************************************************************)

\* The stream job emits the versions of an event in order.
EditsInOrder ==
  \A j, k \in DOMAIN Log :
    j < k /\ Log[j].event = Log[k].event /\ Log[j].kind = "text" /\ Log[k].kind = "text" =>
      /\ Log[j].version <= Log[k].version
      /\ Log[j].version = Log[k].version => Log[j].chunks = Log[k].chunks

Newest(k) == k \in NewestTexts(log[k].event)

\* What the owner has dealt with; a dead one will start again from `committed`.
Dealt == IF pc[owner] = "down" THEN committed ELSE Behind(owner)

Upto(n) == \A k \in DOMAIN log : k <= n /\ Newest(k) /\ k \notin dlq => Shows(k)

EditInv == log = Log /\ committed <= Dealt /\ Upto(Dealt)

LEMMA DealtIsTyped ==
  ASSUME TypeInv
  PROVE  Dealt \in 0 .. Len(log) /\ owner \in Worker /\ committed \in 0 .. Len(log)
BY DEF TypeInv, TypeOK, WorkerOK, KafkaOK, HandInv, HandOK, Behind, Dealt

\* Statements that write no rows.
LEMMA UptoStays ==
  ASSUME TypeInv, EditInv, UNCHANGED <<log, rows>>, dlq \subseteq dlq',
         NEW n \in 0 .. Len(log), n <= Dealt
  PROVE  Upto(n)'
<1>. SUFFICES ASSUME NEW k \in DOMAIN log, k <= n, Newest(k)', k \notin dlq'
              PROVE  Shows(k)'
  BY DEF Upto
<1>1. Newest(k)
  BY DEF Newest, NewestTexts, Texts
<1>2. k <= Dealt
  BY DealtIsTyped DEF TypeInv, TypeOK, KafkaOK
<1>. QED
  BY <1>1, <1>2 DEF EditInv, Upto, Shows

LEMMA EditOfOthers ==
  ASSUME TypeInv, OneWriter, EditInv, NEW w \in Worker, w # owner,
         Step(w) \/ EncodeFails(w) \/ Crash(w), ~strayed'
  PROVE  EditInv'
<1>1. UNCHANGED <<log, rows, dlq, committed, owner, pc[owner], at[owner]>>
  BY OthersDoNotWrite DEF OneWriter
<1>2. Dealt' = Dealt
  BY <1>1 DEF Dealt, Behind
<1>. QED
  BY <1>1, <1>2, UptoStays, DealtIsTyped DEF EditInv

\* The owner between two messages, and the end of a message.
LEMMA EditOfLoop ==
  ASSUME TypeInv, EditInv, ~strayed',
         \/ Receive(owner) \/ Idle(owner) \/ Handled(owner) \/ Commit(owner)
         \/ Restart(owner) \/ Crash(owner)
  PROVE  EditInv'
<1>. DEFINE w == owner
<1>1. /\ UNCHANGED <<log, rows, owner>> /\ dlq \subseteq dlq'
      /\ \A v \in Worker \ {w} : pc'[v] = pc[v]
      /\ pc'[w] \in {"poll", "parse", "commit", "down"}
  BY DEF Receive, Idle, Handled, Commit, Restart, Crash, Die, Goto, kafka, db, loop, ghost,
         TypeInv, TypeOK, WorkerOK, KafkaOK, PC
<1>2. committed' <= Dealt' /\ Dealt' <= Dealt /\ Dealt' \in 0 .. Len(log)
  <2>. USE DEF TypeInv, TypeOK, WorkerOK, KafkaOK, Goto
  <2>1. CASE Receive(owner)
    BY <2>1 DEF Receive, Dealt, Behind, InHandler, PC, EditInv
  <2>2. CASE Idle(owner)
    BY <2>2 DEF Idle, loop, Dealt, Behind, InHandler, PC, EditInv
  <2>3. CASE Handled(owner)
    BY <2>3 DEF Handled, kafka, Dealt, Behind, InHandler, PC, EditInv
  <2>4. CASE Commit(owner)
    <3>1. CASE Die(owner) /\ UNCHANGED committed
      BY <1>1, <3>1, DealtIsTyped DEF Die, Dealt, EditInv
    <3>2. CASE /\ committed' = done[owner] /\ pc' = [pc EXCEPT ![owner] = "poll"] /\ UNCHANGED at
               /\ strayed' = (strayed \/ owner # owner \/ at[owner] < done[owner])
      <4>1. ~(at[owner] < done[owner]) /\ pc[owner] = "commit"
        BY <2>4, <3>2 DEF Commit
      <4>. QED
        BY <1>1, <3>2, <4>1 DEF Dealt, Behind, InHandler, PC
    <3>. QED
      BY <2>4, <3>1, <3>2 DEF Commit
  <2>5. CASE Restart(owner)
    BY <2>5 DEF Restart, Dealt, Behind, InHandler, PC, EditInv
  <2>6. CASE Crash(owner)
    BY <2>6, DealtIsTyped DEF Crash, Die, Dealt, EditInv
  <2>. QED
    BY <2>1, <2>2, <2>3, <2>4, <2>5, <2>6
<1>. QED
  BY <1>1, <1>2, UptoStays, DealtIsTyped DEF EditInv

\* The message in hand joins what is dealt with.
LEMMA UptoEnd ==
  ASSUME TypeInv, EditInv, pc[owner] \in InHandler, UNCHANGED <<log, rows>>, dlq \subseteq dlq',
         Newest(at[owner]) => Shows(at[owner]) \/ at[owner] \in dlq'
  PROVE  \A k \in DOMAIN log : k <= at[owner] /\ Newest(k) /\ k \notin dlq' => Shows(k)
<1>1. Dealt = at[owner] - 1 /\ at[owner] \in Nat
  BY DealtIsTyped DEF Dealt, Behind, InHandler, TypeInv, TypeOK, WorkerOK, KafkaOK
<1>. SUFFICES ASSUME NEW k \in DOMAIN log, k <= at[owner], Newest(k), k \notin dlq'
              PROVE  Shows(k)
  OBVIOUS
<1>2. k <= Dealt \/ k = at[owner]
  BY <1>1 DEF TypeInv, TypeOK, KafkaOK
<1>. QED
  BY <1>2 DEF EditInv, Upto

LEMMA EditOfQuiet ==
  ASSUME TypeInv, EditInv,
         \/ Parse(owner) \/ Encode(owner) \/ EncodeFails(owner) \/ Register(owner)
         \/ Ensure(owner) /\ Msg(owner).kind # "blank"
  PROVE  EditInv'
<1>1. /\ UNCHANGED <<log, rows, dlq, owner, committed, at>> /\ pc[owner] \in InHandler
      /\ \A v \in Worker \ {owner} : pc'[v] = pc[v]
  BY DEF Parse, Encode, EncodeFails, Register, Ensure, Goto, InHandler, PC, kafka, db, loop,
         TypeInv, TypeOK, WorkerOK, KafkaOK
<1>2. pc'[owner] \in InHandler
  <2>. USE DEF Goto, InHandler, PC, TypeInv, TypeOK, WorkerOK, KafkaOK
  <2>1. CASE Parse(owner)
    BY <2>1 DEF Parse
  <2>2. CASE Encode(owner) \/ EncodeFails(owner)
    BY <2>2 DEF Encode, EncodeFails
  <2>3. CASE Register(owner)
    BY <2>3 DEF Register
  <2>4. CASE Ensure(owner) /\ Msg(owner).kind # "blank"
    BY <2>4 DEF Ensure
  <2>. QED
    BY <2>1, <2>2, <2>3, <2>4
<1>3. Dealt' = Dealt
  BY <1>1, <1>2 DEF Dealt, Behind, InHandler
<1>. QED
  BY <1>1, <1>3, UptoStays, DealtIsTyped DEF EditInv

LEMMA EditOfEnd ==
  ASSUME TypeInv, OneWriter, EditInv,
         DeadLetter(owner) \/ Complete(owner) \/ (Ensure(owner) /\ Msg(owner).kind = "blank")
  PROVE  EditInv'
<1>1. /\ UNCHANGED <<log, rows, owner, committed>> /\ dlq \subseteq dlq' /\ pc[owner] \in InHandler
      /\ \A v \in Worker \ {owner} : pc'[v] = pc[v]
      /\ pc'[owner] = "down" \/ (pc'[owner] = "handled" /\ UNCHANGED at)
  BY DEF DeadLetter, Complete, Ensure, Die, Goto, InHandler, PC, kafka, db, loop,
         TypeInv, TypeOK, WorkerOK, KafkaOK
<1>2. Newest(at[owner]) => Shows(at[owner]) \/ at[owner] \in dlq'
  <2>1. CASE DeadLetter(owner)
    BY <2>1 DEF DeadLetter
  <2>2. CASE Complete(owner)
    BY <2>2 DEF Complete, OneWriter, Progress, TypeInv, HandInv, HandOK, TypeOK, KafkaOK
  <2>3. CASE Ensure(owner) /\ Msg(owner).kind = "blank"
    BY <2>3 DEF Newest, NewestTexts, Texts, Msg
  <2>. QED
    BY <2>1, <2>2, <2>3
<1>3. CASE pc'[owner] = "down"
  BY <1>1, <1>3, UptoStays, DealtIsTyped DEF EditInv, Dealt
<1>4. CASE pc'[owner] = "handled" /\ UNCHANGED at
  <2>1. Dealt' = at[owner] /\ committed <= at[owner]
    BY <1>1, <1>4, DealtIsTyped DEF Dealt, Behind, InHandler, EditInv, TypeInv, TypeOK, WorkerOK, KafkaOK
  <2>2. \A k \in DOMAIN log : k <= at[owner] /\ Newest(k) /\ k \notin dlq' => Shows(k)
    BY <1>1, <1>2, UptoEnd
  <2>3. Upto(Dealt)'
    BY <1>1, <2>1, <2>2 DEF Upto, Newest, NewestTexts, Texts, Shows
  <2>. QED
    BY <1>1, <2>1, <2>3 DEF EditInv
<1>. QED
  BY <1>1, <1>3, <1>4

\* Behind the newest text of its event a text says the same.
LEMMA SaysTheSame ==
  ASSUME TypeInv, EditInv, EditsInOrder, pc[owner] \in {"write", "trim"},
         NEW k \in DOMAIN log, k <= Dealt, Newest(k), log[k].event = Msg(owner).event
  PROVE  log[k].version = Msg(owner).version /\ log[k].chunks = Msg(owner).chunks
<1>1. /\ at[owner] \in DOMAIN log /\ k < at[owner] /\ log = Log
      /\ Msg(owner).kind = "text" /\ Msg(owner) = log[at[owner]]
  BY DealtIsTyped, MsgInHand
     DEF EditInv, Dealt, Behind, InHandler, PC, Msg, TypeInv, TypeOK, KafkaOK, HandInv, HandOK
<1>2. log[k].kind = "text" /\ log[at[owner]].version <= log[k].version
  BY <1>1 DEF Newest, NewestTexts, Texts
<1>3. log[k].version \in Nat /\ log[at[owner]].version \in Nat
  <2>1. log[k] \in Message /\ log[at[owner]] \in Message
    BY <1>1 DEF TypeInv, TypeOK, KafkaOK
  <2>. QED
    BY <2>1 DEF Message
<1>. QED
  BY <1>1, <1>2, <1>3 DEF EditsInOrder

\* One chunk, or the end of a text, written over rows that say the same already
\* or belong to an event whose newest text is still to come.
LEMMA EditOfRows ==
  ASSUME TypeInv, OneWriter, EditInv, EditsInOrder, Write(owner) \/ Trim(owner)
  PROVE  EditInv'
<1>. DEFINE m == Msg(owner)
            e == m.event
<1>1. /\ UNCHANGED <<log, dlq, owner, committed, at>>
      /\ pc[owner] \in {"write", "trim"} /\ pc[owner] \in InHandler /\ pc'[owner] \in InHandler
  <2>1. Write(owner) => pc' = [pc EXCEPT ![owner] = "trim"] \/ pc' = [pc EXCEPT ![owner] = "write"]
    BY DEF Write, Goto
  <2>. QED
    BY <2>1 DEF Write, Trim, Goto, InHandler, PC, kafka, loop, TypeInv, TypeOK, WorkerOK, KafkaOK
<1>2. /\ rows[e] = Whole(m.version, m.chunks) => rows'[e] = rows[e]
      /\ \A f \in Event \ {e} : rows'[f] = rows[f]
  BY OneText DEF OneWriter
<1>3. Dealt' = Dealt
  BY <1>1 DEF Dealt, Behind, InHandler
<1>4. ASSUME NEW k \in DOMAIN log, k <= Dealt, Newest(k), k \notin dlq PROVE Shows(k)'
  <2>1. Shows(k) /\ log[k].event \in Event
    <3>1. log[k] \in Message
      BY DEF TypeInv, TypeOK, KafkaOK
    <3>. QED
      BY <1>4, <3>1 DEF EditInv, Upto, Message
  <2>2. CASE log[k].event = e
    BY <1>1, <1>2, <1>4, <2>1, <2>2, SaysTheSame DEF Shows
  <2>3. CASE log[k].event # e
    BY <1>1, <1>2, <2>1, <2>3 DEF Shows
  <2>. QED
    BY <2>2, <2>3
<1>5. Upto(Dealt)'
  BY <1>1, <1>3, <1>4 DEF Upto, Newest, NewestTexts, Texts
<1>. QED
  BY <1>1, <1>3, <1>5 DEF EditInv

LEMMA EditOfRebalance ==
  ASSUME TypeInv, EditInv, HandlersKeepUp, NEW w \in Worker, Rebalance(w)
  PROVE  EditInv'
<1>1. /\ UNCHANGED <<log, rows, dlq, committed, pc>> /\ pc[w] = "poll" /\ owner' = w
      /\ at'[w] = committed /\ pc[owner] \in {"poll", "down"} /\ owner # w
  BY DEF Rebalance, Busy, db, TypeInv, TypeOK, WorkerOK, KafkaOK
<1>2. Dealt' = committed
  BY <1>1 DEF Dealt, Behind, InHandler
<1>. QED
  BY <1>1, <1>2, UptoStays, DealtIsTyped DEF EditInv

\* Replays are counted and strays remembered.
LEMMA GhostsStay ==
  ASSUME TypeInv, [Next]_vars
  PROVE  (replays' = replays \/ replays' = replays + 1) /\ (strayed => strayed')
<1>1. ASSUME NEW w \in Worker, Commit(w) PROVE replays' = replays /\ (strayed => strayed')
  <2>1. UNCHANGED strayed \/ strayed' = (strayed \/ owner # w \/ at[w] < done[w])
    BY <1>1 DEF Commit
  <2>2. replays' = replays
    BY <1>1 DEF Commit, bounds
  <2>3. ASSUME strayed PROVE strayed'
    <3>1. CASE strayed' = (strayed \/ owner # w \/ at[w] < done[w])
      <4>1. (strayed \/ owner # w \/ at[w] < done[w]) = TRUE
        BY <2>3
      <4>. QED
        BY <3>1, <4>1
    <3>. QED
      BY <2>1, <2>3, <3>1
  <2>. QED
    BY <2>2, <2>3
<1>2. ASSUME NEW w \in Worker, Step(w) \/ EncodeFails(w) \/ Crash(w) \/ Rebalance(w), ~Commit(w)
      PROVE  UNCHANGED <<replays, strayed>>
  BY <1>2 DEF Step, Receive, Idle, Handled, Restart, Parse, Encode, DeadLetter, Register, Write, Trim,
              Ensure, Complete, EncodeFails, Crash, Rebalance, Fault, bounds, ghost
<1>3. (\E k \in dlq : Replay(k)) \/ UNCHANGED vars
        => (replays' = replays \/ replays' = replays + 1) /\ UNCHANGED strayed
  BY DEF Replay, vars, bounds, ghost
<1>. QED
  BY <1>1, <1>2, <1>3 DEF Next

LEMMA EditNext ==
  ASSUME TypeInv, OneWriter, EditInv, HandlersKeepUp, EditsInOrder, [Next]_vars,
         replays' = replays, ~strayed'
  PROVE  EditInv'
<1>1. CASE UNCHANGED vars
  BY <1>1 DEF vars, kafka, db, loop, EditInv, Dealt, Behind, Upto, Newest, NewestTexts, Texts, Shows
<1>2. CASE \E k \in dlq : Replay(k)
  BY <1>2 DEF Replay, TypeInv, TypeOK, HistoryOK
<1>3. ASSUME NEW w \in Worker, Step(w) \/ EncodeFails(w) \/ Crash(w), w = owner
      PROVE  EditInv'
  BY <1>3, EditOfLoop, EditOfQuiet, EditOfEnd, EditOfRows DEF Step
<1>. QED
  BY <1>1, <1>2, <1>3, EditOfOthers, EditOfRebalance DEF Next

\* Without a replayed dead letter, and as long as no batch outlives its worker's
\* assignment and is committed, the index of a consumed topic shows the newest
\* text of every event, however many embedders crash, restart, lose and regain
\* the partition in the middle of an event.
THEOREM IndexIsEffectivelyOnce ==
  ASSUME HandlersKeepUp, EditsInOrder
  PROVE  Spec => []IndexFollowsEdits
<1>. DEFINE Inv == replays = 0 /\ ~strayed => EditInv
<1>1. Init => Inv
  BY IndexingAssumption
     DEF Init, EditInv, Dealt, Behind, InHandler, Upto
<1>2. TypeInv /\ OneWriter /\ Inv /\ [Next]_vars => Inv'
  <2>. SUFFICES ASSUME TypeInv, OneWriter, Inv, [Next]_vars, replays' = 0, ~strayed' PROVE EditInv'
    OBVIOUS
  <2>1. replays' = replays /\ ~strayed
    BY GhostsStay DEF TypeInv, TypeOK, HistoryOK
  <2>. QED
    BY <2>1, EditNext
<1>3. TypeInv /\ Inv => IndexFollowsEdits
  <2>. SUFFICES ASSUME TypeInv, EditInv, Quiet, NEW e \in Event, NewestTexts(e) \cap dlq = {},
                       NEW k \in NewestTexts(e)
                PROVE  rows[e] = Whole(log[k].version, log[k].chunks)
    BY DEF IndexFollowsEdits, IndexIsNewest
  <2>1. k \in DOMAIN log /\ log[k].event = e
    BY DEF NewestTexts, Texts
  <2>2. k <= Dealt
    BY <2>1, DealtIsTyped DEF EditInv, Quiet, TypeInv, TypeOK, KafkaOK
  <2>. QED
    BY <2>1, <2>2 DEF EditInv, Upto, Newest, Shows
<1>. QED
  BY <1>1, <1>2, <1>3, InitTypeInv, NextTypeInv, OneWriterInit, OneWriterNext, PTL DEF Spec
=============================================================================
