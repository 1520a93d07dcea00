------------------------------ MODULE Indexing ------------------------------
(***************************************************************************)
(* The embedder: freshet/pipeline/embedder.py driven by consume_loop       *)
(* (freshet/common/kafka_io.py) with batched commits, against the index    *)
(* (vector_records), the receipts (event_indexing) and the dead-letter     *)
(* topic, with the operator's replay of it (replay_deadletter.py).         *)
(*                                                                         *)
(* One partition of normalized.updates holds versions of events: an edited *)
(* status update comes again under the same event_id, with other text and  *)
(* another number of chunks.  Every write is its own autocommitted         *)
(* statement, keyed on the event and the ordinal of the chunk, so workers  *)
(* of one group, crashes and redeliveries interleave between them.         *)
(***************************************************************************)
EXTENDS Integers, Sequences

CONSTANTS
  Event,            \* event ids
  Worker,           \* embedder processes in the consumer group
  Log,              \* what the stream job has put on the partition
  LegacyEvents,     \* events indexed before receipts existed
  MaxChunks,        \* bound on the chunks of a text
  CommitEvery,      \* DEFAULT_COMMIT_EVERY
  MaxStreak,        \* MAX_CONSECUTIVE_DEADLETTERS
  MaxFaults,        \* bound on injected faults of all kinds
  MaxReplays,       \* bound on the dead letters the operator replays
  HandlersKeepUp    \* TRUE: no handler outlives max.poll.interval.ms

\* What handle() makes of a message.  A poison text fails to embed every time.
Kind == {"text", "blank", "junk", "poison"}
Message == [event : Event, version : Nat \ {0}, chunks : Nat, kind : Kind]

ASSUME IndexingAssumption ==
  /\ Log \in Seq(Message)
  /\ MaxChunks \in Nat \ {0}
  /\ \A k \in DOMAIN Log :
       /\ Log[k].chunks <= MaxChunks
       /\ Log[k].kind = "text" => Log[k].chunks > 0
  /\ LegacyEvents \subseteq Event
  /\ CommitEvery \in Nat \ {0} /\ MaxStreak \in Nat \ {0}
  /\ MaxFaults \in Nat /\ MaxReplays \in Nat
  /\ HandlersKeepUp \in BOOLEAN

VARIABLES
  \* Kafka
  log, committed, owner, fenced,
  dlq,        \* offsets of `log` whose message is on deadletter.events
  \* Postgres
  rows,       \* vector_records: the version each chunk of an event was written from
  receipt,    \* event_indexing
  listed,     \* events whose incident has its rows (and, for a text, its link to the event)
  \* the workers
  pc,
  at,         \* the consumer's position: the last offset handed to the handler
  done,       \* consume_loop's `pending`: newest handled, uncommitted offset (0: none)
  since,      \* consume_loop's since_commit
  streak,     \* streak["deadletters"]
  chunk,      \* chunks of the message in hand written so far
  \* history used only to state properties
  indexed,    \* offsets whose receipt was stamped
  strayed,    \* a batch was committed that outlived its worker's assignment
  faults, replays

kafka == <<log, committed, owner, fenced, dlq>>
db == <<rows, receipt, listed>>
loop == <<at, done, since>>
ghost == <<indexed, strayed>>
bounds == <<faults, replays>>
vars == <<kafka, db, pc, loop, streak, chunk, ghost, bounds>>

----------------------------------------------------------------------------

PC == {"poll", "parse", "encode", "register", "write", "trim", "ensure", "complete",
       "deadletter", "handled", "commit", "down"}

Msg(w) == log[at[w]]
Chunks == 1 .. MaxChunks

Goto(w, l) == pc' = [pc EXCEPT ![w] = l]
Fault == faults < MaxFaults /\ faults' = faults + 1 /\ UNCHANGED replays

\* The process ends: what it had in memory is gone.
Die(w) ==
  /\ Goto(w, "down")
  /\ at' = [at EXCEPT ![w] = 0]
  /\ done' = [done EXCEPT ![w] = 0]
  /\ since' = [since EXCEPT ![w] = 0]
  /\ streak' = [streak EXCEPT ![w] = 0]
  /\ chunk' = [chunk EXCEPT ![w] = 0]

NoReceipt == [registered |-> FALSE, observed |-> FALSE, first |-> 0, last |-> 0]

\* The rows of an event indexed from one version of n chunks.
Whole(v, n) == [c \in Chunks |-> IF c <= n THEN v ELSE 0]

Init ==
  /\ log = Log /\ committed = 0 /\ owner \in Worker
  /\ fenced = [w \in Worker |-> FALSE]
  /\ dlq = {}
  /\ rows = [e \in Event |-> IF e \in LegacyEvents THEN Whole(1, 1) ELSE Whole(0, 0)]
  /\ receipt = [e \in Event |-> NoReceipt]
  /\ listed = {}
  /\ pc = [w \in Worker |-> "poll"]
  /\ at = [w \in Worker |-> 0]
  /\ done = [w \in Worker |-> 0]
  /\ since = [w \in Worker |-> 0]
  /\ streak = [w \in Worker |-> 0]
  /\ chunk = [w \in Worker |-> 0]
  /\ indexed = {} /\ strayed = FALSE
  /\ faults = 0 /\ replays = 0

----------------------------------------------------------------------------
(* consume_loop. *)

\* poll hands out the next message; polling also rejoins the group.
Receive(w) ==
  /\ pc[w] = "poll" /\ owner = w /\ at[w] < Len(log)
  /\ at' = [at EXCEPT ![w] = @ + 1]
  /\ fenced' = [fenced EXCEPT ![w] = FALSE]
  /\ Goto(w, "parse")
  /\ UNCHANGED <<log, committed, owner, dlq, db, done, since, streak, chunk, ghost, bounds>>

\* poll returned nothing: what is pending is committed before the idle work.
Idle(w) ==
  /\ pc[w] = "poll" /\ done[w] # 0
  /\ fenced' = [fenced EXCEPT ![w] = FALSE]
  /\ Goto(w, "commit")
  /\ UNCHANGED <<log, committed, owner, dlq, db, loop, streak, chunk, ghost, bounds>>

\* Seeded bug: the batch is committed up to the message after the last handled.
HandledAhead(w) ==
  /\ pc[w] = "handled"
  /\ done' = [done EXCEPT ![w] = at[w] + 1]
  /\ since' = [since EXCEPT ![w] = @ + 1]
  /\ Goto(w, IF since[w] + 1 >= CommitEvery THEN "commit" ELSE "poll")
  /\ UNCHANGED <<kafka, db, at, streak, chunk, ghost, bounds>>

\* The handler returned: the message joins the batch.
Handled(w) ==
  /\ pc[w] = "handled"
  /\ done' = [done EXCEPT ![w] = at[w]]
  /\ since' = [since EXCEPT ![w] = @ + 1]
  /\ Goto(w, IF since[w] + 1 >= CommitEvery THEN "commit" ELSE "poll")
  /\ UNCHANGED <<kafka, db, at, streak, chunk, ghost, bounds>>

\* _commit_pending.  The broker takes the offset from any member of the group's
\* generation, also for a partition it no longer owns; the client may refuse it.
Commit(w) ==
  /\ pc[w] = "commit"
  /\ \/ /\ ~fenced[w]
        /\ committed' = done[w]
        /\ done' = [done EXCEPT ![w] = 0]
        /\ since' = [since EXCEPT ![w] = 0]
        /\ Goto(w, "poll")
        /\ strayed' = (strayed \/ owner # w \/ at[w] < done[w])
        /\ UNCHANGED <<at, streak, chunk>>
     \/ /\ fenced[w] \/ owner # w
        /\ Die(w)
        /\ UNCHANGED <<committed, strayed>>
  /\ UNCHANGED <<log, owner, fenced, dlq, db, indexed, bounds>>

\* A new process reads its partition from the committed offset.
Restart(w) ==
  /\ pc[w] = "down"
  /\ Goto(w, "poll")
  /\ at' = [at EXCEPT ![w] = committed]
  /\ fenced' = [fenced EXCEPT ![w] = FALSE]
  /\ UNCHANGED <<log, committed, owner, dlq, db, done, since, streak, chunk, ghost, bounds>>

----------------------------------------------------------------------------
(* handle: parse, embed, write the chunks, stamp the receipt. *)

Parse(w) ==
  /\ pc[w] = "parse"
  /\ Goto(w, CASE Msg(w).kind = "junk"  -> "deadletter"
               [] Msg(w).kind = "blank" -> "ensure"
               [] OTHER                 -> "encode")
  /\ UNCHANGED <<kafka, db, loop, streak, chunk, ghost, bounds>>

Encode(w) ==
  /\ pc[w] = "encode" /\ Msg(w).kind = "text"
  /\ Goto(w, "register")
  /\ UNCHANGED <<kafka, db, loop, streak, chunk, ghost, bounds>>

\* The last of EMBED_ATTEMPTS failed: a poison text, or a broken worker.
EncodeFails(w) ==
  /\ pc[w] = "encode"
  /\ IF Msg(w).kind = "poison" THEN UNCHANGED bounds ELSE Fault
  /\ Goto(w, "deadletter")
  /\ UNCHANGED <<kafka, db, loop, streak, chunk, ghost>>

\* Seeded bug: the failure is raised instead of dead-lettered.
DeadLetterRaises(w) ==
  /\ pc[w] = "deadletter"
  /\ Die(w)
  /\ UNCHANGED <<kafka, db, ghost, bounds>>

\* _dead_letter: produce_sync, then the streak; the breaker raises out of the
\* handler, so the process ends with its batch uncommitted.
DeadLetter(w) ==
  LET count == IF Msg(w).kind = "junk" THEN 0 ELSE streak[w] + 1 IN
  /\ pc[w] = "deadletter"
  /\ dlq' = dlq \cup {at[w]}
  /\ IF count >= MaxStreak
       THEN Die(w)
       ELSE /\ streak' = [streak EXCEPT ![w] = count]
            /\ Goto(w, "handled")
            /\ UNCHANGED <<loop, chunk>>
  /\ UNCHANGED <<log, committed, owner, fenced, db, ghost, bounds>>

\* _REGISTER_INDEXING_SQL: is this the first time the event is indexed?
Register(w) ==
  LET e == Msg(w).event IN
  /\ pc[w] = "register"
  /\ receipt' = IF receipt[e].registered THEN receipt
                ELSE [receipt EXCEPT ![e].registered = TRUE,
                                     ![e].observed = rows[e] = Whole(0, 0)]
  /\ chunk' = [chunk EXCEPT ![w] = 0]
  /\ Goto(w, "write")
  /\ UNCHANGED <<kafka, rows, listed, loop, streak, ghost, bounds>>

\* Seeded bug: one chunk too many is written.
WriteOneMore(w) ==
  LET c == chunk[w] + 1 IN
  /\ pc[w] = "write"
  /\ rows' = [rows EXCEPT ![Msg(w).event][c] = Msg(w).version]
  /\ chunk' = [chunk EXCEPT ![w] = c]
  /\ Goto(w, IF c > Msg(w).chunks THEN "trim" ELSE "write")
  /\ UNCHANGED <<kafka, receipt, listed, loop, streak, ghost, bounds>>

\* One upsert per chunk.
Write(w) ==
  LET c == chunk[w] + 1 IN
  /\ pc[w] = "write"
  /\ rows' = [rows EXCEPT ![Msg(w).event][c] = Msg(w).version]
  /\ chunk' = [chunk EXCEPT ![w] = c]
  /\ Goto(w, IF c = Msg(w).chunks THEN "trim" ELSE "write")
  /\ UNCHANGED <<kafka, receipt, listed, loop, streak, ghost, bounds>>

\* Seeded bug: chunks of a longer earlier version stay.
TrimNothing(w) ==
  /\ pc[w] = "trim"
  /\ Goto(w, "ensure")
  /\ UNCHANGED <<kafka, db, loop, streak, chunk, ghost, bounds>>

\* _DELETE_ORPHAN_CHUNKS_SQL.
Trim(w) ==
  /\ pc[w] = "trim"
  /\ rows' = [rows EXCEPT ![Msg(w).event] =
                [c \in Chunks |-> IF c <= Msg(w).chunks THEN @[c] ELSE 0]]
  /\ Goto(w, "ensure")
  /\ UNCHANGED <<kafka, receipt, listed, loop, streak, chunk, ghost, bounds>>

\* ensure_incident and the link of the event; all that is left of a blank text.
Ensure(w) ==
  /\ pc[w] = "ensure"
  /\ listed' = listed \cup {Msg(w).event}
  /\ Goto(w, IF Msg(w).kind = "blank" THEN "handled" ELSE "complete")
  /\ UNCHANGED <<kafka, rows, receipt, loop, streak, chunk, ghost, bounds>>

\* Seeded bug: the first completion is stamped again by every later one.
CompleteAgain(w) ==
  LET e == Msg(w).event IN
  /\ pc[w] = "complete"
  /\ receipt' = [receipt EXCEPT ![e].first = Msg(w).version, ![e].last = Msg(w).version]
  /\ indexed' = indexed \cup {at[w]}
  /\ streak' = [streak EXCEPT ![w] = 0]
  /\ Goto(w, "handled")
  /\ UNCHANGED <<kafka, rows, listed, loop, chunk, strayed, bounds>>

\* _COMPLETE_INDEXING_SQL, after every other write; then the streak is over.
Complete(w) ==
  LET e == Msg(w).event v == Msg(w).version IN
  /\ pc[w] = "complete"
  /\ receipt' = [receipt EXCEPT
       ![e].first = IF receipt[e].observed /\ @ = 0 THEN v ELSE @,
       ![e].last = v]
  /\ indexed' = indexed \cup {at[w]}
  /\ streak' = [streak EXCEPT ![w] = 0]
  /\ Goto(w, "handled")
  /\ UNCHANGED <<kafka, rows, listed, loop, chunk, strayed, bounds>>

----------------------------------------------------------------------------
(* Failures, the group, and the operator. *)

\* A database error, a failed produce, a kill: the exception ends the process.
\* A dead letter may have reached the topic although its produce raised.
Crash(w) ==
  /\ pc[w] # "down" /\ Fault
  /\ Die(w)
  /\ \/ UNCHANGED dlq
     \/ pc[w] = "deadletter" /\ dlq' = dlq \cup {at[w]}
  /\ UNCHANGED <<log, committed, owner, fenced, db, ghost>>

Busy(w) == pc[w] \notin {"poll", "down"}

\* The partition moves: its owner is between two polls, or was expelled while
\* it handled a message and goes on with it.
Rebalance(w) ==
  /\ owner # w /\ pc[w] = "poll" /\ Fault
  /\ HandlersKeepUp => ~Busy(owner)
  /\ owner' = w
  /\ fenced' = IF Busy(owner) THEN [fenced EXCEPT ![owner] = TRUE] ELSE fenced
  /\ at' = [at EXCEPT ![w] = committed]
  /\ UNCHANGED <<log, committed, dlq, db, pc, done, since, streak, chunk, ghost>>

\* replay_record puts a dead letter's payload back on the topic.
Replay(k) ==
  /\ k \in dlq /\ replays < MaxReplays
  /\ replays' = replays + 1
  /\ log' = Append(log, log[k])
  /\ UNCHANGED <<committed, owner, fenced, dlq, db, pc, loop, streak, chunk, ghost, faults>>

----------------------------------------------------------------------------

Step(w) ==
  \/ Receive(w) \/ Idle(w) \/ Handled(w) \/ Commit(w) \/ Restart(w)
  \/ Parse(w) \/ Encode(w) \/ DeadLetter(w) \/ Register(w)
  \/ Write(w) \/ Trim(w) \/ Ensure(w) \/ Complete(w)

NextStep(w) == Step(w) \/ (EncodeFails(w) /\ Msg(w).kind = "poison")

Next ==
  \/ \E w \in Worker : Step(w) \/ EncodeFails(w) \/ Crash(w) \/ Rebalance(w)
  \/ \E k \in dlq : Replay(k)

Spec == Init /\ [][Next]_vars

\* Every process keeps running and is restarted; the broker answers its polls.
FairSpec == Spec /\ \A w \in Worker : WF_vars(NextStep(w))

----------------------------------------------------------------------------
(* Properties. *)

KafkaOK ==
  /\ log \in Seq(Message) /\ committed \in 0 .. Len(log) /\ owner \in Worker
  /\ fenced \in [Worker -> BOOLEAN] /\ dlq \subseteq DOMAIN log
Receipt == [registered : BOOLEAN, observed : BOOLEAN, first : Nat, last : Nat]
IndexOK ==
  /\ rows \in [Event -> [Chunks -> Nat]]
  /\ receipt \in [Event -> Receipt]
  /\ listed \subseteq Event
WorkerOK ==
  /\ pc \in [Worker -> PC]
  /\ at \in [Worker -> 0 .. Len(log)] /\ done \in [Worker -> 0 .. Len(log)]
  /\ since \in [Worker -> Nat] /\ streak \in [Worker -> Nat]
  /\ chunk \in [Worker -> 0 .. MaxChunks]
HistoryOK ==
  /\ indexed \subseteq DOMAIN log /\ strayed \in BOOLEAN
  /\ faults \in 0 .. MaxFaults /\ replays \in 0 .. MaxReplays

\* Every variable stays within the values the schema and the code give it; an
\* offset, committed or in a batch, is one the partition has.
TypeOK == KafkaOK /\ IndexOK /\ WorkerOK /\ HistoryOK

\* What has become of an offset: indexed, on the dead-letter topic, or (a blank
\* text has nothing to index) registered with its incident.
Kept(k) == k \in indexed \/ k \in dlq \/ (log[k].kind = "blank" /\ log[k].event \in listed)

\* No offset is committed past a message that is not kept: consume_loop's
\* "redelivery, never loss", through batches, rebalances and the breaker.
CommittedIsKept == \A k \in 1 .. committed : Kept(k)

\* Everything is committed, and nobody has a message in hand or in a batch.
Quiet ==
  /\ committed = Len(log)
  /\ \A w \in Worker : pc[w] \in {"poll", "down"} /\ done[w] = 0

Texts(e) == {k \in DOMAIN log : log[k].event = e /\ log[k].kind = "text"}
NewestTexts(e) == {k \in Texts(e) : \A j \in Texts(e) : log[j].version <= log[k].version}

\* Once the topic is consumed, an event's rows are the chunks of its newest text
\* (unless that one was dead-lettered): none of an older text, none missing, none
\* left over, however often and by whomever its versions were written (the
\* module docstring's "effectively once in the index").
IndexIsNewest ==
  Quiet => \A e \in Event :
    NewestTexts(e) \cap dlq = {} =>
      \A k \in NewestTexts(e) : rows[e] = Whole(log[k].version, log[k].chunks)

\* The same of every topic without a replayed dead letter, unless a batch that
\* outlived its worker's assignment was committed: redelivery, two embedders and
\* crashes in the middle of an event leave no older text behind.
IndexFollowsEdits == replays = 0 /\ ~strayed => IndexIsNewest

\* "all preceding writes are acknowledged and searchable before this receipt":
\* when a receipt is stamped, the event's rows are that version, complete.
ReceiptMeansSearchable ==
  [][\A e \in Event : receipt'[e].last # receipt[e].last =>
       LET v == receipt'[e].last IN
       \E n \in Chunks : rows[e] = Whole(v, n)
                        /\ \E k \in DOMAIN log : /\ log[k].event = e
                                                /\ log[k].version = v
                                                /\ log[k].chunks = n]_vars

\* The first completion of an event is stamped once and kept by replays and
\* edits, and an event indexed before receipts existed never gets one.
FirstReceiptIsFinal ==
  [][\A e \in Event :
       /\ receipt[e].first # 0 => receipt'[e].first = receipt[e].first
       /\ e \in LegacyEvents => receipt'[e].first = 0]_vars

\* Every message is kept in the end: neither junk nor poison, nor a crash in the
\* middle of an event, wedges the partition.
TopicIsConsumed == \A k \in DOMAIN Log : <>Kept(k)
=============================================================================
