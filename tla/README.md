# Freshet: verification project

TLA+ models of Freshet's own logic, TLC runs that check them on small
instances, and theorems proved with TLAPS for instances of every size.
Everything is translated from the source; line numbers refer to the commit
this directory sits beside.

To run: `tlc -config <cfg> <module>` for a run of `PROJECT.json`, `tlapm
<module>.tla` for a proof module.

## 1. The system

Freshet polls public status pages, streams their updates through Kafka into a
vector index, and posts incident briefs to Slack.

    status pages -> poller -> raw.incidents -> Flink SQL job -> normalized.updates -> embedder -> Postgres (pgvector)
                                                             -> incident.lifecycle -> autopilot -> Slack
                                                                                         ^ thread replies

| part | state it keeps | operations | what makes it correct |
|---|---|---|---|
| poller (`ingest/poller.py`) | per-feed validators and acknowledged digests (memory and Postgres), per-host backoff | a sweep every 60 s: fetch, parse, produce, flush, remember | a feed is answered "not modified" only when everything it said was acknowledged by Kafka; a rate-limited host is left alone, never for ever |
| status page parser (`ingest/statuspage.py`) | none | Atom feed to updates with identity and body digest | an update keeps its identity when the page grows or its text is edited, except that one put on top renames the others of its minute (section 6) |
| stream job (`stream/dedup_job.sql`) | Flink keep-first state | dead-letter, dedup, lifecycle projection | an edit is emitted again under the same event id; each transition once |
| embedder (`pipeline/embedder.py`) | dead-letter streak, offsets of a batch | parse, encode, write chunks, receipt, dead-letter | a committed message is indexed or dead-lettered; a receipt means searchable |
| autopilot (`autopilot/consumer.py`) | none in memory; the `incidents` row holds intents, leases and delivered marks | handle an event, drain due briefs and owed follow-ups | section 3 |
| thread agent (`autopilot/thread_agent.py`) | `thread_seen_ts` per incident | poll replies, answer, mark seen | no question lost, none answered twice without a crash |
| LLM budget (`rag/budget.py`) | calls per hour in Postgres | check the day, spend the hour, call | caps hold whoever spends and however often processes restart |
| supervisor (`ops/supervisor.py`) | children, fast deaths in a row | poll, back off, restart, halt, shut down | crashes are restarted; a dependency outage stops the run; no orphan survives |
| retrieval (`rag/retrieval.py`) | none; reads `vector_records` in one SELECT per arm | vector arm, keyword arm, rank fusion, abstention | what both arms found comes first; the nearest chunk is not thrown away |
| readiness guard and retrieval evaluation (`ops/index_ready.py`, `eval/live_retrieval.py`) | the lag of each group, the candidates left | read the lags, wait or start, ask | it does not start before the backlog it saw is searchable |
| heartbeat (`common/heartbeat.py`) | `_last` in memory, one row per minute in Postgres | beat, prune | the log shows an outage as a gap, and an ordinary restart as none |
| freshness report (`eval/freshness.py`) | none; reads log and receipts | start of the continuous run, score, batch arm | nothing posted before the end of an outage in the log it read is scored, nothing posted live is missed |
| consume loop (`common/kafka_io.py`) | newest uncommitted message per partition | poll, handle, commit in batches, idle work | no offset is committed past unhandled or unflushed work |

The parts share Kafka topics and Postgres rows only. The hard behaviours are
the interleavings of two consumers of one group (rebalances, an expelled
worker that goes on), crashes between two autocommitted statements, replies
lost after the database or Slack acted, redelivery after a restart, leases
that run out under a live worker, keep-first deduplication in front of
consumers that overwrite, and reports that read several pieces of state one
after the other beside a running pipeline. `PROJECT.json` lists them, line by line, under
`hazards`.

## 2. Modules and plan

| module | models | composed with |
|---|---|---|
| `Delivery` | autopilot handler, drains, consume loop, sink | contains its consumer group and topic; `DeliveryPromise` is its abstract specification |
| `Indexing` | embedder, receipts, dead letters and their replay | contains its consumer group and topic |
| `Supervisor` | the supervisor's loop and its children | alone: the other modules assume what it promises (a dead process comes back) |
| `Ingest` | poller, update identity, stream job | poller, topic and job together; the embedder is its overwrite |
| `Budget` | the table of LLM calls | extended by `ThreadAgent` |
| `ThreadAgent` | thread poller and its spending | `Budget`, and whatever else spends from it |
| `Freshness` | heartbeat, receipts, freshness report | the embedder reduced to what it beats and stamps (`Indexing` has the rest of it) |
| `LiveEval` | readiness guard, hybrid search, retrieval evaluation | the poller, the stream job and the embedder reduced to their topics and offsets, as `Ingest` and `Indexing` have them |
| `MC*` | the small instances for TLC | |
| `DeliveryProofs`, `IndexingProofs`, `SupervisorProofs`, `IngestProofs`, `ThreadAgentProofs`, `FreshnessProofs`, `LiveEvalProofs` | theorems, section 11 | |
| `Sums` | lemmas on sums over finite sets, section 11 | used by `ThreadAgentProofs` and `FreshnessProofs` |

The order was delivery first (the product, and the richest in hazards), then
what feeds it (indexing, ingest), what restarts it (supervisor), what shares
its budget (thread agent), and at last what measures it (freshness, live
evaluation).

What could be added, most important first:

1. The autopilot downstream of the stream job: can the order in which a page's
   updates are produced (two in one minute) lose a brief? `Ingest` and
   `Delivery` over one lifecycle topic.
2. `ConsumeLoop`: `kafka_io.consume_loop` with several partitions per worker,
   as an abstract promise ("no offset is committed past unhandled work") that
   `Delivery` and `Indexing` instantiate.
3. Follow-up order: a progress update posted below the postmortem. `Delivery`
   shows that it happens; a property needs a statement of what is wanted.
4. `Indexing` without `HandlersKeepUp` (a receipt can then be stamped beside a
   successor's writes), and the breaker over restarts.
5. Two threads for `ThreadAgent` in TLC (two questions in each of two threads
   pass five million states; the proofs cover them, the liveness run does not).
6. Pure functions against references: chunk packing, citation filter, time
   windows.
7. Proofs: every safety and action property of the passing runs has its theorem
   but the liveness properties, which the prover cannot state; what is added
   above needs its own.
## 3. Delivery: the autopilot's delivery engine

`Delivery.tla` models `consumer.py` as `consume_loop` drives it, with one
action per SQL statement, LLM call or sink call. The `incidents` row of
incident `i` is spread over functions:

| code | model |
|---|---|
| `opened_at`, `resolved_at`, `slack_ts` | `opened[i]`, `resolvedAt[i]`, `slackTs[i]` (a post's position; 0 is NULL) |
| `brief_due_at` / `progress_needed` / `postmortem_needed` | `needed[i][slot]`, and `dueIn[i]`, the ticks of debounce left |
| `briefed_at` / `progress_at` / `postmortem_at` | `lease[i][slot]`, the ticks left (0: NULL or expired, which every statement treats alike) |
| `*_delivered_at IS NOT NULL` | `delivered[i][slot]` |
| lifecycle topic, group offsets, group membership | `log`, `committed`, `owner`, `fenced` |
| where a process is, what it has in its locals | `pc`, `phase`, `src`, `off`, `cur`, `slot`, `todo`, `thread`, `exc` |
| the Slack channel | `posts[i]` |

`lost` counts posts whose mark never came and `faults` bounds what goes wrong;
both are history. The handler is `HandleOpened` .. `ClaimFollowup`, the leased
delivery `Claim`, `Gather`, `Post`, `Mark`, `Release`, the drains `SelectDue`
.. `DrainDone`, and the environment `Crash`, `Rebalance`, `EmbedderRegisters`,
`Tick`. `Claim` also has the outcome in which the UPDATE ran, its reply was
lost and `ResilientConnection` repeated it.

Abstractions. `ORDER BY` in the drain queries is any order, so what holds here
holds for every order. Sink attempts are not counted: `PostFails` may repeat,
within `MaxFaults`. A worker polls only between messages, so a rebalance that
takes the partition of a message in hand means the worker was expelled
(`fenced`), and its commit raises. The log of a run is fixed at the start;
events the job emits later are events not received yet. `wait_for_index` only
delays. The stdout and dry-run sinks return no `ts` and are left out. Event
times are small integers; an unparseable `ts` (the code takes `now()`) is left
out.

`DeliveryPromise.tla` says what this amounts to: slots become owed, are shown
until settled and never after, follow-ups only once the brief is settled.
`KeepsPromise` is the refinement.

| run | instance | shows |
|---|---|---|
| `delivery_two_workers` | 1 incident, 2 workers, opened/in_progress/resolved, lease 2 ticks, debounce 1, 1 fault; 1.03 M states | `ExclusiveDelivery`, `DeliveredIsFinal`, `DuplicatesAreExcused`, `FollowupsAreThreaded`, `CommittedIntentIsDurable`, `KeepsPromise` |
| `delivery_live` | 2 fair workers, `LIMIT` 1, lease 1, debounce 0; one incident with an unusual log (too old, mid-life, resolved first, emitted twice) and 1 fault, or two incidents of which one is never briefed; 181 k states | `OwedIsDelivered`, `LogIsConsumed`: owed work is delivered, every event committed, and no incident starves the other |
| `delivery_budget` | violation of `BudgetDefers` | a spent budget ends the process on the handler's path |

Two workers are enough for the races over a row (a claim has one winner and
one loser), one incident for the properties of a row, two for the queries with
`LIMIT`; three slots and three events give every order of follow-ups and
brief; one fault puts a crash, lost reply, lost mark or expulsion at every
step; a failure during the recovery from another one is covered by the
proofs, which are about any number of faults. `LeaseTicks` 2 lets a lease
outlive the step that took it and expire before the next drain.

`CommittedIntentIsDurable` says nothing of a resolved event that finds no row,
which the code drops (`consumer.py:242`): the log of its run ensures the row
first, and no property covers the embedder's insert coming in between.

`LeaseOutlivesDelivery` is what the comment at `consumer.py:24` asks of
`LEASE_MINUTES`. The code does not enforce it: with the constant FALSE TLC
finds a delivered message posted again (`DeliveredIsFinal`), so every result
that needs it names it.

Fairness: every worker keeps taking its next step (`WF` of `Step`, which
includes the supervisor's restart), time passes (`WF` of `Tick`), and a
consumer that polls again and again is handed what its partitions hold (`SF`
of `Receive`: between two messages the idle tick also takes the worker out of
"poll"). Failures are never forced, and there are at most `MaxFaults` of them:
the liveness results say that the system recovers once failures stop.

## 4. Indexing: the embedder

`Indexing.tla` models `embedder.py` under the batching `consume_loop`, one
action per database write or produce.

| code | model |
|---|---|
| `normalized.updates`, group offsets, membership | `log`, `committed`, `owner`, `fenced` |
| `deadletter.events` | `dlq`, the offsets whose message is there |
| `vector_records` | `rows[e][c]`, the version chunk `c` was written from |
| `event_indexing` | `receipt[e]` |
| incident rows, and their link to the event | `listed` |
| `pending`, `since_commit` | `done`, `since` |
| `streak["deadletters"]` | `streak` |

`Receive`, `Idle`, `Handled`, `Commit`, `Restart` are the loop; `Parse`,
`Encode`, `EncodeFails`, `DeadLetter`, `Register`, `Write` (one chunk),
`Trim`, `Ensure`, `Complete` the handler; `Crash`, `Rebalance` and `Replay`
the environment and the operator. A message is a text, a blank, junk (fails
to parse) or poison (never embeds); other texts fail to embed at most
`MaxFaults` times.

Abstractions: one partition; the retries inside one embed are one failure;
embeddings, metrics and heartbeats are left out; the replayer's own offsets
follow the same loop and are not modelled. With `HandlersKeepUp` no handler
outlives `max.poll.interval.ms`; a worker in the middle of a message is then
never expelled. `IndexFollowsEdits` and `ReceiptMeansSearchable` need this (an
expelled worker upserts and trims beside its successor); the theorems on what
is kept and on first receipts do not.

| run | instance | shows |
|---|---|---|
| `indexing_mixed` | 2 events, 2 fair workers, batches of 3, breaker at 2, 2 faults, 1 replay; six messages of every kind, one event edited to a shorter text, one indexed before receipts existed; 296 k states | `CommittedIsKept`, `IndexFollowsEdits`, `ReceiptMeansSearchable`, `FirstReceiptIsFinal`, `TopicIsConsumed` |
| `indexing_handover` | violation of `IndexIsNewest`: one event edited to a shorter text, 2 workers, 2 faults, no replay | the old owner of a partition commits its batch while the new owner writes it anew and then crashes: the older text stays |

Two chunks make a shorter text leave an orphan, two versions an older text
that could win, batches shorter than the log commits with work behind them,
two faults a failure and a crash in the same batch.

`_commit_pending` commits whatever `pending` holds, and nothing empties
`pending` when a rebalance takes the partition away. The broker compares the
member and the generation of a commit, not its assignment, so the offset is
taken; a client that refuses it raises instead, which ends the process.
`Commit` has both outcomes, and `strayed` remembers that the first one
happened. `indexing_handover` shows what it can cost, and a replayed dead
letter (`MaxReplays` 1 in the same configuration) can overwrite a newer text
just as well, which no property excludes: `FirstReceiptIsFinal` is about the
receipt only. `IndexFollowsEdits` is `IndexIsNewest` without these two:
redelivery, crashes in the middle of an event and rebalances at any other
moment leave no older text behind. Both texts of an edited event fit into one
batch of `indexing_mixed`, so that a batch can be written a second time by
another worker.

Fairness: every worker keeps taking its next step, restarts included. Poison
counts as a next step, because embedding it fails deterministically; any other
failure is never forced.

## 5. Supervisor

`Supervisor.tla` models `supervise()`: `alive`, `age` (since
`child.started_at`) and `fast` are the fields of a child, `next` is the
position of the `for` loop, `timer` what is left of the sleep it is in,
`waited` the local of that name. Time is discrete and passes only in sleeps;
`Exit` (a child dies) and `Signal` happen at any moment. `Loop`, `BeginScan`,
`SkipAlive`, `FindDead`, `Restart`, `EndScan` are one round, `Terminate`,
`Reap`, `Ended` the shutdown. Ages stop at the back-off, beyond which no
comparison tells them apart. Spawning is assumed to work,
and the `children` listed in `main` to be distinct (`Order` is injective). The
shutdown's grace period is one step: whoever outlives it is killed.

| run | instance | shows |
|---|---|---|
| `supervisor_three` | 3 children, back-off 3, fast death 2, halt at 2, one child that not even SIGKILL ends, fair; 516 k states | `RestartsAreThrottled`, `DowntimeIsBounded` (`MaxDowntime` is one back-off), `HaltMeansOutage`, `NoOrphans`, `DeadIsRestarted`, `SignalIsObeyed` |
| `supervisor_outage` | violation of `OutageHalts`: 2 children, back-off 6, fast death 3 | a child that dies young while the loop sleeps for another is counted as long-lived |

The code has three children, so three is the real number. The back-off is
longer than the fast death limit and a multiple of the poll interval, as 30,
15 and 1 s are; more ticks only add instants at which nothing else is decided.
`supervisor_outage` takes `Slack` 1 and a back-off of twice the limit, so that
its counterexample does not hang on one tick.

Fairness: the supervisor runs and its sleeps end. Nothing is assumed of the
children or of signals, which is why the run may also stop (deadlock checking
is off: after `Ended` nothing is left to do).

## 6. Ingest: poller, parser, stream job

`Ingest.tla` follows an update from a status page to the index.

| code | model |
|---|---|
| a provider's page | `page[f]`, the blocks of one incident, newest first, each with minute, post and revision |
| `ConditionalCache` and its file | `known`, `saved`: the ETag, named by the page it came with |
| `HostBackoff` and its file | `wait`, `savedWait`, in sweeps |
| the sweep | `pc`, `polled`, `todo`, and `failed` (`BufferedProducer._errors`) |
| `raw.incidents` | `raw[f]`, one partition |
| Flink source offsets and checkpoint | `taken`, `checkpoint`; keep-first state is a function of what was taken |
| `vector_records` | `index[f]`, the text under each event id |
| `incident.lifecycle` | `signalled[f]` |

`Post` and `Edit` change the page at any time. `BeginSweep`, `Skip`,
`NotModified`, `Modified`, `Nothing`, `FetchFails`, `EndSweep`, `Produce`,
`ProduceFails`, `Flush`, `Save`, `SaveFails`, `Crash`, `Restart` are the
poller, `Take`, `Checkpoint`, `JobRestarts` the job. `Parsed` numbers the
updates of one minute from the top of the page as `parse_atom` does, so that a
new update in the same minute renames the older one.

Abstractions: one incident per page, one feed per host (the registry has no
host twice); `Last-Modified` stands and falls with the ETag; body limits, gzip,
time zones and the two fallback markups are left out, and so are the 24 hour
filter and the dead letters of the job. Back-offs shorter than a sweep are 0.
The embedder is its overwrite, as section 4 justifies.

| run | instance | shows |
|---|---|---|
| `ingest_pages` | 1 feed, 2 updates (opened, resolved), possibly in one minute, 1 edit, back-off up to 2 sweeps, 2 faults, fair; 381 k states | `ValidatorIsEarned`, `PublishedIsCurrent`, `BackoffIsHonoured`, `PageIsPublished` |
| `ingest_revert` | violation of `PublishedIsCurrent`: edits may restore an earlier text | keep-first deduplication drops the restored text, and the index keeps the withdrawn one |

Feeds meet only in the flush and the save, which fail for all of them
together; with one feed the failure of another is the failed flush. Two
updates give a duplicate minute and a page that grows in mid-sweep, two faults
a failed delivery followed by a crash.

Fairness: the poller goes on (the supervisor restarts it), sweeps come round,
the job reads what it is handed. Posts, edits and faults are never forced and
are bounded, so `PageIsPublished` is about pages that settle.

## 7. Thread agent and LLM budget

`ThreadAgent.tla` models `thread_agent.py`, with `Budget.tla` for the table
both it and the briefs spend from.

| code | model |
|---|---|
| `llm_budget` | `calls[a]`, the calls of the hour `a` hours ago |
| a Slack thread | `thread[i]`, its messages; a position is a `ts`, the brief is 0 |
| threads briefed in the last 24 hours, newest first | `open` |
| `thread_seen_ts` | `seen[i]` (0: NULL) |
| the rows of `_OPEN_THREADS_SQL`, the replies of the thread in hand | `rows[w]`, `todo[w]` (filtered as the loop filters them) |
| the message in hand, `_next_at` | `question[w]`, `waiting[w]` |

`Poll` takes the snapshot, `Fetch` is `conversations.replies`, `Search`
everything up to the composer, `CheckDay` and `Spend` the two statements of
`_spend`, `Post` and `Mark` the answer and its mark. `FetchFails` and
`PostFails` end in the next thread or, rate-limited, in the end of the poll;
a failed post may have been shown. `Crash` is any other exception as well.
`CheckDayForOther` and `SpendForOther` are a brief's or follow-up's call from
the same table. `unmarked` and `overlapped` are history.

Abstractions: what is retrieved and said; the lengths of the two pauses (both
end the poll and keep the worker out until `Due`); Slack lists all replies,
oldest first, in one page; a thread leaves the watch at any time after its
brief, in order. Rows of the table older than the day are not kept: no
statement reads them, and `prune` deletes them.

| run | instance | shows |
|---|---|---|
| `thread_questions` | 2 workers, 1 thread with 2 messages, 1 other call, caps of 2 an hour and 2 in a day of 2 hours, 1 fault, fair; 666 k states | `NoQuestionIsSkipped`, `RepeatsAreExcused`, `HourlyCapHolds`, `DailyCapHolds`, `QuestionsAreAnswered` |

Two messages are needed for a mark between two answers, two workers for stale
snapshots and for the race between `_DAY_SQL` and `_SPEND_SQL` (the run
reaches a day with one call too many; `DailyCapHolds` is tight), a day of two
hours for refusals of the day after a quiet hour.

Fairness: every worker takes its next step, its pause ends, the hour turns.
`QuestionsAreAnswered` promises nothing for a thread that is no longer among
the first `LIMIT` of the last 24 hours.

## 8. Freshness: heartbeat, receipts, report

`Freshness.tla` asks whether the report on indexing delay scores what it
claims to: updates posted while the pipeline was running.

| code | model |
|---|---|
| the database's clock; minutes of `date_trunc` | `now`, in ticks; `Trunc` |
| the provider's stamp of an update | `ts[u]`, by the minute (`None`: not posted) |
| `pipeline_heartbeat_log` | `beats`, the minutes of component "embedder" |
| `event_indexing.first_queryable_at` | `first[u]` |
| `Heartbeat._last` | `last[w]` (`Never`: a new process) |
| the report's two reads | `stage`; `seen` and `seenAt`, `scored` and `scoredAt` |

`Beat` is `Heartbeat.beat` with its throttle, `Prune` is `prune_log`,
`Complete` the receipt, `ReadLog` the query and walk of
`continuous_run_start`, `ReadReceipts` the query of `main`, `Sweep` the batch
arm. `calls` is history: the ticks in which some embedder called `beat()`,
which is what "the pipeline was demonstrably running" means.

`RunStart` is the walk back from the newest row, stated as the least row from
which there is no gap; `MCFreshness` checks the equality with the loop over
all logs of ten minutes (`WalkIsRunStart`). Updates reach the embedders
whenever the upstream gets to it and more than once; an embedder may stall or
be down for any time.

Abstractions: one component of the log; the batch interval is a whole number
of ticks, with one alignment per tick; `--since-minutes`, the percentiles and
the printing are left out. The one-row table `pipeline_heartbeat` is written
by the same call and read by nobody in the source. A beat and the receipt
before it take two steps, so every order of beats, prunes and reads happens.

| run | instance | shows |
|---|---|---|
| `freshness_report` | 1 embedder, 1 update, minutes of 2 ticks, throttle 2, tolerance 2, retention 6, ticks 0 to 8; 6.60 M states | `CatchUpIsExcluded`, `LiveArrivalsAreScored`, `BatchArmIsNeutral` |

Nine ticks hold a run, an outage longer than the tolerance and the minute that
truncation hides, and the beat that ends it. The retention is shorter than
that, so `Prune` deletes rows in the run, and a prune that cuts two minutes
deeper (the mutant `PruneEarly`) loses live arrivals. One update is enough because reports score each on
its own, and one embedder because the log does not say who beat; the theorems
are about any number of both. `MCFreshness` looks at a finished report before
anything else happens, which loses no report: nothing reads it but the
properties.

`CatchUpIsExcluded` speaks of outages whose last beat is in the log that the
report read. The log and the receipts are read in two statements; a beat
between them leaves the start of the run before the outage it ends, and a
receipt that comes with it is scored. TLC finds this when the excuse is
removed; one transaction around both reads would close it.

What `LiveArrivalsAreScored` takes for granted is named in it: pauses between
calls of at most `Pause`, which is the tolerance less the throttle (a beat the
throttle swallows is lost), and a run that the retention has not reached. With
the code's 300 and 30 s that leaves 271 s, which the longest downtime section
5 allows (one back-off of 30 s) does not use up.

There is no liveness here: nothing in the source waits for a report.

## 9. Live evaluation: readiness and search

`LiveEval.tla` puts the readers of the index beside its writers. `make
live-eval` waits until the pipeline has no backlog, then asks the index about
incidents it knows and scores where their other updates are ranked; the thread
agent asks the same search at any time.

| code | model |
|---|---|
| `raw.incidents`, `normalized.updates` and the offsets of their groups | `raw`, `updates`, `streamOffset`, `embedderOffset` |
| the running Flink job | `taken`; its offsets are committed by `Checkpoint` |
| `vector_records` | `index`: the message a `chunk_id` (event, ordinal) was written from |
| `wait_ready` | `stage`, `last` (was each lag 0?), `mark` (history: the length of the topic at that moment) |
| `eligible_candidates`, the loop over them | `todo`, the query events left |
| `hybrid_search` | `at`, `ask`; `vec` and `kw` the two arms, `hits`, `abstained` |

`ReadLag` is one `rpk group describe`, `WaitOn`, `Again` and `Start` the rest
of the guard; `VectorArm` and `KeywordArm` are one SELECT each with its
filter, order and limit, `Fuse` is `reciprocal_rank_fusion`, the cut to K + 1
and the abstention; `Score` takes the candidate that was asked off the loop.
`Produce`,
`Emit`, `Checkpoint`, `JobRestarts`, `Upsert`, `Trim`, `Commit`,
`EmbedderRestarts` are the pipeline, reduced to what the guard and the search
read.

Abstractions. A chunk's text is its message and ordinal, and a question says
what it makes of every text: cosine, centered cosine, full-text rank (0: no
match), whether a centroid is stored, and the window its words imply. RRF
scores are exact fractions; the code's are floats. With `ARM_K` not above
`RRF_K`, as in the code, no chunk of one arm can outweigh one of both. Events
are numbered by their `ts`, which orders updates within an incident and
serves the time filter. Every message embeds and has text: what is
dead-lettered or blank is section 4's matter and leaves the index as it is.
The recall numbers (`dedupe_events`, `score_one`, `aggregate`) are left out: of
the evaluation there remains that it starts behind the guard and asks each
candidate once, its own event excluded. The single arms and the blind control,
the tsquery, the model guard, and the composer behind the search are left out
too.

An assumption about `rpk group describe`, which is not part of the repository:
the TOTAL-LAG of a group that has committed nothing yet is all its topic holds.
A group that `rpk` does not know is an error, which the guard counts as "not
clear" (`index_ready.py`, `test_index_ready.py`).

| run | instance | shows |
|---|---|---|
| `live_eval` | 1 incident of 2 updates, the second edited to a shorter text, arms of 3, K 1, 8 questions, 1 fault; 4.48 M states | `ReadyMeansIndexed`, `NearestIsHeard`, `AgreementWins` |

Four chunks are more than an arm returns, the edit removes one between the two
SELECTs, two arms that agree or oppose each other in both spaces give every
kind of ranking, and one fault puts a restart of the job or the embedder, or a
failed `rpk`, at every step. `MCLiveEval` lets what a search does on its own
happen at once, except between its SELECTs; asks only behind the guard; and
asks fewer questions after a fault. None of this hides an interleaving that a
property reads: a search touches nothing the pipeline or the guard reads.

`NearestIsHeard` names its exception, the `Rivals` of the nearest chunk: more
chunks than are returned that both arms found and that the keyword arm, if it
found the nearest at all, ranks above it. That case is real (the cut comes
before the abstention looks), and TLC finds it, with a nearest chunk that only
the vector arm found, when the exception is removed. A nearest chunk that both
arms found can be outranked too, but only by arms deeper than those of the run:
with `ARM_K` 20, `RRF_K` 60 and 6 results, six chunks that are second to seventh
by cosine and first to sixth by keyword would come before one that is first and
twentieth. The proof of section 11 showed that this case had to be excepted. Writers
between the two SELECTs matter to it only through a chunk that both arms found
with different texts; `AgreementWins` is a property of the fusion and does not
depend on them.

There is no liveness here: the guard gives up at a deadline and may do so
again and again while the pipeline is fed.

## 10. What is not modelled

- Retrieval beyond ranking: the tsquery, the model guard, the cached centroid,
  the phrases that imply a time window (`rag/timeframe.py`), composing and
  citing (`rag/composer.py`). They are functions of strings or prose; what a
  question makes of a text is a parameter of `LiveEval`.
- Chunk packing (`pipeline/chunking.py`) and the embedding models: a text is a
  number of chunks, and its similarities are given.
- Evaluation: the single arms and the blind control, recall at other K,
  `--since-minutes`, percentiles and printing. They read what is modelled and
  write nothing.
- HTML, XML and date parsing, Slack blocks and markdown: formats. What parsing
  decides about identity and order is in `Ingest`.
- Several partitions of one worker (`kafka_io.py`): each module has one.
- A spawn that raises in the supervisor, and a delivery that raises every time:
  each ends the process, and only an operator ends that; both are listed as
  hazards.
- Metrics and gauges: nothing modelled reads them.
- Migrations, topic creation, deployment files, demonstrations: scripts that
  run once, or on synthetic data.

`PROJECT.json` has the complete list with reasons under `components`.

## 11. Proofs

| theorem | module | statement |
|---|---|---|
| `TypeCorrect` | `DeliveryProofs` | `Spec => [](TypeOK /\ HandInv)` |
| `LeaseIsALock` | `DeliveryProofs` | with `LeaseOutlivesDelivery`, `Spec => []ExclusiveDelivery` |
| `DeliveryIsFinal` | `DeliveryProofs` | with `LeaseOutlivesDelivery`, `Spec => DeliveredIsFinal` |
| `OnlyLostMarksRepeat` | `DeliveryProofs` | with `LeaseOutlivesDelivery`, `Spec => []DuplicatesAreExcused` |
| `FollowupsStayInThread` | `DeliveryProofs` | `Spec => []FollowupsAreThreaded` |
| `IntentsAreDurable` | `DeliveryProofs` | `Spec => []CommittedIntentIsDurable` |
| `EngineKeepsPromise` | `DeliveryProofs` | with `LeaseOutlivesDelivery`, `Spec => KeepsPromise` (the refinement of `DeliveryPromise`) |
| `IndexingTypes` | `IndexingProofs` | `Spec => [](TypeOK /\ HandInv)` |
| `NothingIsLost` | `IndexingProofs` | `Spec => []CommittedIsKept` |
| `IndexIsEffectivelyOnce` | `IndexingProofs` | with `HandlersKeepUp` and `EditsInOrder`, `Spec => []IndexFollowsEdits` |
| `ReceiptsAreSearchable` | `IndexingProofs` | with `HandlersKeepUp`, `Spec => ReceiptMeansSearchable` |
| `FirstReceiptsAreFinal` | `IndexingProofs` | `Spec => FirstReceiptIsFinal` |
| `SupervisorTypes` | `SupervisorProofs` | `Spec => []TypeOK` |
| `RestartsThrottled` | `SupervisorProofs` | `Spec => RestartsAreThrottled` |
| `NoFalseAlarm` | `SupervisorProofs` | with `Slack = 0`, `Spec => []HaltMeansOutage` |
| `EndedLeavesNobody` | `SupervisorProofs` | `Spec => []NoOrphans` |
| `OneBackoffAtMost` | `SupervisorProofs` | with `Poll <= Backoff <= MaxDowntime`, `Spec => []DowntimeIsBounded` |
| `IngestTypes` | `IngestProofs` | `Spec => []TypeOK` |
| `ValidatorsAreEarned` | `IngestProofs` | `Spec => []ValidatorIsEarned` |
| `PausesAreHonoured` | `IngestProofs` | `Spec => BackoffIsHonoured` |
| `IndexIsCurrent` | `IngestProofs` | with `~Reverts`, `Spec => []PublishedIsCurrent` |
| `ThreadTypes` | `ThreadAgentProofs` | `Spec => [](TypeOK /\ RowInv)` |
| `HourlyCapIsHard` | `ThreadAgentProofs` | `Spec => []HourlyCapHolds` |
| `DailyCapIsNearlyHard` | `ThreadAgentProofs` | for finitely many workers, at least one, `Spec => []DailyCapHolds` |
| `NothingIsSkipped` | `ThreadAgentProofs` | `Spec => []NoQuestionIsSkipped` |
| `OnlyLostMarksAnswerAgain` | `ThreadAgentProofs` | `Spec => []RepeatsAreExcused` |
| `TypeCorrect` | `FreshnessProofs` | `Spec => []TypeOK` |
| `NoCatchUpIsScored` | `FreshnessProofs` | `Spec => []CatchUpIsExcluded` |
| `NoLiveArrivalIsLost` | `FreshnessProofs` | `Spec => []LiveArrivalsAreScored` |
| `BatchArmDoesNotMove` | `FreshnessProofs` | `Spec => []BatchArmIsNeutral` |
| `ReadinessIsSound` | `LiveEvalProofs` | `Spec => []ReadyMeansIndexed` |
| `NearestIsNotLost` | `LiveEvalProofs` | `Spec => []NearestIsHeard` |
| `AgreementIsRespected` | `LiveEvalProofs` | `Spec => []AgreementWins` |

They hold for constants of every size, from the named `ASSUME` of each module
(`DeliveryAssumption`, `IndexingAssumption`, `SupervisorAssumption`,
`IngestAssumption`, `BudgetAssumption`, `ThreadAssumption`,
`FreshnessAssumption`, `LiveEvalAssumption`) and the premises in the table.
`IndexIsCurrent` also takes the marker `NoTag` not to be a page.

**Premises.** `LeaseOutlivesDelivery` is what the lease of 15 minutes is chosen
for ("must exceed the debounce window plus worst-case LLM latency"); without it
two workers post the same slot. `HandlersKeepUp` says the same of
`max.poll.interval.ms`. `IndexFollowsEdits` itself excepts replays and strayed
batches; `indexing_handover` shows the second exception to be needed. `~Reverts`
is what `ingest_revert` is about. With `Slack = 0` a young death is any within
`FAST_DEATH_S` of the start; the run `supervisor_outage` takes 1, so that only
deaths clearly within it count against the code.

**Delivery.** `HandInv` says that a worker handling an event has one in hand
and that one working on a slot has an incident in hand; without it the row
updates `[f EXCEPT ![cur[w]] = ...]` could not be typed. `ExclusiveDelivery`
is not inductive: a claim is won when the lease is 0, which excludes another
holder only if every holder has a running lease. `ClaimHeld` adds that, and
that the held slot is undelivered, which gives `DeliveredIsFinal` for free.
`LeaseOutlivesDelivery` is used directly once, in the step of the clock.
`DupInv` counts: a slot that is neither delivered nor about to be marked shows
only copies whose mark was lost, and the lock says that a slot about to be
posted is of that kind. `FollowupsAreThreaded` needs no lease: `RootInv` says
that a delivered brief left the position of a brief in `slack_ts`, and `Aim`
that a worker about to post a follow-up, or to mark a brief, holds such a
position.

`CommittedIntentIsDurable` speaks of committed offsets only. `IntentInv`
extends it to what a worker received and what it has written so far: every
event before the one in hand is `Settled`, and past the writes of the handler
that one is as well (`Known`, `InHand`). Rows only grow, so `Settled` is
stable; a `resolved` event that found no row is settled because no event before
it had made one. `EngineKeepsPromise` is a step simulation: a write of an
intent owes a slot, a post shows one, a mark settles one that was shown
(`BackedInv`), every other step is a stutter.

**Indexing.** `CommittedIsKept` says nothing of what a worker is about to
commit. `KeptInv` extends it to every worker: all offsets up to the one it has
dealt with (`Behind`: its position, less the message in the handler) are kept,
and so are those of its uncommitted batch; a message leaves the handler only by
`Complete`, `DeadLetter` or the blank branch, each of which keeps it, and a
restarted worker begins at `committed`. `OneWriter` is what `HandlersKeepUp`
gives: nobody but the owner is inside `handle` (`Alone`), so the message it has
in hand is in the index up to its `chunk`, and whole once it is past `Trim`
(`Progress`). `ReceiptsAreSearchable` follows at the step that stamps;
`FirstReceiptsAreFinal` needs no such premise, only that the first chunk of an
event never goes once it is there (`FirstChunkStays`), so that a later
registration still sees that a legacy event was indexed before (`LegacyInv`).
`EditInv` is about the owner again: the newest text of every event up to what
it has dealt with is in the index. A crash moves the owner back to `committed`, not past it, and what it then
rewrites is an older text only of messages whose newest is still ahead of it.

**Supervisor.** `SleepInv`: in a back-off the loop stands at a dead child, and
what is left of the sleep completes that child's own pause; hence
`RestartsThrottled`. `AlarmInv` relates `fast` to the deaths that really were
young: what the loop measures is never shorter than the life, so it can only
count too few (which is what `supervisor_outage` shows), never too many.
`ReapInv`: what the shutdown has passed is dead or cannot be killed.
`OneBackoffAtMost` is the theorem with the least obvious invariant: the loop
sleeps for one child after the other, yet no child waits for the sum. Every age
advances with every sleep, so no child has been down longer than one before it
in the list has lived (`OutlivedInv`), and those sleeps end at the back-off; a
child the pass left behind has a poll of its back-off to spare (`PassInv`).
It is why `Freshness` may take pauses between beats to be short.

**Ingest.** `EarnInv`: what the memory's validator covers is on the topic or
still to be produced (`Covered`), and nothing is left to be produced when the
cache is written (`NothingLeft`); a failed delivery ends the process before
the save. `PauseInv` does the same for back-off: what is left of a promise is
bounded by memory, and by the file unless the promise has not been saved.
`IndexIsCurrent` follows a text to the index. Pages only grow and are edited in
place, so whatever was parsed is `Below` the page: the id still stands there,
for the same post in a later revision or for a later post of that minute (ids
move up, never down). Hence texts of an id are produced in the order
`NotNewer`; without reverts, the first message of the last text comes after
every other first message of that id, and the keep-first job, which drops the
rest, leaves that text in the index (`JobInv`), also when it starts over.

**Thread agent.** `CapInv`: whoever passed the day's check knows that the caps
are not zero, which the first call of an hour needs, since the INSERT compares
it with nothing. `DailyCapHolds` is not inductive: it says nothing of those who
have read the day and not yet spent. `DayInv` counts them (`Spenders`): the
day's calls and they together stay below the cap plus the workers less one,
since a worker joins them only while the calls are below the cap, and then it
leaves a place among at most all others; a spent hour turns a spender into a
call. `SkipInv`: every mark, in the table or in a snapshot, is
`Safe` (no open question at or before it); whatever stands before a reply a
worker still has is answered or among its replies (`Behind`); the reply in
hand is its oldest. Threads only grow, so old snapshots stay safe, and a mark
that moves back under a stale poll moves to a safe position. `Rep` counts
answers while polls do not overlap: an answer beyond the mark is `Exposed`,
every exposed answer was counted in `unmarked` when its mark was lost, and
only an exposed one can be repeated, which ends its exposure.

**Freshness.** `Throttled`: behind every call the throttle swallowed there is a
logged one, less than the interval before it. `SeenOK` carries that into the
log the report read, where a row may be gone only if it is older than the
retention. The rest is arithmetic on minutes: a gap between rows wider than
the tolerance needs a pause of more than `Pause` between calls, and a run
start is at a call, less the rest of its minute.

`BatchArmDoesNotMove` is arithmetic, too: the staleness of one update over the
phases of the batch is a bijection onto 1 .. `Batch` (`StalenessIsBijective`),
so one update adds `Batch * (Batch + 1) / 2` to the sum of the sweep, and the
updates of the receipts are finitely many (`Posted`).

**Sums.** `SumFunction` of the library is a fold, defined by a recursive
function that is chosen. `Sums` shows that such a function exists (`AdderExists`)
and that a sum loses the term that is taken out (`SumTakesOut`); from there,
that sums of equal terms are equal, of naturals a natural, and of a bijection
the same. The library's induction theorems take a predicate as parameter; here
induction is about sets instead: `FiniteInduction` and `InductiveSet` say that a
set of subsets, or of numbers, that is closed under one step is everything,
and rest on `WFMin`, the least counterexample of a well-founded order.

**Live evaluation.** `FlowInv`: what the job has committed was emitted, what
the embedder has handled left its first chunk, and no later edit removes a
first chunk. `GuardInv` follows the two reads: the first lag 0 means that all
up to `mark` is emitted, and only the second, read later, that it is handled;
restarts of the job add messages and take none away.

A ranking of the model counts for each member what is not after it.
`RanksFollowTheOrder` and `EveryRankIsTaken` show that this numbers any finite
set with a total order (`Chain`), so that `Top` lists it in order and each
member at its rank (`TopIsInOrder`). An arm is such a list, of a snapshot whose
rows are finitely many and typed (`IndexOK`); the fused order is one, because
comparing fractions by products is transitive (`HigherIsAnOrder`) and no two
chunks entered the dictionary at once (`EnteredOnce`). The places of a list are
at most `ARM_K`, hence with `ARM_K <= RRF_K` two shares outweigh one
(`TwoSharesOutweighOne`), which is all `AgreementIsRespected` needs beside the
order. For `NearestIsNotLost`, whatever the fusion has before the nearest chunk
is a rival of it (`OnlyRivalsAreAhead`), and so its rank is at most one more
than they are.

Model-checked only: all liveness (fairness and `ENABLED` are outside the
prover's reach) and what the four runs that end in a violation show. Every
other property of the runs is stated by a theorem above.
