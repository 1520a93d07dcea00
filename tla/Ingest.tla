------------------------------- MODULE Ingest -------------------------------
(***************************************************************************)
(* How a status page reaches the search index: the poller's sweeps with    *)
(* their validators and back-off (freshet/ingest/poller.py), the identity  *)
(* the parser gives an update (freshet/ingest/statuspage.py), and the      *)
(* keep-first deduplication of the stream job (freshet/stream/             *)
(* dedup_job.sql).                                                         *)
(*                                                                         *)
(* A page is the history of one incident, newest update first, and changes *)
(* under the poller's feet.  Time counts sweeps: shorter back-offs never   *)
(* make a sweep skip a feed.                                               *)
(***************************************************************************)
EXTENDS Integers, Sequences, FiniteSets

CONSTANTS
  Feed,        \* feeds, one per host
  Story,       \* the statuses the page shows, in the order they are posted
  MaxEdits,    \* bound on edits of a page
  MaxWait,     \* MAX_BACKOFF_S, in sweeps
  MaxFaults,   \* bound on injected faults of all kinds
  Reverts,     \* TRUE: an edit may restore an earlier text
  NoTag        \* the feed has no validator

ASSUME IngestAssumption ==
  /\ Story \in Seq({"investigating", "monitoring", "resolved", "update"})
  /\ MaxEdits \in Nat /\ MaxWait \in Nat /\ MaxFaults \in Nat
  /\ Reverts \in BOOLEAN

VARIABLES
  \* the sites
  page, edits,
  \* the poller's memory, and the cache file
  known,       \* the ETag of a feed, which stands for the page it came with
  wait,        \* what is left of the host's back-off
  saved, savedWait,
  \* the sweep
  pc,
  polled,      \* feeds the thread pool is done with
  todo,        \* parsed updates not on the topic yet
  failed,      \* BufferedProducer._errors is not empty
  \* raw.incidents (one partition per incident) and the stream job
  raw,
  taken, checkpoint,
  index,       \* what the embedder has under every event id
  signalled,   \* transitions on incident.lifecycle
  \* history used only to state properties
  asked,       \* what is left of the pause the host was promised
  unsaved,     \* hosts promised a pause since the cache was last written
  faults

site == <<page, edits>>
memory == <<known, wait>>
disk == <<saved, savedWait>>
sweep == <<pc, polled, todo, failed>>
job == <<taken, checkpoint, index, signalled>>
ghost == <<asked, unsaved>>
vars == <<site, memory, disk, sweep, raw, job, ghost, faults>>

----------------------------------------------------------------------------
(* Pages and updates *)

Block == [minute : Nat, post : Nat \ {0}, rev : Nat]
Update == [minute : Nat, ordinal : Nat, post : Nat \ {0}, rev : Nat]

\* parse_atom numbers the updates of one minute from the top of the page.
Ordinal(p, k) == Cardinality({j \in 1 .. k - 1 : p[j].minute = p[k].minute})
Parsed(p) ==
  {[minute |-> p[k].minute, ordinal |-> Ordinal(p, k), post |-> p[k].post, rev |-> p[k].rev]
     : k \in DOMAIN p}

\* update_id, and what body_digest digests.
Id(u) == <<u.minute, u.ordinal>>
Text(u) == <<u.post, u.rev>>

\* Both sorts are stable and by created_at, which has the resolution of the page.
Before(u, v) ==
  u.minute < v.minute \/ (u.minute = v.minute /\ u.ordinal < v.ordinal)

Transition(status) ==
  CASE status = "resolved" -> {"resolved"}
    [] status = "monitoring" -> {"in_progress"}
    [] status = "investigating" -> {"opened"}
    [] OTHER -> {}
TransitionOf(u) == Transition(Story[u.post])

Fault == faults < MaxFaults /\ faults' = faults + 1

Init ==
  /\ page = [f \in Feed |-> <<>>] /\ edits = 0
  /\ known = [f \in Feed |-> NoTag] /\ wait = [f \in Feed |-> 0]
  /\ saved = [f \in Feed |-> NoTag] /\ savedWait = [f \in Feed |-> 0]
  /\ pc = "sleep" /\ polled = {} /\ todo = [f \in Feed |-> {}] /\ failed = FALSE
  /\ raw = [f \in Feed |-> <<>>]
  /\ taken = [f \in Feed |-> 0] /\ checkpoint = [f \in Feed |-> 0]
  /\ index = [f \in Feed |-> <<>>] /\ signalled = [f \in Feed |-> {}]
  /\ asked = [f \in Feed |-> 0] /\ unsaved = {} /\ faults = 0

----------------------------------------------------------------------------
(* The sites *)

Post(f) ==
  /\ Len(page[f]) < Len(Story)
  /\ \E later \in {0, 1} :
       LET minute == IF page[f] = <<>> THEN 0 ELSE page[f][1].minute + later
           block == [minute |-> minute, post |-> Len(page[f]) + 1, rev |-> 0]
       IN page' = [page EXCEPT ![f] = <<block>> \o @]
  /\ UNCHANGED <<edits, memory, disk, sweep, raw, job, ghost, faults>>

Edit(f) ==
  /\ edits < MaxEdits /\ edits' = edits + 1
  /\ \E k \in DOMAIN page[f] :
       \/ page' = [page EXCEPT ![f][k].rev = @ + 1]
       \/ Reverts /\ page[f][k].rev > 0 /\ page' = [page EXCEPT ![f][k].rev = @ - 1]
  /\ UNCHANGED <<memory, disk, sweep, raw, job, ghost, faults>>

----------------------------------------------------------------------------
(* A sweep: one action per feed of the thread pool *)

BeginSweep ==
  /\ pc = "sleep" /\ pc' = "sweep" /\ polled' = {}
  /\ UNCHANGED <<site, memory, disk, todo, failed, raw, job, ghost, faults>>

\* The thread pool finishes feed f; `found` is what one(page) returns.
Finish(f, found) ==
  /\ pc = "sweep" /\ f \notin polled
  /\ polled' = polled \cup {f}
  /\ todo' = [todo EXCEPT ![f] = found]
  /\ UNCHANGED <<site, disk, pc, failed, raw, job>>

Skip(f) ==
  /\ wait[f] > 0
  /\ Finish(f, {})
  /\ UNCHANGED <<memory, ghost, faults>>

Fetched(f) ==
  /\ wait[f] = 0
  /\ asked' = [asked EXCEPT ![f] = 0] /\ unsaved' = unsaved \ {f}
  /\ UNCHANGED wait

NotModified(f) ==
  /\ Fetched(f) /\ known[f] = page[f]
  /\ Finish(f, {})
  /\ UNCHANGED <<known, faults>>

\* A server that ignores the validator sends the same body again.
Modified(f) ==
  /\ Fetched(f)
  /\ page[f] # <<>>
  /\ Finish(f, Parsed(page[f]))
  /\ known' = [known EXCEPT ![f] = page[f]]
  /\ \/ known[f] # page[f] /\ UNCHANGED faults
     \/ known[f] = page[f] /\ Fault

\* Seeded bug: the validator is stored whatever the body said.
NothingRemembered(f) ==
  /\ Fetched(f) /\ known[f] # page[f]
  /\ Finish(f, {})
  /\ known' = [known EXCEPT ![f] = page[f]]
  /\ \/ page[f] = <<>> /\ UNCHANGED faults
     \/ page[f] # <<>> /\ Fault

\* A body without updates: a page that has none yet, or markup nobody can
\* parse.  Its validator is not stored.
Nothing(f) ==
  /\ Fetched(f) /\ known[f] # page[f]
  /\ Finish(f, {})
  /\ UNCHANGED known
  /\ \/ page[f] = <<>> /\ UNCHANGED faults
     \/ page[f] # <<>> /\ Fault

\* Seeded bug: Retry-After is obeyed without the cap.
FetchFailsUncapped(f) ==
  /\ Fault /\ wait[f] = 0
  /\ \E pause \in 0 .. MaxWait + 1 :
       wait' = [wait EXCEPT ![f] = pause] /\ asked' = [asked EXCEPT ![f] = pause]
  /\ unsaved' = unsaved \cup {f}
  /\ Finish(f, {})
  /\ UNCHANGED known

\* An error, with the pause the host asks for or the one its failures earn it.
FetchFails(f) ==
  /\ Fault /\ wait[f] = 0
  /\ \E pause \in 0 .. MaxWait :
       wait' = [wait EXCEPT ![f] = pause] /\ asked' = [asked EXCEPT ![f] = pause]
  /\ unsaved' = unsaved \cup {f}
  /\ Finish(f, {})
  /\ UNCHANGED known

EndSweep ==
  /\ pc = "sweep" /\ polled = Feed /\ pc' = "produce"
  /\ UNCHANGED <<site, memory, disk, polled, todo, failed, raw, job, ghost, faults>>

----------------------------------------------------------------------------
(* Producing what the sweep found, oldest update first *)

Send(f, u) == raw' = [raw EXCEPT ![f] = Append(@, u)]

\* The next message of feed f is handed to the producer.
Dequeue(f, u) ==
  /\ pc = "produce" /\ u \in todo[f]
  /\ \A v \in todo[f] \ {u} : Before(u, v)
  /\ todo' = [todo EXCEPT ![f] = @ \ {u}]
  /\ UNCHANGED <<site, memory, disk, pc, polled, job, ghost>>

Produce(f) ==
  \E u \in todo[f] : Dequeue(f, u) /\ Send(f, u) /\ UNCHANGED <<failed, faults>>

\* Its delivery report is an error; it may be on the topic all the same.
ProduceFails(f) ==
  /\ Fault /\ failed' = TRUE
  /\ \E u \in todo[f] : Dequeue(f, u) /\ (Send(f, u) \/ UNCHANGED raw)

\* The process is gone, with everything in its memory.
Die ==
  /\ pc' = "down"
  /\ known' = [f \in Feed |-> NoTag] /\ wait' = [f \in Feed |-> 0]
  /\ todo' = [f \in Feed |-> {}] /\ polled' = {} /\ failed' = FALSE
  /\ asked' = [f \in Feed |-> IF f \in unsaved THEN 0 ELSE asked[f]]
  /\ unsaved' = {}
  /\ UNCHANGED <<site, disk, raw, job>>

\* Seeded bug: flush() in place of flush_checked().
FlushUnchecked ==
  /\ pc = "produce" /\ \A f \in Feed : todo[f] = {}
  /\ pc' = "save" /\ failed' = FALSE
  /\ UNCHANGED <<site, memory, disk, polled, todo, raw, job, ghost, faults>>

Flush ==
  /\ pc = "produce" /\ \A f \in Feed : todo[f] = {}
  /\ \/ /\ ~failed /\ pc' = "save"
        /\ UNCHANGED <<site, memory, disk, polled, todo, failed, raw, job, ghost>>
     \/ failed /\ Die
  /\ UNCHANGED faults

Save ==
  /\ pc = "save" /\ pc' = "sleep"
  /\ saved' = known /\ savedWait' = wait
  /\ unsaved' = {}
  /\ UNCHANGED <<site, memory, polled, todo, failed, raw, job, asked, faults>>

\* "A cache write must never interrupt polling."
SaveFails ==
  /\ pc = "save" /\ pc' = "sleep" /\ Fault
  /\ UNCHANGED <<site, memory, disk, polled, todo, failed, raw, job, ghost>>

Crash == pc # "down" /\ Fault /\ Die

\* Seeded bug: restore_backoff is not called.
RestartEager ==
  /\ pc = "down" /\ pc' = "sleep"
  /\ known' = saved /\ wait' = [f \in Feed |-> 0]
  /\ UNCHANGED <<site, disk, polled, todo, failed, raw, job, ghost, faults>>

Restart ==
  /\ pc = "down" /\ pc' = "sleep"
  /\ known' = saved /\ wait' = savedWait
  /\ UNCHANGED <<site, disk, polled, todo, failed, raw, job, ghost, faults>>

\* Deadlines are wall-clock times on disk: they run out while the poller is down.
CountDown(timer) == [f \in Feed |-> IF timer[f] > 0 THEN timer[f] - 1 ELSE 0]
Tick ==
  /\ \E f \in Feed : wait[f] > 0 \/ savedWait[f] > 0 \/ asked[f] > 0
  /\ wait' = CountDown(wait) /\ savedWait' = CountDown(savedWait)
  /\ asked' = CountDown(asked)
  /\ UNCHANGED <<site, known, saved, sweep, raw, job, unsaved, faults>>

----------------------------------------------------------------------------
(* The stream job, and the embedder behind it *)

\* ROW_NUMBER() = 1: the first message with this identity and text, and the
\* first with this transition.
IdAndText(u) == <<Id(u), Text(u)>>
IsNewText(f, k) == \A j \in 1 .. k - 1 : IdAndText(raw[f][j]) # IdAndText(raw[f][k])
IsNewTransition(f, k) == \A j \in 1 .. k - 1 : TransitionOf(raw[f][j]) # TransitionOf(raw[f][k])

Overwrite(rows, id, text) ==
  [x \in DOMAIN rows \cup {id} |-> IF x = id THEN text ELSE rows[x]]

Take(f) ==
  LET k == taken[f] + 1
      u == raw[f][k]
  IN /\ k <= Len(raw[f])
     /\ taken' = [taken EXCEPT ![f] = k]
     /\ index' = IF IsNewText(f, k)
                 THEN [index EXCEPT ![f] = Overwrite(@, Id(u), Text(u))] ELSE index
     /\ signalled' = IF IsNewTransition(f, k)
                     THEN [signalled EXCEPT ![f] = @ \cup TransitionOf(u)] ELSE signalled
     /\ UNCHANGED <<site, memory, disk, sweep, raw, checkpoint, ghost, faults>>

Checkpoint ==
  /\ checkpoint # taken /\ checkpoint' = taken
  /\ UNCHANGED <<site, memory, disk, sweep, raw, taken, index, signalled, ghost, faults>>

\* The job resumes from its last checkpoint, or is submitted anew and starts at
\* the earliest offset with nothing in its state (`make stream`); either way it
\* emits again what it emitted since then, for its sinks are at-least-once.
JobRestarts ==
  /\ Fault
  /\ taken' \in {checkpoint, [f \in Feed |-> 0]} \ {taken}
  /\ checkpoint' = taken'
  /\ UNCHANGED <<site, memory, disk, sweep, raw, index, signalled, ghost>>

----------------------------------------------------------------------------

Fetch(f) == NotModified(f) \/ Modified(f) \/ Nothing(f)
Environment ==
  \/ \E f \in Feed : Post(f) \/ Edit(f) \/ FetchFails(f) \/ ProduceFails(f)
  \/ SaveFails \/ Crash \/ Checkpoint \/ JobRestarts
Poller ==
  \/ BeginSweep \/ EndSweep \/ Flush \/ Save \/ Restart
  \/ \E f \in Feed : Skip(f) \/ Fetch(f) \/ Produce(f)
Next == Environment \/ Poller \/ Tick \/ \E f \in Feed : Take(f)

Spec == Init /\ [][Next]_vars
FairSpec == Spec /\ WF_vars(Poller) /\ WF_vars(Tick) /\ \A f \in Feed : WF_vars(Take(f))

----------------------------------------------------------------------------
(* Properties *)

Tags == Seq(Block) \cup {NoTag}

\* What raw.incidents has acknowledged of a feed.
Said(f) == {raw[f][k] : k \in DOMAIN raw[f]}

\* Every variable has its type.
TypeOK ==
  /\ page \in [Feed -> Seq(Block)] /\ edits \in Nat
  /\ known \in [Feed -> Tags] /\ wait \in [Feed -> 0 .. MaxWait]
  /\ saved \in [Feed -> Tags] /\ savedWait \in [Feed -> 0 .. MaxWait]
  /\ pc \in {"sleep", "sweep", "produce", "save", "down"}
  /\ polled \subseteq Feed /\ todo \in [Feed -> SUBSET Update] /\ failed \in BOOLEAN
  /\ raw \in [Feed -> Seq(Update)]
  /\ taken \in [Feed -> Nat] /\ checkpoint \in [Feed -> Nat]
  /\ \A f \in Feed : checkpoint[f] <= taken[f] /\ taken[f] <= Len(raw[f])
  /\ signalled \in [Feed -> SUBSET {"opened", "in_progress", "resolved"}]
  /\ asked \in [Feed -> 0 .. MaxWait] /\ unsaved \subseteq Feed /\ faults \in Nat

\* A validator survives a restart only if Kafka has acknowledged everything the
\* page said when it was given: answered "not modified" from then on, the
\* poller would never see those updates again.
ValidatorIsEarned == \A f \in Feed : saved[f] # NoTag => Parsed(saved[f]) \subseteq Said(f)

\* What update u says is what the index has under its id, and the autopilot
\* has had its transition.
Published(f, u) ==
  /\ Id(u) \in DOMAIN index[f] /\ index[f][Id(u)] = Text(u)
  /\ TransitionOf(u) \subseteq signalled[f]

\* Once the poller has nothing more to fetch and the job nothing more to read,
\* the index says what the page says ("an edit re-emits", sources.py), whatever
\* crashes, partial batches and replays it took to get there.
PublishedIsCurrent ==
  \A f \in Feed :
    saved[f] = page[f] /\ taken[f] = Len(raw[f]) => \A u \in Parsed(page[f]) : Published(f, u)

\* A host that was promised a pause is left alone until it is over, although
\* the poller is restarted in between: only a pause that never reached the
\* cache file is forgotten.
BackoffIsHonoured ==
  [][\A f \in Feed : f \notin polled /\ f \in polled' /\ wait[f] = 0 => asked[f] = 0]_vars

\* When the page settles, every update on it is published in the end: no fault
\* leaves the poller with a validator for updates nobody has seen.
PageIsPublished == \A f \in Feed : <>[](\A u \in Parsed(page[f]) : Published(f, u))
=============================================================================
