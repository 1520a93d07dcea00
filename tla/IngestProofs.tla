---------------------------- MODULE IngestProofs ----------------------------
(***************************************************************************)
(* Theorems about Ingest, for any feeds, any story and any numbers of      *)
(* edits and faults; but for the last one, whether or not edits are        *)
(* reverted.                                                               *)
(***************************************************************************)
EXTENDS Ingest, FiniteSetTheorems, SequenceTheorems, TLAPS

LEMMA ParsedType == ASSUME NEW p \in Seq(Block) PROVE Parsed(p) \subseteq Update
<1>1. ASSUME NEW k \in DOMAIN p PROVE Ordinal(p, k) \in Nat
  <2>1. 1 \in Int /\ k - 1 \in Int
    OBVIOUS
  <2>. IsFiniteSet(1 .. k - 1)
    BY <2>1, FS_Interval
  <2>2. IsFiniteSet({j \in 1 .. k - 1 : p[j].minute = p[k].minute})
    BY FS_Subset
  <2>. QED
    BY <2>2, FS_CardinalityType DEF Ordinal
<1>2. ASSUME NEW k \in DOMAIN p PROVE p[k] \in Block
  OBVIOUS
<1>. QED
  BY <1>1, <1>2 DEF Parsed, Update, Block

LEMMA TransitionType == \A u : TransitionOf(u) \subseteq {"opened", "in_progress", "resolved"}
BY DEF TransitionOf, Transition

\* What Append does to the length, the type and the content of a partition.
LEMMA SendType ==
  ASSUME TypeOK, NEW f \in Feed, NEW u \in Update, Send(f, u)
  PROVE  /\ raw' \in [Feed -> Seq(Update)]
         /\ \A g \in Feed : Len(raw[g]) <= Len(raw'[g])
         /\ \A g \in Feed : Said(g) \subseteq Said(g)'
         /\ u \in Said(f)'
<1>. DEFINE s == raw[f]
<1>1. s \in Seq(Update) /\ raw \in [Feed -> Seq(Update)]
  BY DEF TypeOK
<1>2. /\ Append(s, u) \in Seq(Update) /\ Len(Append(s, u)) = Len(s) + 1
      /\ \A k \in 1 .. Len(s) : Append(s, u)[k] = s[k]
      /\ Append(s, u)[Len(s) + 1] = u
  BY <1>1, AppendProperties
<1>3. raw' = [raw EXCEPT ![f] = Append(s, u)]
  BY DEF Send
<1>4. \A g \in Feed : g # f => raw'[g] = raw[g]
  BY <1>1, <1>3
<1>5. raw'[f] = Append(s, u)
  BY <1>1, <1>3
<1>6. raw' \in [Feed -> Seq(Update)]
  BY <1>1, <1>2, <1>3
<1>7. Said(f) \subseteq Said(f)' /\ u \in Said(f)'
  <2>1. DOMAIN s = 1 .. Len(s) /\ DOMAIN raw'[f] = 1 .. Len(s) + 1 /\ Len(s) \in Nat
    BY <1>1, <1>2, <1>5
  <2>. QED
    BY <1>2, <1>5, <2>1 DEF Said
<1>8. \A g \in Feed : Len(raw[g]) <= Len(raw'[g])
  BY <1>1, <1>2, <1>4, <1>5
<1>9. \A g \in Feed : Said(g) \subseteq Said(g)'
  BY <1>4, <1>7 DEF Said
<1>. QED
  BY <1>6, <1>7, <1>8, <1>9

\* A process that ends, and a feed the thread pool is done with, are well typed.
LEMMA DieType == ASSUME TypeOK, Die PROVE
  /\ known' \in [Feed -> Tags] /\ wait' \in [Feed -> 0 .. MaxWait]
  /\ todo' \in [Feed -> SUBSET Update] /\ asked' \in [Feed -> 0 .. MaxWait]
BY IngestAssumption DEF TypeOK, Die, Tags

LEMMA TypeStep == ASSUME TypeOK, [Next]_vars PROVE TypeOK'
<1>. USE DEF TypeOK
<1>v. \A f \in Feed : page[f] \in Seq(Block) /\ page[f] \in Tags
  BY DEF Tags
<1>1. ASSUME NEW f \in Feed, Post(f) PROVE TypeOK'
  <2>1. PICK later \in {0, 1} :
          LET minute == IF page[f] = <<>> THEN 0 ELSE page[f][1].minute + later
              block == [minute |-> minute, post |-> Len(page[f]) + 1, rev |-> 0]
          IN page' = [page EXCEPT ![f] = <<block>> \o @]
    BY <1>1 DEF Post
  <2>. DEFINE minute == IF page[f] = <<>> THEN 0 ELSE page[f][1].minute + later
              block == [minute |-> minute, post |-> Len(page[f]) + 1, rev |-> 0]
  <2>2. minute \in Nat
    <3>1. CASE page[f] = <<>> BY <3>1
    <3>2. CASE page[f] # <<>>
      <4>1. page[f][1] \in Block
        BY <3>2, <1>v
      <4>. QED
        BY <4>1, <3>2 DEF Block
    <3>. QED
      BY <3>1, <3>2
  <2>3. block \in Block
    BY <2>2, <1>v DEF Block
  <2>4. <<block>> \o page[f] \in Seq(Block)
    BY <2>3, <1>v, ConcatProperties
  <2>5. page' = [page EXCEPT ![f] = <<block>> \o page[f]]
    BY <2>1
  <2>. HIDE DEF block
  <2>6. page' \in [Feed -> Seq(Block)]
    BY <2>4, <2>5
  <2>. QED
    BY <1>1, <2>6 DEF Post, memory, disk, sweep, job, ghost
<1>2. ASSUME NEW f \in Feed, Edit(f) PROVE TypeOK'
  <2>1. PICK k \in DOMAIN page[f], n \in Nat :
          page' = [page EXCEPT ![f][k].rev = n]
    <3>1. PICK k \in DOMAIN page[f] :
            \/ page' = [page EXCEPT ![f][k].rev = @ + 1]
            \/ page[f][k].rev > 0 /\ page' = [page EXCEPT ![f][k].rev = @ - 1]
      BY <1>2 DEF Edit
    <3>2. page[f][k] \in Block
      BY <1>v
    <3>3. page[f][k].rev \in Nat
      BY <3>2 DEF Block
    <3>4. CASE page' = [page EXCEPT ![f][k].rev = @ + 1]
      <4>1. page' = [page EXCEPT ![f][k].rev = page[f][k].rev + 1]
        BY <3>4
      <4>2. page[f][k].rev + 1 \in Nat
        BY <3>3
      <4>. QED
        BY <4>1, <4>2
    <3>5. CASE page[f][k].rev > 0 /\ page' = [page EXCEPT ![f][k].rev = @ - 1]
      <4>1. page' = [page EXCEPT ![f][k].rev = page[f][k].rev - 1]
        BY <3>5
      <4>2. page[f][k].rev - 1 \in Nat
        BY <3>3, <3>5
      <4>. QED
        BY <4>1, <4>2
    <3>. QED
      BY <3>1, <3>4, <3>5
  <2>. DEFINE block == [page[f][k] EXCEPT !.rev = n]
  <2>2. page[f][k] \in Block
    BY <1>v
  <2>3. block \in Block
    BY <2>2 DEF Block
  <2>4. page' = [page EXCEPT ![f] = [page[f] EXCEPT ![k] = block]]
    BY <2>1
  <2>. HIDE DEF block
  <2>5. [page[f] EXCEPT ![k] = block] \in Seq(Block)
    BY <2>3, <1>v, ExceptSeq
  <2>6. page' \in [Feed -> Seq(Block)]
    BY <2>4, <2>5
  <2>. QED
    BY SMTT(30), <1>2, <2>6 DEF Edit, memory, disk, sweep, job, ghost
<1>3. CASE BeginSweep
  BY <1>3 DEF BeginSweep, site, memory, disk, job, ghost
<1>4. ASSUME NEW f \in Feed, Skip(f) PROVE TypeOK'
  BY <1>4 DEF Skip, Finish, site, memory, disk, job, ghost
<1>5. ASSUME NEW f \in Feed, NotModified(f) PROVE TypeOK'
  BY <1>5, IngestAssumption DEF NotModified, Fetched, Finish, site, disk, job
<1>6. ASSUME NEW f \in Feed, Modified(f) PROVE TypeOK'
  <2>1. Parsed(page[f]) \subseteq Update
    BY <1>v, ParsedType
  <2>2. todo' \in [Feed -> SUBSET Update] /\ known' \in [Feed -> Tags]
    BY <1>6, <1>v, <2>1 DEF Modified, Finish
  <2>. QED
    BY <1>6, <2>2, IngestAssumption DEF Modified, Fetched, Finish, Fault, site, disk, job
<1>7. ASSUME NEW f \in Feed, Nothing(f) PROVE TypeOK'
  BY <1>7, IngestAssumption DEF Nothing, Fetched, Finish, Fault, site, disk, job
<1>8. ASSUME NEW f \in Feed, FetchFails(f) PROVE TypeOK'
  BY <1>8 DEF FetchFails, Finish, Fault, site, disk, job
<1>9. CASE EndSweep
  BY <1>9 DEF EndSweep, site, memory, disk, job, ghost
<1>10. ASSUME NEW f \in Feed, Produce(f) PROVE TypeOK'
  <2>1. PICK u \in todo[f] : Dequeue(f, u) /\ Send(f, u) /\ UNCHANGED <<failed, faults>>
    BY <1>10 DEF Produce
  <2>2. u \in Update
    OBVIOUS
  <2>3. raw' \in [Feed -> Seq(Update)] /\ \A g \in Feed : Len(raw[g]) <= Len(raw'[g])
    BY <2>1, <2>2, SendType
  <2>4. \A g \in Feed : taken[g] <= Len(raw'[g])
    BY <2>3
  <2>. QED
    BY <2>1, <2>3, <2>4 DEF Dequeue, site, memory, disk, job, ghost
<1>11. ASSUME NEW f \in Feed, ProduceFails(f) PROVE TypeOK'
  <2>1. PICK u \in todo[f] : Dequeue(f, u) /\ (Send(f, u) \/ UNCHANGED raw)
    BY <1>11 DEF ProduceFails
  <2>2. u \in Update
    OBVIOUS
  <2>3. raw' \in [Feed -> Seq(Update)] /\ \A g \in Feed : Len(raw[g]) <= Len(raw'[g])
    BY SMTT(30), <2>1, <2>2, SendType
  <2>4. \A g \in Feed : taken[g] <= Len(raw'[g])
    BY <2>3
  <2>5. failed' \in BOOLEAN /\ faults' \in Nat
    BY <1>11 DEF ProduceFails, Fault
  <2>6. Dequeue(f, u)
    BY <2>1
  <2>. QED
    BY <2>3, <2>4, <2>5, <2>6 DEF Dequeue, site, memory, disk, job, ghost
<1>12. CASE Flush
  <2>1. CASE failed /\ Die
    BY <1>12, <2>1, DieType DEF Flush, Die, site, disk, job
  <2>2. CASE ~failed
    BY <1>12, <2>2 DEF Flush, site, memory, disk, job, ghost
  <2>. QED
    BY <1>12, <2>1, <2>2 DEF Flush
<1>13. CASE Save
  BY <1>13 DEF Save, site, memory, job
<1>14. CASE SaveFails
  BY <1>14 DEF SaveFails, Fault, site, memory, disk, job, ghost
<1>15. CASE Crash
  <2>1. Die /\ faults' \in Nat
    BY <1>15 DEF Crash, Fault
  <2>. QED
    BY <2>1, DieType DEF Die, site, disk, job
<1>16. CASE Restart
  BY <1>16 DEF Restart, site, disk, job, ghost
<1>17. CASE Tick
  <2>1. ASSUME NEW timer \in [Feed -> 0 .. MaxWait] PROVE CountDown(timer) \in [Feed -> 0 .. MaxWait]
    BY IngestAssumption DEF CountDown
  <2>. QED
    BY <1>17, <2>1 DEF Tick, site, sweep, job
<1>18. ASSUME NEW f \in Feed, Take(f) PROVE TypeOK'
  <2>1. signalled' \in [Feed -> SUBSET {"opened", "in_progress", "resolved"}]
    BY <1>18, TransitionType DEF Take
  <2>2. taken' = [taken EXCEPT ![f] = taken[f] + 1] /\ taken[f] + 1 <= Len(raw[f])
    BY <1>18 DEF Take
  <2>3. taken' \in [Feed -> Nat] /\ \A g \in Feed : taken[g] <= taken'[g] /\ taken'[g] <= Len(raw[g])
    BY <2>2
  <2>4. UNCHANGED <<site, memory, disk, sweep, raw, checkpoint, ghost, faults>>
    BY <1>18 DEF Take
  <2>5. \A g \in Feed : checkpoint[g] <= taken'[g]
    BY <2>3
  <2>. QED
    BY <2>1, <2>3, <2>4, <2>5 DEF site, memory, disk, sweep, ghost
<1>19. CASE Checkpoint
  BY SMTT(30), <1>19 DEF Checkpoint, site, memory, disk, sweep, ghost
<1>20. CASE JobRestarts
  <2>1. \A g \in Feed : Len(raw[g]) \in Nat
    OBVIOUS
  <2>2. /\ checkpoint' = taken' /\ faults' \in Nat
        /\ UNCHANGED <<site, memory, disk, sweep, raw, signalled, ghost>>
    BY <1>20 DEF JobRestarts, Fault
  <2>3. taken' \in [Feed -> Nat] /\ \A g \in Feed : taken'[g] <= Len(raw[g])
    <3>1. CASE taken' = checkpoint
      <4>1. \A g \in Feed : checkpoint[g] \in Nat /\ taken[g] \in Nat
        OBVIOUS
      <4>2. \A g \in Feed : checkpoint[g] <= Len(raw[g])
        BY <2>1, <4>1
      <4>. QED
        BY <3>1, <4>2
    <3>2. CASE taken' = [f \in Feed |-> 0]
      BY <2>1, <3>2
    <3>. QED
      BY <1>20, <3>1, <3>2 DEF JobRestarts
  <2>4. \A g \in Feed : checkpoint'[g] <= taken'[g] /\ taken'[g] <= Len(raw'[g])
    <3>1. \A g \in Feed : taken'[g] \in Nat
      BY <2>3
    <3>. QED
      BY <2>2, <2>3, <3>1
  <2>. QED
    BY <2>2, <2>3, <2>4 DEF site, memory, disk, sweep, ghost
<1>21. CASE UNCHANGED vars
  BY <1>21 DEF vars, site, memory, disk, sweep, job, ghost
<1>. QED
  BY <1>1, <1>2, <1>3, <1>4, <1>5, <1>6, <1>7, <1>8, <1>9, <1>10, <1>11, <1>12, <1>13, <1>14,
     <1>15, <1>16, <1>17, <1>18, <1>19, <1>20, <1>21 DEF Next, Environment, Poller, Fetch

\* Every variable keeps its type, and the stream job never reads past the end
\* of its topic nor checkpoints past what it has read.
THEOREM IngestTypes == Spec => []TypeOK
<1>1. ASSUME Init PROVE TypeOK
  <2>. <<>> \in Seq(Block) /\ <<>> \in Seq(Update) /\ Len(<<>>) = 0
    OBVIOUS
  <2>1. 0 \in 0 .. MaxWait
    BY IngestAssumption
  <2>2. /\ page \in [Feed -> Seq(Block)] /\ raw \in [Feed -> Seq(Update)]
        /\ known \in [Feed -> Tags] /\ saved \in [Feed -> Tags]
    BY <1>1 DEF Init, Tags
  <2>3. \A f \in Feed : checkpoint[f] = 0 /\ taken[f] = 0 /\ Len(raw[f]) = 0
    BY <1>1 DEF Init
  <2>4. /\ wait \in [Feed -> 0 .. MaxWait] /\ savedWait \in [Feed -> 0 .. MaxWait]
        /\ asked \in [Feed -> 0 .. MaxWait] /\ todo \in [Feed -> SUBSET Update]
        /\ taken \in [Feed -> Nat] /\ checkpoint \in [Feed -> Nat]
        /\ signalled \in [Feed -> SUBSET {"opened", "in_progress", "resolved"}]
    BY <1>1, <2>1 DEF Init
  <2>5. \A f \in Feed : checkpoint[f] <= taken[f] /\ taken[f] <= Len(raw[f])
    BY <2>3
  <2>6. edits \in Nat /\ faults \in Nat /\ polled \subseteq Feed /\ unsaved \subseteq Feed
        /\ failed \in BOOLEAN /\ pc \in {"sleep", "sweep", "produce", "save", "down"}
    BY <1>1 DEF Init
  <2>. QED
    BY <2>2, <2>4, <2>5, <2>6 DEF TypeOK
<1>2. TypeOK /\ [Next]_vars => TypeOK'
  BY TypeStep
<1>. QED
  BY <1>1, <1>2, PTL DEF Spec

----------------------------------------------------------------------------
(* Validators.  The cache file is only as good as the memory it is written *)
(* from, so the invariant follows a validator from the fetch on: what its  *)
(* page said is on the topic or still to be produced, as long as no        *)
(* delivery report was an error; and the sweep starts and is saved with    *)
(* nothing left to produce.                                                *)

Earned(f) == saved[f] # NoTag => Parsed(saved[f]) \subseteq Said(f)
Covered(f) == ~failed /\ known[f] # NoTag => Parsed(known[f]) \subseteq Said(f) \cup todo[f]
NothingLeft(f) ==
  pc \in {"sleep", "save", "down"} \/ (pc = "sweep" /\ f \notin polled) => todo[f] = {}
EarnInv ==
  /\ pc # "produce" => ~failed
  /\ \A f \in Feed : Earned(f) /\ Covered(f) /\ NothingLeft(f)

\* A feed the thread pool is done with: its validator covers what was found.
LEMMA FinishEarns ==
  ASSUME EarnInv, TypeOK, NEW f \in Feed, NEW found, Finish(f, found),
         \/ known' = known
         \/ known' = [known EXCEPT ![f] = page[f]] /\ found = Parsed(page[f])
  PROVE  EarnInv'
<1>. USE DEF EarnInv, TypeOK
<1>1. /\ pc = "sweep" /\ pc' = "sweep" /\ f \notin polled /\ polled' = polled \cup {f}
      /\ raw' = raw /\ saved' = saved /\ failed' = failed
      /\ todo' = [todo EXCEPT ![f] = found]
  BY DEF Finish, disk
<1>2. todo[f] = {}
  BY <1>1 DEF NothingLeft
<1>3. ASSUME NEW g \in Feed PROVE Earned(g)' /\ Covered(g)' /\ NothingLeft(g)'
  <2>1. Said(g)' = Said(g) /\ Earned(g)'
    BY <1>1 DEF Said, Earned
  <2>2. CASE g = f
    BY <1>1, <1>2, <2>1, <2>2 DEF Covered, NothingLeft
  <2>3. CASE g # f
    BY <1>1, <2>1, <2>3 DEF Covered, NothingLeft
  <2>. QED
    BY <2>1, <2>2, <2>3
<1>. QED
  BY <1>1, <1>3

\* The message at the head of a feed's queue moves from `todo` to the topic, or
\* is lost together with the sweep.
LEMMA DequeueEarns ==
  ASSUME EarnInv, TypeOK, NEW f \in Feed, NEW u \in todo[f], Dequeue(f, u),
         \/ Send(f, u) /\ (failed' = failed \/ failed')
         \/ raw' = raw /\ failed'
  PROVE  EarnInv'
<1>. USE DEF EarnInv, TypeOK
<1>1. /\ pc = "produce" /\ pc' = pc /\ polled' = polled /\ known' = known /\ saved' = saved
      /\ todo' = [todo EXCEPT ![f] = @ \ {u}]
  BY DEF Dequeue, memory, disk
<1>2. u \in Update
  OBVIOUS
<1>3. \A g \in Feed : Said(g) \subseteq Said(g)'
  <2>1. CASE Send(f, u)
    BY <1>2, <2>1, SendType
  <2>2. CASE raw' = raw
    BY <2>2 DEF Said
  <2>. QED
    BY <2>1, <2>2
<1>4. ASSUME NEW g \in Feed PROVE Earned(g)' /\ Covered(g)' /\ NothingLeft(g)'
  <2>1. Earned(g)' /\ NothingLeft(g)'
    BY <1>1, <1>3 DEF Earned, NothingLeft
  <2>2. ASSUME ~failed', known[g] # NoTag PROVE Parsed(known[g]) \subseteq Said(g)' \cup todo'[g]
    <3>1. Send(f, u) /\ ~failed
      BY <2>2
    <3>2. u \in Said(f)'
      BY <1>2, <3>1, SendType
    <3>3. Parsed(known[g]) \subseteq Said(g) \cup todo[g]
      BY <2>2, <3>1 DEF Covered
    <3>4. todo[g] \subseteq todo'[g] \cup Said(g)'
      BY <1>1, <3>2
    <3>. QED
      BY <1>3, <3>3, <3>4
  <2>3. Parsed(known'[g]) = Parsed(known[g])
    BY <1>1
  <2>. QED
    BY <1>1, <2>1, <2>2, <2>3 DEF Covered
<1>. QED
  BY <1>1, <1>4

LEMMA DieEarns == ASSUME EarnInv, Die PROVE EarnInv'
BY DEF EarnInv, Die, Earned, Covered, NothingLeft, Said, disk

LEMMA EarnStep == ASSUME EarnInv, TypeOK, [Next]_vars PROVE EarnInv'
<1>. USE DEF EarnInv
<1>1. ASSUME UNCHANGED <<memory, disk, sweep, raw>> PROVE EarnInv'
  BY <1>1 DEF memory, disk, sweep, Earned, Covered, NothingLeft, Said
<1>2. ASSUME UNCHANGED <<known, saved, sweep, raw>> PROVE EarnInv'
  BY <1>2 DEF sweep, Earned, Covered, NothingLeft, Said
<1>3. ASSUME NEW f \in Feed, Post(f) \/ Edit(f) \/ Take(f) PROVE EarnInv'
  BY <1>1, <1>3 DEF Post, Edit, Take
<1>4. CASE BeginSweep
  BY <1>4 DEF BeginSweep, memory, disk, Earned, Covered, NothingLeft, Said
<1>5. ASSUME NEW f \in Feed, Skip(f) \/ NotModified(f) \/ Nothing(f) \/ FetchFails(f) PROVE EarnInv'
  <2>1. known' = known /\ Finish(f, {})
    BY <1>5 DEF Skip, NotModified, Nothing, FetchFails, memory
  <2>. QED
    BY <2>1, FinishEarns
<1>6. ASSUME NEW f \in Feed, Modified(f) PROVE EarnInv'
  BY <1>6, FinishEarns DEF Modified
<1>7. CASE EndSweep
  BY <1>7 DEF EndSweep, memory, disk, Earned, Covered, NothingLeft, Said
<1>8. ASSUME NEW f \in Feed, Produce(f) PROVE EarnInv'
  BY <1>8, DequeueEarns DEF Produce
<1>9. ASSUME NEW f \in Feed, ProduceFails(f) PROVE EarnInv'
  BY <1>9, DequeueEarns DEF ProduceFails
<1>10. CASE Flush
  <2>1. CASE failed /\ Die
    BY <2>1, DieEarns
  <2>2. CASE ~failed /\ UNCHANGED <<memory, disk, todo, failed, raw>>
    BY <1>10, <2>2 DEF Flush, memory, disk, Earned, Covered, NothingLeft, Said
  <2>. QED
    BY <1>10, <2>1, <2>2 DEF Flush
<1>11. CASE Save
  <2>1. \A f \in Feed : todo[f] = {} /\ ~failed
    BY <1>11 DEF Save, NothingLeft
  <2>2. \A f \in Feed : known[f] # NoTag => Parsed(known[f]) \subseteq Said(f)
    BY <2>1 DEF Covered
  <2>. QED
    BY <1>11, <2>1, <2>2 DEF Save, memory, Earned, Covered, NothingLeft, Said
<1>12. CASE SaveFails
  BY <1>12 DEF SaveFails, memory, disk, Earned, Covered, NothingLeft, Said
<1>13. CASE Crash
  BY <1>13, DieEarns DEF Crash
<1>14. CASE Restart
  BY <1>14 DEF Restart, disk, Earned, Covered, NothingLeft, Said
<1>15. CASE Tick
  BY <1>2, <1>15 DEF Tick
<1>16. CASE Checkpoint \/ JobRestarts
  BY <1>1, <1>16 DEF Checkpoint, JobRestarts
<1>17. CASE UNCHANGED vars
  BY <1>1, <1>17 DEF vars
<1>. QED
  BY <1>3, <1>4, <1>5, <1>6, <1>7, <1>8, <1>9, <1>10, <1>11, <1>12, <1>13, <1>14, <1>15, <1>16,
     <1>17 DEF Next, Environment, Poller, Fetch

\* A validator that survives a restart never hides an update from Kafka: not
\* after a crash in mid-sweep, a failed delivery or a failed cache write.
THEOREM ValidatorsAreEarned == Spec => []ValidatorIsEarned
<1>1. Init => EarnInv
  BY DEF Init, EarnInv, Earned, Covered, NothingLeft
<1>2. EarnInv /\ TypeOK /\ [Next]_vars => EarnInv'
  BY EarnStep
<1>3. EarnInv => ValidatorIsEarned
  BY DEF EarnInv, Earned, ValidatorIsEarned
<1>. QED
  BY <1>1, <1>2, <1>3, IngestTypes, PTL DEF Spec

----------------------------------------------------------------------------
(* Back-off.  What is left of a promised pause is never more than what the *)
(* running poller waits, nor, unless the promise is not in the cache file  *)
(* yet, than the file says.                                                *)

PauseInv ==
  /\ pc = "down" => unsaved = {}
  /\ \A f \in Feed : /\ pc # "down" => asked[f] <= wait[f]
                     /\ f \notin unsaved => asked[f] <= savedWait[f]

LEMMA DieKeepsPauses == ASSUME PauseInv, TypeOK, Die PROVE PauseInv'
<1>1. \A f \in Feed : savedWait[f] \in 0 .. MaxWait /\ savedWait' = savedWait
  BY DEF TypeOK, Die, disk
<1>2. pc' = "down" /\ unsaved' = {} /\ \A f \in Feed : asked'[f] = IF f \in unsaved THEN 0 ELSE asked[f]
  BY DEF Die
<1>. QED
  BY <1>1, <1>2, IngestAssumption DEF PauseInv

LEMMA PauseStep == ASSUME PauseInv, TypeOK, [Next]_vars PROVE PauseInv'
<1>. USE DEF PauseInv
<1>t. \A f \in Feed : /\ wait[f] \in Nat /\ savedWait[f] \in Nat /\ asked[f] \in Nat
                      /\ wait[f] >= 0 /\ savedWait[f] >= 0
  BY IngestAssumption DEF TypeOK
<1>1. ASSUME UNCHANGED <<pc, wait, savedWait, ghost>> PROVE PauseInv'
  BY <1>1 DEF ghost
<1>2. ASSUME NEW f \in Feed, Post(f) \/ Edit(f) \/ Take(f) PROVE PauseInv'
  BY <1>1, <1>2 DEF Post, Edit, Take, memory, disk, sweep
<1>3. CASE BeginSweep
  BY <1>3 DEF BeginSweep, memory, disk, ghost
<1>4. ASSUME NEW f \in Feed, Skip(f) PROVE PauseInv'
  BY <1>1, <1>4 DEF Skip, Finish, memory, disk
<1>5. ASSUME NEW f \in Feed, Fetch(f) PROVE PauseInv'
  <2>1. /\ Fetched(f) /\ pc' = pc /\ pc = "sweep" /\ savedWait' = savedWait
    BY <1>5 DEF Fetch, NotModified, Modified, Nothing, Finish, disk
  <2>2. /\ wait' = wait /\ unsaved' = unsaved \ {f}
        /\ \A g \in Feed : asked'[g] = IF g = f THEN 0 ELSE asked[g]
    BY <2>1 DEF Fetched, TypeOK
  <2>. QED
    BY <1>t, <2>1, <2>2
<1>6. ASSUME NEW f \in Feed, FetchFails(f) PROVE PauseInv'
  <2>1. PICK pause \in 0 .. MaxWait :
          wait' = [wait EXCEPT ![f] = pause] /\ asked' = [asked EXCEPT ![f] = pause]
    BY <1>6 DEF FetchFails
  <2>2. pc = "sweep" /\ pc' = pc /\ savedWait' = savedWait /\ unsaved' = unsaved \cup {f}
    BY <1>6 DEF FetchFails, Finish, disk
  <2>3. \A g \in Feed : /\ wait'[g] = IF g = f THEN pause ELSE wait[g]
                        /\ asked'[g] = IF g = f THEN pause ELSE asked[g]
    BY <2>1 DEF TypeOK
  <2>4. pause <= pause
    BY IngestAssumption
  <2>. QED
    BY <2>2, <2>3, <2>4
<1>7. CASE EndSweep
  BY <1>7 DEF EndSweep, memory, disk, ghost
<1>8. ASSUME NEW f \in Feed, Produce(f) \/ ProduceFails(f) PROVE PauseInv'
  BY <1>1, <1>8 DEF Produce, ProduceFails, Dequeue, memory, disk
<1>9. CASE Flush
  <2>1. CASE Die
    BY <2>1, DieKeepsPauses
  <2>2. CASE pc' = "save" /\ UNCHANGED <<memory, disk, ghost>>
    BY <1>9, <2>2 DEF Flush, memory, disk, ghost
  <2>. QED
    BY <1>9, <2>1, <2>2 DEF Flush
<1>10. CASE Save
  BY <1>10 DEF Save, memory
<1>11. CASE SaveFails
  BY <1>11 DEF SaveFails, memory, disk, ghost
<1>12. CASE Crash
  BY <1>12, DieKeepsPauses DEF Crash
<1>13. CASE Restart
  BY <1>13 DEF Restart, disk, ghost
<1>14. CASE Tick
  <2>1. pc' = pc /\ unsaved' = unsaved
    BY <1>14 DEF Tick, sweep
  <2>2. \A f \in Feed : /\ wait'[f] = IF wait[f] > 0 THEN wait[f] - 1 ELSE 0
                        /\ savedWait'[f] = IF savedWait[f] > 0 THEN savedWait[f] - 1 ELSE 0
                        /\ asked'[f] = IF asked[f] > 0 THEN asked[f] - 1 ELSE 0
    BY <1>14 DEF Tick, CountDown
  <2>. QED
    BY <1>t, <2>1, <2>2
<1>15. CASE Checkpoint \/ JobRestarts
  BY <1>1, <1>15 DEF Checkpoint, JobRestarts, memory, disk, sweep
<1>16. CASE UNCHANGED vars
  BY <1>1, <1>16 DEF vars, memory, disk, sweep
<1>. QED
  BY <1>2, <1>3, <1>4, <1>5, <1>6, <1>7, <1>8, <1>9, <1>10, <1>11, <1>12, <1>13, <1>14, <1>15,
     <1>16 DEF Next, Environment, Poller

\* No step fetches from a host whose promised pause is not over, restarts
\* included, unless the promise was lost before the cache was written.
THEOREM PausesAreHonoured == Spec => BackoffIsHonoured
<1>1. Init => PauseInv
  BY IngestAssumption DEF Init, PauseInv
<1>2. PauseInv /\ TypeOK /\ [Next]_vars => PauseInv'
  BY PauseStep
<1>3. ASSUME PauseInv, TypeOK, [Next]_vars
      PROVE  [\A f \in Feed : f \notin polled /\ f \in polled' /\ wait[f] = 0 => asked[f] = 0]_vars
  <2>1. ASSUME NEW f \in Feed, f \notin polled, f \in polled' PROVE pc = "sweep"
    BY <1>3, <2>1 DEF Next, Environment, Poller, Fetch, Post, Edit, BeginSweep, Finish, Skip,
       NotModified, Modified, Nothing, FetchFails, EndSweep, Dequeue, Produce, ProduceFails,
       Die, Flush, Save, SaveFails, Crash, Restart, Tick, Take, Checkpoint, JobRestarts,
       vars, sweep
  <2>2. \A f \in Feed : pc = "sweep" /\ wait[f] = 0 => asked[f] = 0
    BY <1>3, IngestAssumption DEF PauseInv, TypeOK
  <2>. QED
    BY <2>1, <2>2
<1>. QED
  BY <1>1, <1>2, <1>3, IngestTypes, PTL DEF Spec, BackoffIsHonoured

----------------------------------------------------------------------------
(* The index.  Pages only grow and, where no edit is taken back, their     *)
(* texts only get newer under every id: the ordinals of a minute are       *)
(* counted from the top of the page, so an id that moves on moves to a     *)
(* later post.  The topic has the texts of an id in the order in which     *)
(* they became newer, hence the first message of the newest text comes     *)
(* after those of all other texts, in every replay as well.                *)

Same(p, k) == {j \in 1 .. k - 1 : p[j].minute = p[k].minute}

\* A page as the site keeps it: the newest post is the first.
Ordered(p) ==
  \A k \in 1 .. Len(p) :
    /\ p[k].post <= Len(p)
    /\ \A j \in 1 .. k - 1 : p[j].minute >= p[k].minute /\ p[j].post > p[k].post

AsUpdate(p, k) ==
  [minute |-> p[k].minute, ordinal |-> Ordinal(p, k), post |-> p[k].post, rev |-> p[k].rev]

NotNewer(u, v) == u.post < v.post \/ (u.post = v.post /\ u.rev <= v.rev)
Below(u, p) == \E v \in Parsed(p) : Id(v) = Id(u) /\ NotNewer(u, v)

LEMMA OrdinalType ==
  ASSUME NEW p \in Seq(Block), NEW k \in 1 .. Len(p)
  PROVE  /\ IsFiniteSet(Same(p, k)) /\ Ordinal(p, k) = Cardinality(Same(p, k))
         /\ Ordinal(p, k) \in Nat /\ p[k] \in Block
<1>1. IsFiniteSet(1 .. k - 1)
  <2>. 1 \in Int /\ k - 1 \in Int
    OBVIOUS
  <2>. QED
    BY FS_Interval
<1>2. IsFiniteSet(Same(p, k))
  BY <1>1, FS_Subset DEF Same
<1>3. Ordinal(p, k) = Cardinality(Same(p, k))
  BY DEF Ordinal, Same
<1>. QED
  BY <1>2, <1>3, FS_CardinalityType

\* The ordinal of an update is that of the update above it and one more.
LEMMA NextOrdinal ==
  ASSUME NEW p \in Seq(Block), Ordered(p), NEW k \in 1 .. Len(p)
  PROVE  /\ k = 1 => Ordinal(p, k) = 0
         /\ k # 1 => /\ k - 1 \in 1 .. Len(p)
                     /\ p[k - 1].minute = p[k].minute => Ordinal(p, k) = Ordinal(p, k - 1) + 1
<1>1. ASSUME k = 1 PROVE Ordinal(p, k) = 0
  <2>1. Same(p, k) = {}
    BY <1>1 DEF Same
  <2>. QED
    BY <2>1, OrdinalType, FS_EmptySet
<1>2. ASSUME k # 1, p[k - 1].minute = p[k].minute PROVE Ordinal(p, k) = Ordinal(p, k - 1) + 1
  <2>1. k - 1 \in 1 .. Len(p)
    BY <1>2
  <2>2. Same(p, k) = Same(p, k - 1) \cup {k - 1} /\ k - 1 \notin Same(p, k - 1)
    BY <1>2, <2>1 DEF Same
  <2>3. /\ IsFiniteSet(Same(p, k - 1)) /\ Ordinal(p, k - 1) = Cardinality(Same(p, k - 1))
        /\ Ordinal(p, k) = Cardinality(Same(p, k))
    BY <2>1, OrdinalType
  <2>. QED
    BY <2>2, <2>3, FS_AddElement
<1>. QED
  BY <1>1, <1>2

\* An id is given once on a page.
LEMMA IdsAreUnique ==
  ASSUME NEW p \in Seq(Block), NEW u \in Parsed(p), NEW v \in Parsed(p), Id(u) = Id(v)
  PROVE  u = v
<1>1. ASSUME NEW j \in 1 .. Len(p), NEW k \in 1 .. Len(p), j < k, p[j].minute = p[k].minute
      PROVE  Ordinal(p, j) < Ordinal(p, k)
  <2>1. Same(p, j) \cup {j} \subseteq Same(p, k) /\ j \notin Same(p, j)
    BY <1>1 DEF Same
  <2>2. /\ IsFiniteSet(Same(p, j)) /\ IsFiniteSet(Same(p, k))
        /\ Ordinal(p, j) = Cardinality(Same(p, j)) /\ Ordinal(p, k) = Cardinality(Same(p, k))
        /\ Ordinal(p, j) \in Nat /\ Ordinal(p, k) \in Nat
    BY OrdinalType
  <2>3. Cardinality(Same(p, j) \cup {j}) = Cardinality(Same(p, j)) + 1
    BY <2>1, <2>2, FS_AddElement
  <2>4. Cardinality(Same(p, j) \cup {j}) <= Cardinality(Same(p, k))
    BY <2>1, <2>2, FS_Subset
  <2>. QED
    BY <2>2, <2>3, <2>4
<1>2. PICK j, k \in 1 .. Len(p) : u = AsUpdate(p, j) /\ v = AsUpdate(p, k)
  BY DEF Parsed, AsUpdate
<1>3. p[j].minute = p[k].minute /\ Ordinal(p, j) = Ordinal(p, k)
  BY <1>2 DEF Id, AsUpdate
<1>4. j = k
  <2>1. Ordinal(p, j) \in Nat /\ Ordinal(p, k) \in Nat
    BY OrdinalType
  <2>2. ~(j < k) /\ ~(k < j)
    BY <1>1, <1>3, <2>1
  <2>. QED
    BY <2>2
<1>. QED
  BY <1>2, <1>4

\* A new post moves the ordinals of its minute by one.
LEMMA PushedOrdinal ==
  ASSUME NEW p \in Seq(Block), NEW b \in Block, NEW k \in 1 .. Len(p)
  PROVE  /\ b.minute = p[k].minute => Ordinal(<<b>> \o p, k + 1) = Ordinal(p, k) + 1
         /\ b.minute # p[k].minute => Ordinal(<<b>> \o p, k + 1) = Ordinal(p, k)
<1>. DEFINE q == <<b>> \o p
            T == {j \in 2 .. k : q[j].minute = q[k + 1].minute}
            up == [j \in Same(p, k) |-> j + 1]
<1>1. /\ q \in Seq(Block) /\ Len(q) = Len(p) + 1 /\ q[1] = b
      /\ \A j \in 1 .. Len(p) : q[j + 1] = p[j]
  OBVIOUS
<1>2. k + 1 \in 1 .. Len(q)
  BY <1>1
<1>3. up \in Bijection(Same(p, k), T)
  <2>1. \A j \in Same(p, k) : j \in 1 .. k - 1 /\ j + 1 \in T
    BY <1>1 DEF Same
  <2>2. up \in [Same(p, k) -> T]
    BY <2>1
  <2>3. \A i, j \in Same(p, k) : up[i] = up[j] => i = j
    BY <2>1
  <2>4. ASSUME NEW t \in T PROVE \E j \in Same(p, k) : up[j] = t
    <3>1. t - 1 \in 1 .. k - 1 /\ t - 1 \in 1 .. Len(p) /\ (t - 1) + 1 = t
      OBVIOUS
    <3>2. q[t] = p[t - 1]
      BY <1>1, <3>1
    <3>3. t - 1 \in Same(p, k)
      BY <1>1, <3>1, <3>2 DEF Same
    <3>. QED
      BY <3>1, <3>3
  <2>. QED
    BY <2>2, <2>3, <2>4 DEF Bijection, Injection, Surjection, IsInjective
<1>4. IsFiniteSet(T) /\ Cardinality(T) = Ordinal(p, k) /\ Ordinal(p, k) \in Nat
  <2>1. ExistsBijection(Same(p, k), T)
    BY <1>3 DEF ExistsBijection
  <2>. HIDE DEF T
  <2>. QED
    BY <2>1, OrdinalType, FS_Bijection
<1>5. Ordinal(q, k + 1) = Cardinality(Same(q, k + 1))
  BY <1>1, <1>2, OrdinalType
<1>6. q[k + 1] = p[k] /\ q[1] = b
  BY <1>1
<1>7. ASSUME b.minute = p[k].minute PROVE Ordinal(q, k + 1) = Ordinal(p, k) + 1
  <2>1. Same(q, k + 1) = T \cup {1} /\ 1 \notin T
    BY <1>6, <1>7 DEF Same
  <2>. QED
    <3>. HIDE DEF T
    <3>1. Cardinality(T \cup {1}) = Cardinality(T) + 1
      BY <1>4, <2>1, FS_AddElement
    <3>. QED
      BY <1>4, <1>5, <2>1, <3>1
<1>8. ASSUME b.minute # p[k].minute PROVE Ordinal(q, k + 1) = Ordinal(p, k)
  <2>1. Same(q, k + 1) = T
    BY <1>6, <1>8 DEF Same
  <2>. QED
    BY <1>4, <1>5, <2>1
<1>. QED
  BY <1>7, <1>8

LEMMA NotNewerChains ==
  ASSUME NEW u \in Update, NEW v \in Update, NEW w \in Update, NotNewer(u, v), NotNewer(v, w)
  PROVE  NotNewer(u, w)
BY DEF NotNewer, Update

LEMMA BelowChains ==
  ASSUME NEW p \in Seq(Block), NEW q \in Seq(Block), \A v \in Parsed(p) : Below(v, q),
         NEW u \in Update, Below(u, p)
  PROVE  Below(u, q)
<1>1. PICK v \in Parsed(p) : Id(v) = Id(u) /\ NotNewer(u, v)
  BY DEF Below
<1>2. PICK w \in Parsed(q) : Id(w) = Id(v) /\ NotNewer(v, w)
  BY DEF Below
<1>3. v \in Update /\ w \in Update
  BY ParsedType
<1>. QED
  BY <1>1, <1>2, <1>3, NotNewerChains DEF Below

\* Under every id a page has, it has a text that is not older after a new post.
LEMMA PostKeepsIds ==
  ASSUME NEW p \in Seq(Block), Ordered(p), NEW b \in Block, b.post = Len(p) + 1,
         p # <<>> => b.minute >= p[1].minute
  PROVE  /\ <<b>> \o p \in Seq(Block) /\ Ordered(<<b>> \o p)
         /\ \A u \in Parsed(p) : Below(u, <<b>> \o p)
<1>. DEFINE q == <<b>> \o p
<1>1. /\ q \in Seq(Block) /\ Len(q) = Len(p) + 1 /\ q[1] = b
      /\ \A j \in 1 .. Len(p) : q[j + 1] = p[j]
      /\ \A j \in 1 .. Len(q) : j # 1 => j - 1 \in 1 .. Len(p) /\ q[j] = p[j - 1]
  OBVIOUS
<1>2. \A j \in 1 .. Len(p) : p[j] \in Block
  BY ElementOfSeq
<1>3. \A j \in 1 .. Len(p) : b.minute >= p[j].minute /\ b.post > p[j].post
  <2>. SUFFICES ASSUME NEW j \in 1 .. Len(p) PROVE b.minute >= p[j].minute /\ b.post > p[j].post
    OBVIOUS
  <2>1. p # <<>> /\ 1 \in 1 .. Len(p)
    OBVIOUS
  <2>2. p[j].post <= Len(p) /\ (j # 1 => p[1].minute >= p[j].minute)
    BY <2>1 DEF Ordered
  <2>. QED
    BY <1>2, <2>1, <2>2 DEF Block
<1>4. Ordered(q)
  <2>. SUFFICES ASSUME NEW k \in 1 .. Len(q)
                PROVE  /\ q[k].post <= Len(q)
                       /\ \A j \in 1 .. k - 1 : q[j].minute >= q[k].minute /\ q[j].post > q[k].post
    BY DEF Ordered
  <2>1. CASE k = 1
    BY <1>1, <2>1
  <2>2. CASE k # 1
    <3>1. k - 1 \in 1 .. Len(p) /\ q[k] = p[k - 1] /\ p[k - 1] \in Block
      BY <1>1, <1>2, <2>2
    <3>2. q[k].post <= Len(q)
      BY SMTT(30), <1>1, <3>1 DEF Ordered, Block
    <3>3. ASSUME NEW j \in 1 .. k - 1 PROVE q[j].minute >= q[k].minute /\ q[j].post > q[k].post
      <4>1. CASE j = 1
        BY <1>1, <1>3, <3>1, <4>1
      <4>2. CASE j # 1
        <5>1. j - 1 \in 1 .. (k - 1) - 1 /\ q[j] = p[j - 1]
          BY <1>1, <4>2
        <5>. QED
          BY <3>1, <5>1 DEF Ordered
      <4>. QED
        BY <4>1, <4>2
    <3>. QED
      BY <3>2, <3>3
  <2>. QED
    BY <2>1, <2>2
<1>5. ASSUME NEW u \in Parsed(p) PROVE Below(u, q)
  <2>1. PICK k \in 1 .. Len(p) : u = AsUpdate(p, k)
    BY DEF Parsed, AsUpdate
  <2>2. p[k] \in Block /\ k + 1 \in 1 .. Len(q) /\ q[k + 1] = p[k]
    BY <1>1, <1>2
  <2>3. CASE b.minute # p[k].minute
    <3>1. Ordinal(q, k + 1) = Ordinal(p, k)
      BY <2>3, PushedOrdinal
    <3>2. AsUpdate(q, k + 1) = u /\ AsUpdate(q, k + 1) \in Parsed(q)
      BY SMTT(30), <1>1, <2>1, <2>2, <3>1 DEF AsUpdate, Parsed
    <3>. QED
      BY <2>1, <2>2, <3>2 DEF Below, NotNewer, AsUpdate, Block
  \* The minute of the new post is that of the first k posts.
  <2>4. CASE b.minute = p[k].minute
    <3>. DEFINE v == AsUpdate(q, k)
    <3>1. v \in Parsed(q) /\ k \in 1 .. Len(q)
      <4>1. k \in DOMAIN q /\ k \in 1 .. Len(q)
        BY <1>1
      <4>. HIDE DEF q
      <4>. QED
        BY <4>1 DEF AsUpdate, Parsed
    <3>2. q[k].minute = p[k].minute /\ q[k].post > p[k].post /\ Ordinal(q, k) = Ordinal(p, k)
      <4>1. CASE k = 1
        <5>1. q[k] = b /\ Ordinal(q, k) = 0 /\ Ordinal(p, k) = 0
          BY <1>1, <1>4, <3>1, <4>1, NextOrdinal
        <5>. QED
          BY <1>3, <2>4, <5>1
      <4>2. CASE k # 1
        <5>1. k - 1 \in 1 .. Len(p) /\ q[k] = p[k - 1] /\ (k - 1) + 1 = k /\ p[k - 1] \in Block
          BY <1>1, <1>2, <3>1, <4>2
        <5>2. k - 1 \in 1 .. k - 1
          BY <5>1
        <5>3. p[k - 1].minute >= p[k].minute /\ p[k - 1].post > p[k].post
          BY <5>2 DEF Ordered
        <5>4. p[k - 1].minute = p[k].minute
          <6>1. b.minute >= p[k - 1].minute
            BY <1>3, <5>1
          <6>2. b.minute \in Nat /\ p[k - 1].minute \in Nat
            BY <5>1 DEF Block
          <6>. QED
            BY <2>4, <5>3, <6>1, <6>2
        <5>5. Ordinal(p, k) = Ordinal(p, k - 1) + 1
          BY <4>2, <5>4, NextOrdinal
        <5>6. Ordinal(q, k) = Ordinal(p, k - 1) + 1
          BY <2>4, <5>1, <5>4, PushedOrdinal
        <5>. QED
          BY <5>1, <5>3, <5>4, <5>5, <5>6
      <4>. QED
        BY <4>1, <4>2
    <3>3. Id(v) = Id(u) /\ NotNewer(u, v)
      BY <2>1, <3>2 DEF AsUpdate, Id, NotNewer
    <3>. QED
      BY <3>1, <3>3 DEF Below
  <2>. QED
    BY <2>3, <2>4
<1>. QED
  BY <1>1, <1>4, <1>5

\* The same of an edit, which is not taken back.
LEMMA EditKeepsIds ==
  ASSUME NEW p \in Seq(Block), Ordered(p), NEW n \in 1 .. Len(p)
  PROVE  LET q == [p EXCEPT ![n].rev = @ + 1]
         IN  Ordered(q) /\ \A u \in Parsed(p) : Below(u, q)
<1>. DEFINE q == [p EXCEPT ![n].rev = @ + 1]
<1>1. \A j \in 1 .. Len(p) : p[j] \in Block
  BY ElementOfSeq
<1>2. /\ DOMAIN q = 1 .. Len(p) /\ Len(q) = Len(p)
      /\ \A j \in 1 .. Len(p) : /\ q[j].minute = p[j].minute /\ q[j].post = p[j].post
                                /\ q[j].rev >= p[j].rev
  <2>1. /\ DOMAIN q = 1 .. Len(p) /\ Len(q) = Len(p)
        /\ q[n] = [p[n] EXCEPT !.rev = @ + 1] /\ \A j \in 1 .. Len(p) : j # n => q[j] = p[j]
    OBVIOUS
  <2>. HIDE DEF q
  <2>2. ASSUME NEW j \in 1 .. Len(p)
        PROVE  /\ q[j].minute = p[j].minute /\ q[j].post = p[j].post /\ q[j].rev >= p[j].rev
    <3>1. p[j].rev \in Nat
      BY <1>1 DEF Block
    <3>2. CASE j = n
      <4>1. /\ q[n].minute = p[n].minute /\ q[n].post = p[n].post
            /\ q[n].rev = p[n].rev + 1
        BY <1>1, <2>1 DEF Block
      <4>. QED
        BY <3>1, <3>2, <4>1
    <3>3. CASE j # n
      BY <2>1, <3>1, <3>3
    <3>. QED
      BY <3>2, <3>3
  <2>. QED
    BY <2>1, <2>2
<1>3. Ordered(q)
  BY <1>2 DEF Ordered
<1>4. ASSUME NEW u \in Parsed(p) PROVE Below(u, q)
  <2>1. PICK k \in 1 .. Len(p) : u = AsUpdate(p, k)
    BY DEF Parsed, AsUpdate
  <2>2. Ordinal(q, k) = Ordinal(p, k)
    <3>1. {j \in 1 .. k - 1 : q[j].minute = q[k].minute} = {j \in 1 .. k - 1 : p[j].minute = p[k].minute}
      BY <1>2
    <3>. QED
      BY <3>1 DEF Ordinal
  <2>3. AsUpdate(q, k) \in Parsed(q)
    BY <1>2 DEF AsUpdate, Parsed
  <2>4. Id(AsUpdate(q, k)) = Id(u) /\ NotNewer(u, AsUpdate(q, k))
    BY <1>1, <1>2, <2>1, <2>2 DEF AsUpdate, Id, NotNewer, Block
  <2>. QED
    BY <2>3, <2>4 DEF Below
<1>. QED
  BY <1>3, <1>4

\* Pages, what is produced from them, and the order in which it is on the topic.
PageInv(f) == Ordered(page[f]) /\ \A u \in Said(f) \cup todo[f] : Below(u, page[f])
QueueInv(f) ==
  /\ \A u, v \in todo[f] : Id(u) = Id(v) => u = v
  /\ \A r \in Said(f), u \in todo[f] : Id(r) = Id(u) => NotNewer(r, u)
TopicInv(f) ==
  \A k \in 1 .. Len(raw[f]) : \A j \in 1 .. k - 1 :
    Id(raw[f][j]) = Id(raw[f][k]) => NotNewer(raw[f][j], raw[f][k])

\* Every text has a first message.
FirstInv(f) ==
  \A n \in 1 .. Len(raw[f]) :
    \E k \in 1 .. n : IsNewText(f, k) /\ IdAndText(raw[f][k]) = IdAndText(raw[f][n])

\* The job has emitted, perhaps again, what it has read: no text of an id is
\* emitted after that of its last first message.
IsLastText(f, k) ==
  /\ IsNewText(f, k)
  /\ \A j \in k + 1 .. Len(raw[f]) : IsNewText(f, j) => Id(raw[f][j]) # Id(raw[f][k])
HasText(f, u) == Id(u) \in DOMAIN index[f] /\ index[f][Id(u)] = Text(u)
JobInv(f) ==
  \A k \in 1 .. taken[f] :
    /\ IsLastText(f, k) => HasText(f, raw[f][k])
    /\ TransitionOf(raw[f][k]) \subseteq signalled[f]

PubInv ==
  /\ index = [f \in Feed |-> index[f]]
  /\ \A f \in Feed : PageInv(f) /\ QueueInv(f) /\ TopicInv(f) /\ FirstInv(f) /\ JobInv(f)

LEMMA SaidType ==
  ASSUME TypeOK, NEW f \in Feed
  PROVE  Said(f) \subseteq Update /\ DOMAIN raw[f] = 1 .. Len(raw[f])
<1>1. raw[f] \in Seq(Update) /\ DOMAIN raw[f] = 1 .. Len(raw[f])
  BY DEF TypeOK
<1>2. \A k \in DOMAIN raw[f] : raw[f][k] \in Update
  BY <1>1, ElementOfSeq
<1>. QED
  BY <1>1, <1>2 DEF Said

\* The site posts or edits.
LEMMA SiteIsCurrent ==
  ASSUME TypeOK, TypeOK', PubInv, NEW f \in Feed, UNCHANGED <<todo, raw, taken, index, signalled>>,
         \A g \in Feed \ {f} : page'[g] = page[g],
         Ordered(page'[f]), \A u \in Parsed(page[f]) : Below(u, page'[f])
  PROVE  PubInv'
<1>1. ASSUME NEW g \in Feed PROVE PageInv(g)'
  <2>1. Said(g)' = Said(g)
    BY DEF Said
  <2>2. CASE g = f
    <3>1. \A u \in Said(g) \cup todo[g] : u \in Update
      BY SaidType DEF TypeOK
    <3>2. page[g] \in Seq(Block) /\ page'[g] \in Seq(Block)
      BY DEF TypeOK
    <3>. QED
      BY <2>1, <2>2, <3>1, <3>2, BelowChains DEF PubInv, PageInv
  <2>3. CASE g # f
    BY <2>1, <2>3 DEF PubInv, PageInv
  <2>. QED
    BY <2>2, <2>3
<1>2. ASSUME NEW g \in Feed PROVE QueueInv(g)' /\ TopicInv(g)' /\ FirstInv(g)' /\ JobInv(g)'
  BY DEF PubInv, QueueInv, TopicInv, FirstInv, JobInv, IsLastText, HasText, IsNewText, Said
<1>. QED
  BY <1>1, <1>2 DEF PubInv

\* The poller forgets its queue, or fills it from the page.
LEMMA QueueIsCurrent ==
  ASSUME TypeOK, PubInv, UNCHANGED <<page, raw, taken, index, signalled>>,
         \A g \in Feed : todo'[g] \subseteq todo[g] \/ todo'[g] = Parsed(page[g])
  PROVE  PubInv'
<1>. SUFFICES ASSUME NEW g \in Feed
              PROVE  PageInv(g)' /\ QueueInv(g)' /\ TopicInv(g)' /\ FirstInv(g)' /\ JobInv(g)'
  BY DEF PubInv
<1>1. /\ Said(g)' = Said(g) /\ page[g] \in Seq(Block)
      /\ PageInv(g) /\ QueueInv(g)
  BY DEF Said, PubInv, TypeOK
<1>2. TopicInv(g)' /\ FirstInv(g)' /\ JobInv(g)'
  BY DEF PubInv, TopicInv, FirstInv, JobInv, IsLastText, HasText, IsNewText
<1>3. CASE todo'[g] \subseteq todo[g]
  BY <1>1, <1>2, <1>3 DEF PageInv, QueueInv
<1>4. CASE todo'[g] = Parsed(page[g])
  <2>1. ASSUME NEW u \in Parsed(page[g]) PROVE Below(u, page[g])
    <3>1. u \in Update
      BY <1>1, ParsedType
    <3>. QED
      BY <3>1 DEF Below, NotNewer, Update
  <2>2. \A u, v \in Parsed(page[g]) : Id(u) = Id(v) => u = v
    BY <1>1, IdsAreUnique
  <2>3. ASSUME NEW r \in Said(g), NEW u \in Parsed(page[g]), Id(r) = Id(u) PROVE NotNewer(r, u)
    <3>1. PICK v \in Parsed(page[g]) : Id(v) = Id(r) /\ NotNewer(r, v)
      BY <1>1 DEF PageInv, Below
    <3>2. v = u
      BY <2>2, <2>3, <3>1
    <3>. QED
      BY <3>1, <3>2
  <2>. QED
    BY <1>1, <1>2, <1>4, <2>1, <2>2, <2>3 DEF PageInv, QueueInv
<1>. QED
  BY <1>3, <1>4

\* A message that is put on the topic is the newest under its id.
LEMMA SendIsCurrent ==
  ASSUME TypeOK, PubInv, NEW f \in Feed, NEW u \in todo[f], Dequeue(f, u), Send(f, u)
  PROVE  PubInv'
<1>1. /\ UNCHANGED <<page, taken, index, signalled>> /\ u \in Update
      /\ todo'[f] = todo[f] \ {u} /\ \A g \in Feed \ {f} : todo'[g] = todo[g] /\ raw'[g] = raw[g]
  BY DEF Dequeue, Send, site, job, TypeOK
<1>n. PICK n \in Nat \ {0} : n = Len(raw[f]) + 1
  BY DEF TypeOK
<1>2. /\ raw[f] \in Seq(Update) /\ Len(raw[f]) \in Nat /\ Len(raw'[f]) = n
      /\ raw'[f][n] = u /\ \A k \in 1 .. Len(raw[f]) : raw'[f][k] = raw[f][k]
      /\ DOMAIN raw[f] = 1 .. Len(raw[f]) /\ DOMAIN raw'[f] = 1 .. n
  <2>1. raw[f] \in Seq(Update) /\ raw'[f] = Append(raw[f], u)
    BY DEF Send, TypeOK
  <2>. QED
    BY <1>1, <1>n, <2>1, AppendProperties
<1>3. n - 1 = Len(raw[f]) /\ \A k \in 1 .. n : k = n \/ k \in 1 .. Len(raw[f])
  BY <1>n, <1>2
<1>4. Said(f)' = Said(f) \cup {u}
  <2>1. \A r \in Said(f)' : r \in Said(f) \/ r = u
    <3>. SUFFICES ASSUME NEW k \in 1 .. n PROVE raw'[f][k] \in Said(f) \cup {u}
      BY <1>2 DEF Said
    <3>1. CASE k = n
      BY <1>2, <3>1
    <3>2. CASE k \in 1 .. Len(raw[f])
      BY <1>2, <3>2 DEF Said
    <3>. QED
      BY <1>3, <3>1, <3>2
  <2>2. \A r \in Said(f) : r \in Said(f)'
    <3>. SUFFICES ASSUME NEW k \in 1 .. Len(raw[f]) PROVE raw[f][k] \in Said(f)'
      BY <1>2 DEF Said
    <3>1. k \in 1 .. n /\ raw[f][k] = raw'[f][k]
      BY <1>n, <1>2
    <3>. QED
      BY <1>2, <3>1 DEF Said
  <2>3. n \in 1 .. n
    BY <1>2, <1>3
  <2>4. u \in Said(f)'
    BY <1>2, <2>3 DEF Said
  <2>. QED
    BY <2>1, <2>2, <2>4
<1>5. PageInv(f) /\ QueueInv(f) /\ TopicInv(f) /\ FirstInv(f) /\ JobInv(f)
  BY DEF PubInv
<1>6. PageInv(f)'
  BY <1>1, <1>4, <1>5 DEF PageInv
<1>7. QueueInv(f)'
  BY <1>1, <1>4, <1>5 DEF QueueInv
<1>8. TopicInv(f)'
  <2>. SUFFICES ASSUME NEW k \in 1 .. n, NEW j \in 1 .. k - 1, Id(raw'[f][j]) = Id(raw'[f][k])
                PROVE  NotNewer(raw'[f][j], raw'[f][k])
    BY <1>2 DEF TopicInv
  <2>1. j \in 1 .. Len(raw[f]) /\ raw'[f][j] = raw[f][j] /\ raw[f][j] \in Said(f)
    <3>1. j \in 1 .. Len(raw[f])
      BY <1>2, <1>3
    <3>. QED
      BY <1>2, <3>1 DEF Said
  <2>2. CASE k = n
    BY <1>2, <1>5, <2>1, <2>2 DEF QueueInv
  <2>3. CASE k # n
    BY <1>2, <1>3, <1>5, <2>1, <2>3 DEF TopicInv
  <2>. QED
    BY <2>2, <2>3
<1>9. \A k \in 1 .. Len(raw[f]) : IsNewText(f, k)' <=> IsNewText(f, k)
  <2>. SUFFICES ASSUME NEW k \in 1 .. Len(raw[f]) PROVE IsNewText(f, k)' <=> IsNewText(f, k)
    OBVIOUS
  <2>1. \A j \in 1 .. k - 1 : raw'[f][j] = raw[f][j]
    BY <1>2
  <2>. QED
    BY <1>2, <2>1 DEF IsNewText
<1>10. FirstInv(f)'
  <2>. SUFFICES ASSUME NEW m \in 1 .. n
                PROVE  \E k \in 1 .. m : IsNewText(f, k)' /\ IdAndText(raw'[f][k]) = IdAndText(raw'[f][m])
    BY <1>2 DEF FirstInv
  <2>1. ASSUME NEW j \in 1 .. Len(raw[f])
        PROVE  \E k \in 1 .. j : IsNewText(f, k)' /\ IdAndText(raw'[f][k]) = IdAndText(raw'[f][j])
    <3>1. PICK k \in 1 .. j : IsNewText(f, k) /\ IdAndText(raw[f][k]) = IdAndText(raw[f][j])
      BY <1>5 DEF FirstInv
    <3>2. k \in 1 .. Len(raw[f])
      BY <1>2
    <3>. QED
      BY <1>2, <1>9, <3>1, <3>2
  <2>2. CASE m # n
    BY <1>3, <2>1, <2>2
  <2>3. CASE m = n /\ IsNewText(f, n)'
    <3>1. n \in 1 .. n
      BY <2>3
    <3>. QED
      BY <2>3, <3>1
  <2>4. CASE m = n /\ ~IsNewText(f, n)'
    <3>1. PICK j \in 1 .. n - 1 : IdAndText(raw'[f][j]) = IdAndText(raw'[f][n])
      BY <2>4 DEF IsNewText
    <3>2. j \in 1 .. Len(raw[f])
      BY <1>2, <1>3, <3>1
    <3>3. PICK k \in 1 .. j : IsNewText(f, k)' /\ IdAndText(raw'[f][k]) = IdAndText(raw'[f][j])
      BY <2>1, <3>2
    <3>4. k \in 1 .. m
      BY <1>3, <2>4, <3>2, <3>3
    <3>. QED
      BY <2>4, <3>1, <3>3, <3>4
  <2>. QED
    BY <2>2, <2>3, <2>4
<1>11. JobInv(f)'
  <2>. SUFFICES ASSUME NEW k \in 1 .. taken[f]
                PROVE  /\ IsLastText(f, k)' => HasText(f, raw[f][k])'
                       /\ TransitionOf(raw'[f][k]) \subseteq signalled[f]
    BY <1>1 DEF JobInv
  <2>1. k \in 1 .. Len(raw[f]) /\ raw'[f][k] = raw[f][k]
    BY <1>2 DEF TypeOK
  <2>2. ASSUME IsLastText(f, k)' PROVE IsLastText(f, k)
    <3>1. IsNewText(f, k)
      BY <1>9, <2>1, <2>2 DEF IsLastText
    <3>2. ASSUME NEW j \in k + 1 .. Len(raw[f]), IsNewText(f, j) PROVE Id(raw[f][j]) # Id(raw[f][k])
      <4>1. j \in 1 .. Len(raw[f]) /\ j \in k + 1 .. Len(raw'[f])
        BY <1>n, <1>2, <2>1
      <4>. QED
        BY <1>2, <1>9, <2>1, <2>2, <3>2, <4>1 DEF IsLastText
    <3>. QED
      BY <3>1, <3>2 DEF IsLastText
  <2>. QED
    BY <1>1, <1>5, <2>1, <2>2 DEF JobInv, HasText
<1>12. ASSUME NEW g \in Feed, g # f
       PROVE  PageInv(g)' /\ QueueInv(g)' /\ TopicInv(g)' /\ FirstInv(g)' /\ JobInv(g)'
  <2>1. UNCHANGED <<page[g], todo[g], raw[g], taken[g], index[g], signalled[g]>>
    BY <1>1, <1>12
  <2>. QED
    <3>1. Said(g)' = Said(g) /\ \A k : IsNewText(g, k)' <=> IsNewText(g, k)
      BY <2>1 DEF Said, IsNewText
    <3>2. PageInv(g)' /\ QueueInv(g)'
      BY <2>1, <3>1 DEF PubInv, PageInv, QueueInv
    <3>3. TopicInv(g)' /\ FirstInv(g)'
      BY <2>1, <3>1 DEF PubInv, TopicInv, FirstInv
    <3>4. JobInv(g)'
      BY <2>1, <3>1 DEF PubInv, JobInv, IsLastText, HasText
    <3>. QED
      BY <3>2, <3>3, <3>4
<1>13. index' = [g \in Feed |-> index'[g]]
  BY <1>1 DEF PubInv
<1>. QED
  BY <1>6, <1>7, <1>8, <1>10, <1>11, <1>12, <1>13 DEF PubInv

\* The job reads the next message, or goes back to an earlier one.
LEMMA TakeIsCurrent ==
  ASSUME TypeOK, PubInv, NEW f \in Feed, Take(f)
  PROVE  PubInv'
<1>. DEFINE n == taken[f] + 1
<1>1. PICK u : u = raw[f][n]
  OBVIOUS
<1>2. /\ UNCHANGED <<page, todo, raw>> /\ n \in 1 .. Len(raw[f]) /\ taken[f] \in Nat
      /\ taken' = [taken EXCEPT ![f] = n]
      /\ index' = IF IsNewText(f, n)
                  THEN [index EXCEPT ![f] = Overwrite(@, Id(u), Text(u))] ELSE index
      /\ signalled' = IF IsNewTransition(f, n)
                      THEN [signalled EXCEPT ![f] = @ \cup TransitionOf(u)] ELSE signalled
  BY <1>1 DEF Take, site, sweep, TypeOK
<1>3. PageInv(f) /\ QueueInv(f) /\ TopicInv(f) /\ FirstInv(f) /\ JobInv(f)
  BY DEF PubInv
<1>4. /\ index' = [g \in Feed |-> index'[g]]
      /\ \A g \in Feed \ {f} : UNCHANGED <<index[g], signalled[g], taken[g]>>
      /\ taken'[f] = n
  BY <1>2 DEF PubInv, TypeOK
<1>5. /\ IsNewText(f, n) => /\ Id(u) \in DOMAIN index'[f] /\ index'[f][Id(u)] = Text(u)
                            /\ \A x \in DOMAIN index[f] :
                                 x # Id(u) => x \in DOMAIN index'[f] /\ index'[f][x] = index[f][x]
      /\ ~IsNewText(f, n) => index'[f] = index[f]
  BY <1>2 DEF PubInv, Overwrite
<1>6. /\ signalled[f] \subseteq signalled'[f]
      /\ IsNewTransition(f, n) => TransitionOf(u) \subseteq signalled'[f]
  BY <1>2 DEF TypeOK
<1>7. ASSUME NEW k \in 1 .. n
      PROVE  /\ IsLastText(f, k) => HasText(f, raw[f][k])'
             /\ TransitionOf(raw[f][k]) \subseteq signalled'[f]
  <2>1. CASE k = n
    <3>1. IsLastText(f, k) => HasText(f, raw[f][k])'
      BY <1>1, <1>2, <1>5, <2>1 DEF IsLastText, HasText
    <3>2. ASSUME ~IsNewTransition(f, n) PROVE TransitionOf(u) \subseteq signalled'[f]
      <4>1. PICK j \in 1 .. n - 1 : TransitionOf(raw[f][j]) = TransitionOf(raw[f][n])
        BY <3>2 DEF IsNewTransition
      <4>2. j \in 1 .. taken[f]
        BY <1>2
      <4>. QED
        BY <1>1, <1>3, <1>6, <4>1, <4>2 DEF JobInv
    <3>. QED
      BY <1>1, <1>6, <2>1, <3>1, <3>2
  <2>2. CASE k # n
    <3>1. k \in 1 .. taken[f] /\ n \in k + 1 .. Len(raw[f])
      BY <1>2, <2>2
    <3>2. ASSUME IsLastText(f, k) PROVE HasText(f, raw[f][k])'
      <4>1. HasText(f, raw[f][k]) /\ (IsNewText(f, n) => Id(u) # Id(raw[f][k]))
        BY <1>1, <1>3, <3>1, <3>2 DEF JobInv, IsLastText
      <4>. QED
        BY <1>2, <1>5, <4>1 DEF HasText
    <3>. QED
      BY <1>3, <1>6, <3>1, <3>2 DEF JobInv
  <2>. QED
    BY <2>1, <2>2
<1>8. JobInv(f)'
  <2>1. \A k : IsLastText(f, k)' <=> IsLastText(f, k)
    BY <1>2 DEF IsLastText, IsNewText
  <2>. HIDE DEF n
  <2>. QED
    BY <1>2, <1>4, <1>7, <2>1 DEF JobInv
<1>9. ASSUME NEW g \in Feed PROVE PageInv(g)' /\ QueueInv(g)' /\ TopicInv(g)' /\ FirstInv(g)'
  <2>1. PageInv(g)' /\ QueueInv(g)'
    <3>1. Said(g)' = Said(g) /\ PageInv(g) /\ QueueInv(g)
      BY <1>2 DEF Said, PubInv
    <3>. HIDE DEF n
    <3>. QED
      BY <1>2, <3>1 DEF PageInv, QueueInv
  <2>2. TopicInv(g)'
    BY <1>2 DEF PubInv, TopicInv
  <2>3. FirstInv(g)'
    <3>1. \A k : IsNewText(g, k)' <=> IsNewText(g, k)
      BY <1>2 DEF IsNewText
    <3>. QED
      BY <1>2, <3>1 DEF PubInv, FirstInv
  <2>. QED
    BY <2>1, <2>2, <2>3
<1>10. ASSUME NEW g \in Feed, g # f PROVE JobInv(g)'
  <2>1. UNCHANGED <<raw, index[g], signalled[g], taken[g]>>
    BY <1>2, <1>4, <1>10
  <2>. QED
    BY <2>1 DEF PubInv, JobInv, IsLastText, HasText, IsNewText
<1>. QED
  BY <1>4, <1>8, <1>9, <1>10 DEF PubInv

LEMMA ReplayIsCurrent ==
  ASSUME TypeOK, PubInv, UNCHANGED <<page, todo, raw, index, signalled>>,
         \A f \in Feed : taken'[f] \in 0 .. taken[f]
  PROVE  PubInv'
<1>1. ASSUME NEW f \in Feed PROVE JobInv(f)'
  <2>1. \A k \in 1 .. taken'[f] : k \in 1 .. taken[f]
    BY DEF TypeOK
  <2>2. \A k : IsLastText(f, k)' <=> IsLastText(f, k)
    BY DEF IsLastText, IsNewText
  <2>. QED
    BY <2>1, <2>2 DEF PubInv, JobInv, HasText
<1>2. ASSUME NEW f \in Feed PROVE PageInv(f)' /\ QueueInv(f)' /\ TopicInv(f)' /\ FirstInv(f)'
  <2>1. PageInv(f)' /\ QueueInv(f)'
    BY DEF PubInv, PageInv, QueueInv, Said
  <2>2. TopicInv(f)'
    BY DEF PubInv, TopicInv
  <2>3. FirstInv(f)'
    <3>1. \A k : IsNewText(f, k)' <=> IsNewText(f, k)
      BY DEF IsNewText
    <3>. QED
      BY <3>1 DEF PubInv, FirstInv
  <2>. QED
    BY <2>1, <2>2, <2>3
<1>. QED
  BY <1>1, <1>2 DEF PubInv

LEMMA PubInit == Init => PubInv
<1>. SUFFICES ASSUME Init PROVE PubInv
  OBVIOUS
<1>1. \A f \in Feed : page[f] = <<>> /\ raw[f] = <<>> /\ todo[f] = {} /\ taken[f] = 0
  BY DEF Init
<1>2. Len(<<>>) = 0 /\ DOMAIN <<>> = {}
  OBVIOUS
<1>3. ASSUME NEW f \in Feed
      PROVE  PageInv(f) /\ QueueInv(f) /\ TopicInv(f) /\ FirstInv(f) /\ JobInv(f)
  BY <1>1, <1>2 DEF PageInv, Ordered, QueueInv, TopicInv, FirstInv, JobInv, Said
<1>4. index = [f \in Feed |-> index[f]]
  BY DEF Init
<1>. QED
  BY <1>3, <1>4 DEF PubInv

LEMMA PubStep ==
  ASSUME ~Reverts, TypeOK, TypeOK', PubInv, [Next]_vars
  PROVE  PubInv'
<1>. USE DEF site, memory, disk, sweep, job, ghost
<1>1. ASSUME NEW f \in Feed, Post(f) PROVE PubInv'
  <2>1. PICK b : page' = [page EXCEPT ![f] = <<b>> \o @] /\
          \E later \in {0, 1} :
            b = [minute |-> IF page[f] = <<>> THEN 0 ELSE page[f][1].minute + later,
                 post |-> Len(page[f]) + 1, rev |-> 0]
    BY <1>1 DEF Post
  <2>2. page[f] \in Seq(Block) /\ page \in [Feed -> Seq(Block)]
    BY DEF TypeOK
  <2>3. b \in Block /\ b.post = Len(page[f]) + 1 /\ (page[f] # <<>> => b.minute >= page[f][1].minute)
    <3>1. CASE page[f] = <<>>
      BY <2>1, <2>2, <3>1 DEF Block
    <3>2. CASE page[f] # <<>>
      <4>1. page[f][1] \in Block
        BY <2>2, <3>2
      <4>2. page[f][1].minute \in Nat /\ Len(page[f]) + 1 \in Nat \ {0}
        BY <2>2, <4>1 DEF Block
      <4>. QED
        BY <2>1, <3>2, <4>2 DEF Block
    <3>. QED
      BY <3>1, <3>2
  <2>4. page'[f] = <<b>> \o page[f] /\ \A g \in Feed \ {f} : page'[g] = page[g]
    BY <2>1, <2>2
  <2>5. Ordered(page[f])
    BY DEF PubInv, PageInv
  <2>6. Ordered(page'[f]) /\ \A u \in Parsed(page[f]) : Below(u, page'[f])
    BY <2>2, <2>3, <2>4, <2>5, PostKeepsIds
  <2>7. UNCHANGED <<todo, raw, taken, index, signalled>>
    BY <1>1 DEF Post
  <2>. QED
    BY <2>4, <2>6, <2>7, SiteIsCurrent
<1>2. ASSUME NEW f \in Feed, Edit(f) PROVE PubInv'
  <2>1. page[f] \in Seq(Block) /\ page \in [Feed -> Seq(Block)]
    BY DEF TypeOK
  <2>2. PICK n \in 1 .. Len(page[f]) : page' = [page EXCEPT ![f][n].rev = @ + 1]
    BY <1>2, <2>1 DEF Edit
  <2>3. page'[f] = [page[f] EXCEPT ![n].rev = @ + 1] /\ \A g \in Feed \ {f} : page'[g] = page[g]
    BY <2>1, <2>2
  <2>4. Ordered(page[f])
    BY DEF PubInv, PageInv
  <2>5. Ordered(page'[f]) /\ \A u \in Parsed(page[f]) : Below(u, page'[f])
    <3>. DEFINE p == page[f]
                q == [p EXCEPT ![n].rev = @ + 1]
    <3>1. p \in Seq(Block) /\ Ordered(p) /\ n \in 1 .. Len(p)
      BY <2>1, <2>4
    <3>2. page'[f] = q
      BY <2>3
    <3>. HIDE DEF p
    <3>3. Ordered(q) /\ \A u \in Parsed(p) : Below(u, q)
      BY <3>1, EditKeepsIds
    <3>. HIDE DEF q
    <3>. QED
      BY <3>2, <3>3 DEF p
  <2>6. UNCHANGED <<todo, raw, taken, index, signalled>>
    BY <1>2 DEF Edit
  <2>. QED
    BY <2>3, <2>5, <2>6, SiteIsCurrent
<1>3. ASSUME NEW f \in Feed, Skip(f) \/ Fetch(f) \/ FetchFails(f) PROVE PubInv'
  <2>1. Finish(f, {}) \/ Finish(f, Parsed(page[f]))
    BY <1>3 DEF Skip, Fetch, NotModified, Modified, Nothing, FetchFails
  <2>2. /\ todo' = [todo EXCEPT ![f] = {}] \/ todo' = [todo EXCEPT ![f] = Parsed(page[f])]
        /\ UNCHANGED <<page, raw, taken, index, signalled>>
    BY <2>1 DEF Finish
  <2>3. \A g \in Feed : todo'[g] \subseteq todo[g] \/ todo'[g] = Parsed(page[g])
    BY <2>2 DEF TypeOK
  <2>. QED
    BY <2>2, <2>3, QueueIsCurrent
<1>4. ASSUME UNCHANGED <<page, raw, taken, index, signalled>>, todo' = todo \/ \A f \in Feed : todo'[f] = {}
      PROVE  PubInv'
  BY <1>4, QueueIsCurrent
<1>5. CASE BeginSweep \/ EndSweep \/ Save \/ SaveFails \/ Restart \/ Tick
  BY <1>4, <1>5 DEF BeginSweep, EndSweep, Save, SaveFails, Restart, Tick
<1>6. Die => PubInv'
  BY <1>4 DEF Die
<1>7. CASE Flush \/ Crash
  <2>1. CASE Die
    BY <1>6, <2>1
  <2>2. CASE ~Die
    BY <1>4, <1>7, <2>2 DEF Flush, Crash
  <2>. QED
    BY <2>1, <2>2
<1>8. ASSUME NEW f \in Feed, Produce(f) \/ ProduceFails(f) PROVE PubInv'
  <2>1. PICK u \in todo[f] : Dequeue(f, u) /\ (Send(f, u) \/ UNCHANGED raw)
    BY <1>8 DEF Produce, ProduceFails
  <2>2. CASE Send(f, u)
    BY <2>1, <2>2, SendIsCurrent
  <2>3. CASE UNCHANGED raw
    <3>1. todo' = [todo EXCEPT ![f] = @ \ {u}] /\ UNCHANGED <<page, taken, index, signalled>>
      BY <2>1 DEF Dequeue
    <3>2. \A g \in Feed : todo'[g] \subseteq todo[g]
      BY <3>1 DEF TypeOK
    <3>. QED
      BY <2>3, <3>1, <3>2, QueueIsCurrent
  <2>. QED
    BY <2>1, <2>2, <2>3
<1>9. ASSUME NEW f \in Feed, Take(f) PROVE PubInv'
  BY <1>9, TakeIsCurrent
<1>10. CASE Checkpoint \/ JobRestarts
  <2>1. UNCHANGED <<page, todo, raw, index, signalled>>
    BY <1>10 DEF Checkpoint, JobRestarts
  <2>2. \A f \in Feed : taken'[f] \in 0 .. taken[f]
    <3>1. taken' = taken \/ taken' = checkpoint \/ taken' = [f \in Feed |-> 0]
      BY <1>10 DEF Checkpoint, JobRestarts
    <3>2. \A f \in Feed : taken[f] \in Nat /\ checkpoint[f] \in 0 .. taken[f]
      BY DEF TypeOK
    <3>. QED
      BY <3>1, <3>2
  <2>. QED
    BY <2>1, <2>2, ReplayIsCurrent
<1>11. CASE UNCHANGED vars
  BY <1>4, <1>11 DEF vars
<1>. QED
  BY <1>1, <1>2, <1>3, <1>5, <1>7, <1>8, <1>9, <1>10, <1>11 DEF Next, Environment, Poller

\* Whenever the saved validator is that of the page and the job has read the
\* topic, the index has the page's texts and the autopilot its transitions,
\* whatever was lost, repeated and replayed on the way.  An edit that restores
\* an earlier text is excluded: the job has seen it and emits nothing.
THEOREM IndexIsCurrent ==
  ASSUME ~Reverts, NoTag \notin Seq(Block)
  PROVE  Spec => []PublishedIsCurrent
<1>1. Init => EarnInv
  BY DEF Init, EarnInv, Earned, Covered, NothingLeft
<1>2. EarnInv /\ TypeOK /\ [Next]_vars => EarnInv'
  BY EarnStep
<1>3. TypeOK /\ TypeOK' /\ PubInv /\ [Next]_vars => PubInv'
  BY PubStep
<1>4. TypeOK /\ EarnInv /\ PubInv => PublishedIsCurrent
  <2>. SUFFICES ASSUME TypeOK, EarnInv, PubInv, NEW f \in Feed, saved[f] = page[f],
                       taken[f] = Len(raw[f]), NEW u \in Parsed(page[f])
                PROVE  Published(f, u)
    BY DEF PublishedIsCurrent
  <2>1. page[f] \in Seq(Block) /\ saved[f] # NoTag /\ raw[f] \in Seq(Update) /\ Len(raw[f]) \in Nat
    BY DEF TypeOK
  <2>2. PICK n \in 1 .. Len(raw[f]) : u = raw[f][n]
    BY <2>1, SaidType DEF EarnInv, Earned, Said
  <2>3. PICK k \in 1 .. n : IsNewText(f, k) /\ IdAndText(raw[f][k]) = IdAndText(u)
    BY <2>2 DEF PubInv, FirstInv
  <2>4. k \in 1 .. taken[f] /\ k \in 1 .. Len(raw[f]) /\ n \in 1 .. taken[f]
    BY <2>1
  <2>5. Id(raw[f][k]) = Id(u) /\ Text(raw[f][k]) = Text(u) /\ raw[f][k] \in Update /\ u \in Update
    <3>1. raw[f][k] \in Update /\ u \in Update
      BY <2>1, <2>2, <2>4, ElementOfSeq
    <3>. QED
      BY <2>3, <3>1 DEF IdAndText
  <2>6. ASSUME NEW j \in k + 1 .. Len(raw[f]), IsNewText(f, j), Id(raw[f][j]) = Id(raw[f][k])
        PROVE  FALSE
    <3>. DEFINE r == raw[f][j]
    <3>1. j \in 1 .. Len(raw[f]) /\ k \in 1 .. j - 1
      BY <2>1, <2>4
    <3>2. r \in Update /\ r \in Said(f)
      BY <2>1, <3>1, ElementOfSeq DEF Said
    <3>3. NotNewer(raw[f][k], r)
      BY <2>6, <3>1 DEF PubInv, TopicInv
    <3>4. PICK v \in Parsed(page[f]) : Id(v) = Id(r) /\ NotNewer(r, v)
      BY <3>2 DEF PubInv, PageInv, Below
    <3>5. v = u
      BY <2>1, <2>5, <2>6, <3>4, IdsAreUnique
    <3>6. Text(raw[f][k]) = Text(r)
      BY <2>5, <3>2, <3>3, <3>4, <3>5 DEF NotNewer, Text, Update
    <3>7. IdAndText(raw[f][k]) = IdAndText(r)
      BY <2>6, <3>6 DEF IdAndText
    <3>. QED
      BY <2>6, <3>1, <3>7 DEF IsNewText
  <2>7. IsLastText(f, k)
    BY <2>3, <2>6 DEF IsLastText
  <2>8. HasText(f, raw[f][k]) /\ TransitionOf(raw[f][n]) \subseteq signalled[f]
    BY <2>4, <2>7 DEF PubInv, JobInv
  <2>. QED
    BY <2>2, <2>5, <2>8 DEF HasText, Published
<1>. QED
  BY <1>1, <1>2, <1>3, <1>4, PubInit, IngestTypes, PTL DEF Spec

=============================================================================
