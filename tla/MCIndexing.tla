----------------------------- MODULE MCIndexing -----------------------------
(* Small instances of Indexing for TLC. *)
EXTENDS Indexing, TLC

CONSTANTS a, b, w1, w2

OneWorker == {w1}
TwoWorkers == {w1, w2}
OneEvent == {a}
TwoEvents == {a, b}
NoEvents == {}
Legacy == {b}

Msg1(e, v, n, kind) == [event |-> e, version |-> v, chunks |-> n, kind |-> kind]
Text(e, v, n) == Msg1(e, v, n, "text")

\* An event that is edited to a longer and then to a shorter text.
EditLog == <<Text(a, 1, 2), Text(a, 2, 1)>>
\* Everything a partition may hold; the texts of an event fit into one batch.
MixedLog == <<Msg1(b, 1, 1, "poison"), Text(a, 1, 2), Text(a, 2, 1),
              Msg1(b, 1, 0, "blank"), Text(b, 2, 2), Msg1(a, 1, 0, "junk")>>
=============================================================================
