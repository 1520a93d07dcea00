------------------------------ MODULE MCIngest ------------------------------
(* Small instances of Ingest for TLC. *)
EXTENDS Ingest, TLC

CONSTANTS f1, f2

OneFeed == {f1}
TwoFeeds == {f1, f2}

OpenAndShut == <<"investigating", "resolved">>
=============================================================================
