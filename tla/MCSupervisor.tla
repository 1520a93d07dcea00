---------------------------- MODULE MCSupervisor ----------------------------
(* Small instances of Supervisor for TLC. *)
EXTENDS Supervisor, TLC

CONSTANTS poller, embedder, autopilot

TwoChildren == <<poller, embedder>>
ThreeChildren == <<poller, embedder, autopilot>>
None == {}
Stuck == {poller}
=============================================================================
