--------------------------- MODULE DeliveryPromise ---------------------------
(***************************************************************************)
(* What the autopilot promises about one incident's messages, whoever      *)
(* delivers them and whatever fails: a slot is shown until it is settled   *)
(* and never again, follow-ups come after the opening brief is settled,    *)
(* and only what was shown is settled.  At least once, not exactly once:   *)
(* a slot may be shown again while it is not settled.                      *)
(***************************************************************************)
EXTENDS Sequences

CONSTANTS Incident, Slot, Brief

VARIABLES
  owed,     \* the slots an incident still has to deliver
  shown,    \* what the channel shows for the incident, in order
  settled   \* the slots recorded as delivered

pvars == <<owed, shown, settled>>

PInit ==
  /\ owed = [i \in Incident |-> {}]
  /\ shown = [i \in Incident |-> << >>]
  /\ settled = [i \in Incident |-> {}]

Owe(i, s) ==
  /\ s \notin settled[i]
  /\ owed' = [owed EXCEPT ![i] = @ \cup {s}]
  /\ UNCHANGED <<shown, settled>>

Show(i, s) ==
  /\ s \notin settled[i]
  /\ s # Brief => Brief \in settled[i]
  /\ shown' = [shown EXCEPT ![i] = Append(@, s)]
  /\ UNCHANGED <<owed, settled>>

Settle(i, s) ==
  /\ s \notin settled[i]
  /\ \E k \in DOMAIN shown[i] : shown[i][k] = s
  /\ settled' = [settled EXCEPT ![i] = @ \cup {s}]
  /\ owed' = [owed EXCEPT ![i] = @ \ {s}]
  /\ UNCHANGED shown

PNext == \E i \in Incident, s \in Slot : Owe(i, s) \/ Show(i, s) \/ Settle(i, s)

PSpec == PInit /\ [][PNext]_pvars
=============================================================================
