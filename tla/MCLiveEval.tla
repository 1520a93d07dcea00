----------------------------- MODULE MCLiveEval -----------------------------
(* A small instance of LiveEval for TLC. *)
EXTENDS LiveEval, TLC

Msg(e, n) == [event |-> e, chunks |-> n]

\* An incident of two updates, the second of which is edited to a shorter text.
Edited == <<Msg(1, 2), Msg(2, 2), Msg(2, 1)>>
OneIncident == <<"i1", "i1">>

\* Questions that order the texts in many ways, and texts that do not match.
Number(t) == CHOOSE n \in 1 .. Cardinality(Text) :
  n = Cardinality({s \in Text : s = t \/ IdBefore(s, t)})
Mixed(a, b) == [t \in Text |-> (a * Number(t) + b) % 5]
Matched(a, b) == [t \in Text |-> IF Mixed(a, b)[t] < 3 THEN 0 ELSE Mixed(a, b)[t]]

\* The words agree with the vectors, or say the opposite.
Alike(a, b, c) ==
  [cos |-> Mixed(a, b), ccos |-> Mixed(b, a), centered |-> c, rank |-> Mixed(1, a),
   since |-> IF a = 1 THEN 2 ELSE None]
Opposed(a, b, c) ==
  [cos |-> Mixed(a, b), ccos |-> Mixed(b, a), centered |-> c, rank |-> Matched(5 - a, 4 - b),
   since |-> None]
SomeQuestions ==
  {Alike(a, b, c) : a \in {1, 4}, b \in {2}, c \in BOOLEAN}
    \cup {Opposed(a, b, c) : a \in {1, 4}, b \in {2}, c \in BOOLEAN}
FewQuestions == {Alike(4, 2, FALSE)}

\* Only the moments of the two SELECTs matter: whatever a search does on its
\* own it does at once.  Questions are asked behind the guard, and fewer of
\* them after a fault.
Asked == at = "idle" /\ at' = "vector"
EvalNext ==
  /\ Next
  /\ at \in {"vector", "fuse", "done"} => at' # at
  /\ Asked => stage = "ready"
  /\ Asked /\ faults > 0 => ask'.question \in FewQuestions
EvalSpec == Init /\ [][EvalNext]_vars
=============================================================================
