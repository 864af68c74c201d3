------------------------------- MODULE MCTurns -------------------------------
(* Turns on small instances: the values the configurations choose from. *)
EXTENDS Turns, TLC

CONSTANTS e1, e2, q1, q2

Op(kind, to) == [kind |-> kind, to |-> to]

OneEvent    == {e1}
TwoEvents   == {e1, e2}
MCInstants  == Events \cup {Now}
MCUsers     == {Agent}
NoMedia     == {}
Media2      == {e2}
OneRequest  == {q1}
TwoRequests == {q1, q2}

TakeOver  == {Op("take_over", "-")}
Anything  == TakeOver \cup {Op("return_to_ai", "-"), Op("message", "-"), Op("assign", "-")}
                       \cup {Op("set_mode", m) : m \in Modes}
                       \cup {Op("set_status", s) : s \in Statuses}

MayHandOff == {"reply", "handoff", "empty"}
WithLink   == {"reply+link"}
Most       == {"reply", "reply+writes", "handoff", "empty"}

Symmetry == Permutations(Requests)
=============================================================================
