------------------------------ MODULE MCOutbox ------------------------------
(* The outbox on small instances: turn, a job kept under its id; timer, one *)
(* that is taken back; and summary, one that is gone once it completes.      *)
EXTENDS Outbox

CONSTANTS turn, timer, summary, r1, r2

OneTimer     == {timer}
OneSummary   == {summary}
AllJobs      == {turn, timer, summary}
TwoRelays    == {r1, r2}
=============================================================================
