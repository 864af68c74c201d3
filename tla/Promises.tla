------------------------------ MODULE Promises ------------------------------
(***************************************************************************)
(* What the outbox promises whoever asks for work under a job id of its own *)
(* choosing: once asked for, the job comes into being, and it does so once, *)
(* however often it is asked for again.                                     *)
(***************************************************************************)
EXTENDS Naturals

CONSTANT Jobs

VARIABLES asked,    \* the jobs that were asked for
          created   \* how often each job has come into being

vars == <<asked, created>>

Init ==
  /\ asked = {}
  /\ created = [j \in Jobs |-> 0]

Ask(j) ==
  /\ asked' = asked \cup {j}
  /\ UNCHANGED created

Create(j) ==
  /\ j \in asked
  /\ created[j] = 0
  /\ created' = [created EXCEPT ![j] = 1]
  /\ UNCHANGED asked

Next == \E j \in Jobs : Ask(j) \/ Create(j)

Spec == Init /\ [][Next]_vars /\ \A j \in Jobs : WF_vars(Create(j))
=============================================================================
