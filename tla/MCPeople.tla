------------------------------ MODULE MCPeople ------------------------------
(* Three people whose records are one person's, and two colleagues who      *)
(* accept two of the proposals about them at the same time.                 *)
EXTENDS People, TLC

CONSTANTS a, b, c, m1, m2, m3, k1, k2

ThreePeople == (m1 :> a) @@ (m2 :> b) @@ (m3 :> c)
=============================================================================
