----------------------------- MODULE MCCapaProblem -----------------------------
(* The problem with two good answers and two versions: the second version     *)
(* moves the full points from "a" to "b", for all learners or only for those  *)
(* who got seed 1.                                                            *)
EXTENDS CapaVisibility

MCPoints(k, s, a) ==
    IF a = "a" THEN (IF k = 1 THEN 2 ELSE 0)
    ELSE IF a = "b" THEN (IF k = 2 /\ s = 1 THEN 2 ELSE 1)
    ELSE 0

MCTieUp(h) == h[Len(h)] = 100

MCSamePoints(k, s, a) == MCPoints(k, 1, a)
================================================================================
