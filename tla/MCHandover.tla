----------------------------- MODULE MCHandover -----------------------------
(* Values of the constants of Handover: two exit tests, passed together, or *)
(* the second one alone, and failed.                                        *)
EXTENDS Handover, TLC

MCTask == {"t1", "t2"}

MCChecklists ==
    {[t \in MCTask |-> "pass"], [t \in MCTask |-> IF t = "t1" THEN "absent" ELSE "fail"]}

MCSymmetry == Permutations(Operator)
=============================================================================
