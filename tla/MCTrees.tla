------------------------------- MODULE MCTrees -------------------------------
(* Elements that are their own keys, but for the last, which has another's. *)
EXTENDS Trees

MCRBKey == [e \in RBElements |-> IF e = 7 THEN 4 ELSE e]

MCSplayKey == [e \in SplayElements |-> IF e = 6 THEN 3 ELSE e]
=============================================================================
