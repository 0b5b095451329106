------------------------------- MODULE MCPlayer -------------------------------
(* A small instance of Player for TLC: turned, forward is backward and slower. *)
EXTENDS Player

BackAndForth ==
    [h \in Headings |-> [k \in Keys |-> (IF h = "north" THEN 2 ELSE -1) * (IF k = "W" THEN 1 ELSE -1)]]

===============================================================================
