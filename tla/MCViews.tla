------------------------------ MODULE MCViews ------------------------------
(* Values of WindowQuery's constants that a configuration cannot write. *)
EXTENDS Views

MCTimes == {-1, 1, 2, 5, 8}
MCStarts == {-3, 1, None}
=============================================================================
