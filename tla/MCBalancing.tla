--------------------------- MODULE MCBalancing ---------------------------
(***************************************************************************)
(* Two sections of five cells.  One voltage profile needs no balancing, in *)
(* the other neighbours compete, with a tie and along a slope, and one     *)
(* cell is below the limit.  They are read one section at a time, so that  *)
(* the handler also meets the old voltages of one section with the new     *)
(* ones of the other.                                                      *)
(***************************************************************************)
EXTENDS Bq769x0Balancing

MCProfiles == {<<1, 1, 1, 1, 1>>, <<4, 4, 2, 5, 6>>}

\* The second has neighbours in its second section only.
MCRequests == {<<{1, 3}, {1, 5}>>, <<{2}, {1, 2}>>}
==========================================================================
