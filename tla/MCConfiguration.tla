-------------------------- MODULE MCConfiguration --------------------------
(***************************************************************************)
(* Instances of Configuration.                                             *)
(***************************************************************************)
EXTENDS Configuration

MCAdc == [gain |-> 382, offset |-> 40]
\* One value that has to be rounded and one that the bq769x2 refuses.
MCAsked == {<<"cell_ov_limit", 41000>>, <<"dis_ot_limit", -5>>}
=============================================================================
