---------------------------- MODULE PowerPath ----------------------------
(***************************************************************************)
(* What the battery management firmware promises about the power path: a   *)
(* direction of current (charging, discharging) is granted only while it   *)
(* is permitted, it is taken back when it no longer is, and a shutdown     *)
(* takes both back for good, until the next start-up.  Nothing is said     *)
(* about polls, registers or threads; module Bms implements this           *)
(* specification.                                                          *)
(***************************************************************************)

CONSTANT Dir          \* directions of current

VARIABLES
  permit,             \* directions that errors and user settings permit
  enabled,            \* directions granted
  down                \* a shutdown has been ordered

vars == <<permit, enabled, down>>

TypeOK ==
  /\ permit \in SUBSET Dir
  /\ enabled \in SUBSET Dir
  /\ down \in BOOLEAN

Init ==
  /\ permit \in SUBSET Dir
  /\ enabled = {}
  /\ down = FALSE

\* Errors come and go, and the user changes the settings, at any time.
Sense ==
  /\ permit' \in SUBSET Dir
  /\ UNCHANGED <<enabled, down>>

Grant(d) ==
  /\ ~down
  /\ d \in permit \ enabled
  /\ enabled' = enabled \union {d}
  /\ UNCHANGED <<permit, down>>

Revoke(d) ==
  /\ d \in enabled \ permit
  /\ enabled' = enabled \ {d}
  /\ UNCHANGED <<permit, down>>

Shutdown ==
  /\ down' = TRUE
  /\ enabled' = {}
  /\ UNCHANGED permit

Restart ==
  /\ down' = FALSE
  /\ enabled' = {}
  /\ permit' \in SUBSET Dir

Next ==
  \/ Sense
  \/ \E d \in Dir : Grant(d) \/ Revoke(d)
  \/ Shutdown
  \/ Restart

(***************************************************************************)
(* A direction that stays forbidden is taken back, and a direction that    *)
(* stays permitted is granted at least when the other one already is.      *)
(* More cannot be promised for charging: see the README on starvation.     *)
(***************************************************************************)
GrantSecond(d) == enabled # {} /\ Grant(d)

Fairness ==
  \A d \in Dir : WF_vars(Revoke(d)) /\ WF_vars(GrantSecond(d))

Spec == Init /\ [][Next]_vars /\ Fairness
==========================================================================
