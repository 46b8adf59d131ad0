---------------------------- MODULE BmsProofs ----------------------------
(***************************************************************************)
(* Proofs about module Bms, for any set of drivers, error flags, currents, *)
(* and any number of I2C errors and resets.                                *)
(***************************************************************************)
EXTENDS Bms, SequenceTheorems, TLAPS

LEMMA CommandTypes ==
  ASSUME NEW s \in Dir
  PROVE  /\ On(s) \in Command
         /\ Off(s) \in Command
         /\ Other(s) \in Dir
BY DEF On, Off, Command, Dir, Other

\* The lists of driver calls that the state machine plans.
LEMMA PlanTypes ==
  ASSUME NEW c \in Command, NEW d \in Command
  PROVE  /\ <<c>> \in Seq(Command) /\ <<c>> # <<>>
         /\ <<c, d>> \in Seq(Command) /\ <<c, d>> # <<>>
  OBVIOUS

LEMMA TailTypes ==
  ASSUME NEW S, NEW s \in Seq(S), s # <<>>
  PROVE  /\ Head(s) \in S
         /\ Tail(s) \in Seq(S)
         /\ Len(s) \in Nat \ {0}
         /\ Tail(s) # <<>> <=> Len(s) > 1
<1>1. Head(s) \in S /\ Tail(s) \in Seq(S) /\ Len(Tail(s)) = Len(s) - 1
  BY HeadTailProperties
<1>2. Len(s) \in Nat \ {0}
  BY EmptySeq
<1>3. Tail(s) # <<>> <=> Len(Tail(s)) \in Nat \ {0}
  BY <1>1, EmptySeq
<1>4. QED BY <1>1, <1>2, <1>3

(***************************************************************************)
(* set_switches() calls are left to make only while the plan is carried    *)
(* out; then there is at least one.                                        *)
(***************************************************************************)
PlanPending == pc = "switch" <=> plan # <<>>

LEMMA BeginType ==
  ASSUME NEW cmds \in Seq(Command), NEW st \in State, Begin(cmds, st)
  PROVE  plan' \in Seq(Command) /\ next' \in State /\ pc' \in Pc
BY DEF Begin, Pc

LEMMA EndRunType ==
  ASSUME TypeOK, NEW st, EndRun(st)
  PROVE  late' \in [Dir -> Nat]
BY DEF TypeOK, EndRun

LEMMA FailsType ==
  ASSUME TypeOK, Fails \/ Responds
  PROVE  ioErrors' \in 0 .. MaxIoErrors
BY BoundsAssumption DEF TypeOK, Fails, Responds

(***************************************************************************)
(* Type correctness: the variables of the loop, the shared data and the IC *)
(* keep their types, and the list of pending driver calls is never used    *)
(* when empty.                                                             *)
(***************************************************************************)
TypeInv == TypeOK /\ PlanPending

LEMMA InitTypeInv == Init => TypeInv
BY BoundsAssumption DEF Init, TypeInv, TypeOK, PlanPending, Pc, State, Dir, Command

LEMMA NextTypeInv == TypeInv /\ [Next]_vars => TypeInv'
<1> SUFFICES ASSUME TypeInv, [Next]_vars
             PROVE  TypeInv'
  OBVIOUS
<1> USE DEF TypeInv
<1>1. CASE Activate
  BY <1>1, FailsType
  DEF Activate, ActivatedFets, TypeOK, PlanPending, Pc, dataVars, histVars
<1>2. CASE ActivateRetry
  BY <1>2, FailsType
  DEF ActivateRetry, TypeOK, PlanPending, Pc, mainVars, dataVars, icVars, histVars
<1>3. CASE ReadData
  BY <1>3
  DEF ReadData, TypeOK, PlanPending, Pc, icVars, histVars, boundVars
<1>4. CASE StateMachineFirst
  <2> USE DEF StateMachineFirst, dataVars, icVars, boundVars
  <2>1. ASSUME NEW cmds \in Seq(Command), NEW st \in State,
               Begin(cmds, st), cmds # <<>>
        PROVE  TypeInv'
    BY <1>4, <2>1, BeginType DEF Begin, TypeOK, PlanPending
  <2>2. CASE DisFromOff /\ Begin(<<On("DIS")>>, "DIS")
    BY <2>1, <2>2, CommandTypes, PlanTypes DEF Dir, State
  <2>3. CASE OnlyDirForbidden /\ Begin(<<Off(state), Off(Other(state))>>, "OFF")
    BY <2>1, <2>3, CommandTypes, PlanTypes DEF Dir, State, OnlyDirForbidden
  <2>4. CASE DisForbidden /\ Begin(<<Off("DIS")>>, "CHG")
    BY <2>1, <2>4, CommandTypes, PlanTypes DEF Dir, State
  <2>5. CASE pc' = "test2" /\ UNCHANGED <<plan, next>>
    BY <1>4, <2>5 DEF TypeOK, PlanPending, Pc
  <2>6. QED BY <1>4, <2>2, <2>3, <2>4, <2>5
<1>5. CASE StateMachineSecond
  <2> USE DEF StateMachineSecond, dataVars, icVars, boundVars
  <2>1. ASSUME NEW cmds \in Seq(Command), NEW st \in State,
               Begin(cmds, st), cmds # <<>>, UNCHANGED late
        PROVE  TypeInv'
    BY <1>5, <2>1, BeginType DEF Begin, TypeOK, PlanPending
  <2>2. CASE SecondTest /\ UNCHANGED late
    <3>1. CASE ChgFromOff /\ Begin(<<On("CHG")>>, "CHG")
      BY <2>1, <2>2, <3>1, CommandTypes, PlanTypes DEF Dir, State
    <3>2. CASE OtherDirAllowed /\ Begin(<<On(Other(state))>>, "NORMAL")
      BY <2>1, <2>2, <3>2, CommandTypes, PlanTypes DEF Dir, State, OtherDirAllowed
    <3>3. CASE DiodeConducts /\ Begin(<<On(Other(state))>>, state)
      BY <2>1, <2>2, <3>3, CommandTypes, PlanTypes DEF Dir, State, DiodeConducts
    <3>4. CASE DiodeBlocks /\ Begin(<<Off(Other(state))>>, state)
      BY <2>1, <2>2, <3>4, CommandTypes, PlanTypes DEF Dir, State, DiodeBlocks
    <3>5. CASE ChgForbidden /\ Begin(<<Off("CHG")>>, "DIS")
      BY <2>1, <2>2, <3>5, CommandTypes, PlanTypes DEF Dir, State
    <3>6. QED BY <2>2, <3>1, <3>2, <3>3, <3>4, <3>5 DEF SecondTest
  <2>3. CASE SecondTestFails /\ pc' = "button" /\ EndRun(state)
             /\ UNCHANGED <<plan, next>>
    BY <1>5, <2>3, EndRunType DEF TypeOK, PlanPending, Pc
  <2>4. QED BY <1>5, <2>2, <2>3
<1>6. CASE SetSwitch
  <2> DEFINE cmd == Head(plan)
  <2>1. plan # <<>> /\ plan \in Seq(Command)
    BY <1>6 DEF SetSwitch, TypeOK, PlanPending
  <2>2. /\ cmd \in Command
        /\ plan' \in Seq(Command)
        /\ plan' # <<>> <=> Len(plan) > 1
    BY <1>6, <2>1, TailTypes DEF SetSwitch
  <2>3. fet' \in SUBSET Dir /\ missed' \in SUBSET Dir
        /\ ioErrors' \in 0 .. MaxIoErrors
    BY <1>6, <2>2, FailsType
    DEF SetSwitch, Commanded, FailedSwitching, Command, TypeOK
  <2>4. pc' \in Pc /\ state' \in State /\ late' \in [Dir -> Nat]
    BY <1>6, EndRunType DEF SetSwitch, TypeOK, Pc
  <2>5. PlanPending'
    BY <1>6, <2>2 DEF SetSwitch, PlanPending
  <2>6. QED
    BY <1>6, <2>2, <2>3, <2>4, <2>5 DEF SetSwitch, TypeOK, dataVars
<1>7. CASE NotPressed
  BY <1>7
  DEF NotPressed, TypeOK, PlanPending, Pc, dataVars, icVars, histVars, boundVars
<1>8. CASE Pressed
  <2>1. ShutdownCommands \in Seq(Command) /\ ShutdownCommands # <<>>
        /\ "SHUTDOWN" \in State
    BY CommandTypes, PlanTypes DEF ShutdownCommands, Dir, State
  <2>2. QED
    BY <1>8, <2>1, BeginType
    DEF Pressed, Begin, TypeOK, PlanPending, dataVars, icVars, histVars, boundVars
<1>9. CASE ReleaseButton
  BY <1>9, FailsType
  DEF ReleaseButton, SetModeOff, TypeOK, PlanPending, Pc, dataVars, icVars, histVars
<1>10. ASSUME NEW d \in Dir, WriteEnable(d)
       PROVE  TypeInv'
  BY <1>10
  DEF WriteEnable, Enabling, TypeOK, PlanPending, mainVars, icVars, boundVars
<1>11. CASE Preset
  BY <1>11
  DEF Preset, Enabling, TypeOK, PlanPending, mainVars, icVars, boundVars
<1>12. CASE ShutdownRequest
  BY <1>12, FailsType
  DEF ShutdownRequest, SetModeOff, TypeOK, PlanPending, mainVars, dataVars,
      icVars, histVars
<1>13. CASE Reset
  BY <1>13, BoundsAssumption
  DEF Reset, TypeOK, PlanPending, Pc, State, Command, icVars
<1>14. CASE ProtectionTrip
  BY <1>14
  DEF ProtectionTrip, TypeOK, PlanPending, mainVars, dataVars, histVars, boundVars
<1>15. CASE WakeUp
  BY <1>15
  DEF WakeUp, TypeOK, PlanPending, mainVars, dataVars, histVars, boundVars
<1>16. CASE UNCHANGED vars
  BY <1>16
  DEF vars, TypeOK, PlanPending, mainVars, dataVars, icVars, histVars, boundVars
<1>17. QED
  BY <1>1, <1>2, <1>3, <1>4, <1>5, <1>6, <1>7, <1>8, <1>9, <1>10, <1>11,
     <1>12, <1>13, <1>14, <1>15, <1>16
  DEF Next, Main, Environment, ThingSet

(***************************************************************************)
(* The variables of the loop, of the shared data and of the IC keep their  *)
(* types, for every set of drivers, error flags and currents.              *)
(***************************************************************************)
THEOREM TypeCorrect == Spec => []TypeOK
<1>1. Spec => []TypeInv
  BY InitTypeInv, NextTypeInv, PTL DEF Spec
<1>2. TypeInv => TypeOK
  BY DEF TypeInv
<1>3. QED BY <1>1, <1>2, PTL

LEMMA TypeInvariant == Spec => []TypeInv
BY InitTypeInv, NextTypeInv, PTL DEF Spec

--------------------------------------------------------------------------
(***************************************************************************)
(* What the state machine knew when it began a run holds until the run is  *)
(* over: a setting can only lift a block, and the flags do not change.     *)
(* The second tests are reached in no state whose own direction (in        *)
(* NORMAL, discharging) was found blocked by the first.                    *)
(***************************************************************************)
BlockedInv ==
  /\ pc # "test1" => \A d \in blocked : ~Allowed(d)
  /\ pc = "test2" =>
       state \notin blocked /\ (state = "NORMAL" => "DIS" \notin blocked)

LEMMA InitBlockedInv == Init => BlockedInv
BY DEF Init, BlockedInv

LEMMA EnablingKeepsBlocked ==
  ASSUME NEW e, Enabling(e), UNCHANGED flags, BlockedInv, UNCHANGED <<pc, state>>,
         blocked \subseteq Dir
  PROVE  BlockedInv'
<1>1. blocked' \subseteq blocked
  BY DEF Enabling
<1>2. \A d \in Dir : Error(d)' = Error(d)
  BY DEF Error, chg_error, dis_error
<1>3. \A d \in Dir : Allowed(d)' <=> ~Error(d)' /\ d \in enable'
  BY DEF Allowed, chg_allowed, dis_allowed, Error, Dir
<1>4. \A d \in blocked' : ~Allowed(d)'
  BY <1>1, <1>2, <1>3 DEF Enabling
<1>5. QED BY <1>1, <1>4 DEF BlockedInv

LEMMA SameBlocked ==
  ASSUME BlockedInv, UNCHANGED <<flags, enable, blocked>>,
         \/ UNCHANGED <<pc, state>>
         \/ pc # "test1" /\ pc' # "test2"
  PROVE  BlockedInv'
BY DEF BlockedInv, Allowed, chg_allowed, dis_allowed, chg_error, dis_error

LEMMA NextBlockedInv == TypeInv /\ BlockedInv /\ [Next]_vars => BlockedInv'
<1> SUFFICES ASSUME TypeInv, BlockedInv, [Next]_vars
             PROVE  BlockedInv'
  OBVIOUS
<1> USE DEF mainVars, dataVars, icVars, histVars, boundVars
<1>1. CASE StateMachineFirst
  <2>1. \A d \in blocked' : ~Allowed(d)'
    BY <1>1 DEF StateMachineFirst, Allowed, chg_allowed, dis_allowed,
                chg_error, dis_error
  <2>2. ASSUME pc' = "test2"
        PROVE  /\ state' \notin blocked'
               /\ state' = "NORMAL" => "DIS" \notin blocked'
    BY <1>1, <2>2 DEF StateMachineFirst, Begin, OnlyDirForbidden, DisForbidden,
                      Allowed, Dir
  <2>3. QED BY <2>1, <2>2 DEF BlockedInv
<1>2. CASE ReadData
  BY <1>2 DEF ReadData, BlockedInv
<1>3. CASE StateMachineSecond
  <2>1. pc' \in {"switch", "button"}
    BY <1>3 DEF StateMachineSecond, SecondTest, Begin
  <2>2. QED BY <1>3, <2>1, SameBlocked DEF StateMachineSecond
<1>4. CASE SetSwitch
  <2>1. UNCHANGED <<pc, state>> \/ pc' \in {"release", "button"}
    BY <1>4 DEF SetSwitch
  <2>2. QED BY <1>4, <2>1, SameBlocked DEF SetSwitch
<1>5. CASE Activate \/ ActivateRetry \/ NotPressed \/ Pressed \/ ReleaseButton
  BY <1>5, SameBlocked
  DEF Activate, ActivateRetry, NotPressed, Pressed, ReleaseButton, Begin
<1>6. CASE ThingSet
  BY <1>6, EnablingKeepsBlocked, SameBlocked
  DEF ThingSet, WriteEnable, Preset, ShutdownRequest, TypeInv, TypeOK
<1>7. CASE Reset
  BY <1>7 DEF Reset, BlockedInv
<1>8. CASE ProtectionTrip \/ WakeUp \/ UNCHANGED vars
  BY <1>8, SameBlocked DEF ProtectionTrip, WakeUp, vars
<1>9. QED
  BY <1>1, <1>2, <1>3, <1>4, <1>5, <1>6, <1>7, <1>8
  DEF Next, Main, Environment

--------------------------------------------------------------------------
(***************************************************************************)
(* Why a forbidden direction is taken back.  A run that is to end with a   *)
(* blocked direction enabled is the one from NORMAL to CHG; it ends in CHG *)
(* and the next run begins there.                                          *)
(***************************************************************************)
LateInv ==
  /\ late["DIS"] = 0
  /\ late["CHG"] \in {0, 1}
  /\ late["CHG"] = 1 => state = "CHG"
  /\ pc = "switch" =>
       /\ "DIS" \in blocked => next \notin {"DIS", "NORMAL"}
       /\ "CHG" \in blocked =>
            next # "NORMAL" /\ (next = "CHG" => late["CHG"] = 0)

LEMMA InitLateInv == Init => LateInv
BY DEF Init, LateInv, Dir

\* A plan is made for a state that is allowed, or only for want of a later poll.
LEMMA PlannedLateInv ==
  ASSUME LateInv, UNCHANGED <<state, late>>,
         "DIS" \in blocked' => next' \notin {"DIS", "NORMAL"},
         "CHG" \in blocked' =>
           next' # "NORMAL" /\ (next' = "CHG" => state # "CHG")
  PROVE  LateInv'
BY DEF LateInv

LEMMA SameLate ==
  ASSUME LateInv, UNCHANGED <<state, late>>,
         pc' = "switch" => UNCHANGED <<pc, next>> /\ blocked' \subseteq blocked
  PROVE  LateInv'
BY DEF LateInv

\* The history at the end of a run.
LEMMA EndLate ==
  ASSUME TypeOK, NEW st, EndRun(st),
         LateInv, pc' # "switch", state' = st,
         "DIS" \in blocked => st \notin {"DIS", "NORMAL"},
         "CHG" \in blocked =>
           st # "NORMAL" /\ (st = "CHG" => late["CHG"] = 0)
  PROVE  LateInv'
<1>1. late'["DIS"] = 0
  BY DEF EndRun, Enabled, Dir
<1>2. late'["CHG"] \in {0, 1} /\ (late'["CHG"] = 1 => st = "CHG")
  BY DEF EndRun, Enabled, Dir, LateInv
<1>3. QED BY <1>1, <1>2 DEF LateInv

LEMMA NextLateInv ==
  TypeInv /\ BlockedInv /\ BlockedInv' /\ LateInv /\ [Next]_vars => LateInv'
<1> SUFFICES ASSUME TypeInv, BlockedInv, BlockedInv', LateInv, [Next]_vars
             PROVE  LateInv'
  OBVIOUS
<1> USE DEF mainVars, dataVars, icVars, histVars, boundVars
<1>1. CASE StateMachineFirst
  <2>1. CASE pc' = "switch"
    <3>1. /\ "DIS" \in blocked' => next' \notin {"DIS", "NORMAL"}
          /\ "CHG" \in blocked' =>
               next' # "NORMAL" /\ (next' = "CHG" => state # "CHG")
      BY <1>1, <2>1
      DEF StateMachineFirst, Begin, DisFromOff, DisForbidden, Allowed, Dir
    <3>2. QED BY <1>1, <3>1, PlannedLateInv DEF StateMachineFirst
  <2>2. CASE pc' # "switch"
    BY <1>1, <2>2, SameLate DEF StateMachineFirst
  <2>3. QED BY <2>1, <2>2
<1>2. CASE StateMachineSecond
  <2>1. /\ state \notin blocked
        /\ state = "NORMAL" => "DIS" \notin blocked
        /\ \A d \in blocked : ~Allowed(d)
    BY <1>2 DEF StateMachineSecond, BlockedInv
  <2>2. CASE SecondTest /\ UNCHANGED late
    <3>1. /\ "DIS" \in blocked => next' \notin {"DIS", "NORMAL"}
          /\ "CHG" \in blocked =>
               next' # "NORMAL" /\ (next' = "CHG" => state # "CHG")
      BY <2>1, <2>2
      DEF SecondTest, Begin, ChgFromOff, OtherDirAllowed, DiodeConducts,
          DiodeBlocks, ChgForbidden, Allowed, Other, Dir
    <3>2. QED
      BY <1>2, <2>2, <3>1, PlannedLateInv DEF StateMachineSecond
  <2>3. CASE SecondTestFails /\ pc' = "button" /\ EndRun(state)
    <3>1. /\ "DIS" \in blocked => state \notin {"DIS", "NORMAL"}
          /\ "CHG" \in blocked => state \notin {"CHG", "NORMAL"}
      BY <2>1, <2>3 DEF SecondTestFails, ChgForbidden, Allowed
    <3>2. QED
      BY <1>2, <2>3, <3>1, EndLate DEF StateMachineSecond, TypeInv
  <2>4. QED BY <1>2, <2>2, <2>3 DEF StateMachineSecond
<1>3. CASE SetSwitch
  <2>1. CASE UNCHANGED <<pc, state, late>>
    BY <1>3, <2>1, SameLate DEF SetSwitch
  <2>2. CASE /\ state' = next
             /\ pc' = IF next = "SHUTDOWN" THEN "release" ELSE "button"
             /\ EndRun(next)
    <3>1. /\ "DIS" \in blocked => next \notin {"DIS", "NORMAL"}
          /\ "CHG" \in blocked =>
               next # "NORMAL" /\ (next = "CHG" => late["CHG"] = 0)
      BY <1>3 DEF SetSwitch, LateInv
    <3>2. pc' # "switch"
      BY <2>2
    <3>3. QED BY <2>2, <3>1, <3>2, EndLate DEF TypeInv
  <2>3. QED BY <1>3, <2>1, <2>2 DEF SetSwitch
<1>4. CASE Pressed
  BY <1>4, PlannedLateInv DEF Pressed, Begin
<1>5. CASE Activate \/ ActivateRetry \/ ReadData \/ NotPressed \/ ReleaseButton
  BY <1>5, SameLate
  DEF Activate, ActivateRetry, ReadData, NotPressed, ReleaseButton
<1>6. CASE ThingSet
  BY <1>6, SameLate
  DEF ThingSet, WriteEnable, Preset, Enabling, ShutdownRequest
<1>7. CASE Reset
  BY <1>7 DEF Reset, LateInv, Dir
<1>8. CASE ProtectionTrip \/ WakeUp \/ UNCHANGED vars
  BY <1>8, SameLate DEF ProtectionTrip, WakeUp, vars
<1>9. QED
  BY <1>1, <1>2, <1>3, <1>4, <1>5, <1>6, <1>7, <1>8
  DEF Next, Main, Environment

(***************************************************************************)
(* Discharging never outlasts the first run that finds it forbidden, and   *)
(* charging outlasts it by at most one: for any driver, any error flags,   *)
(* any interleaving with the ThingSet thread and any number of resets and  *)
(* of failed I2C transfers.                                                *)
(***************************************************************************)
THEOREM TakenBack == Spec => []ForbiddenIsTakenBack
<1>1. Init => TypeInv /\ BlockedInv /\ LateInv
  BY InitTypeInv, InitBlockedInv, InitLateInv
<1>2. TypeInv /\ BlockedInv /\ LateInv /\ [Next]_vars
        => (TypeInv /\ BlockedInv /\ LateInv)'
  BY NextTypeInv, NextBlockedInv, NextLateInv
<1>3. LateInv => ForbiddenIsTakenBack
  BY DEF LateInv, ForbiddenIsTakenBack
<1>4. QED BY <1>1, <1>2, <1>3, PTL DEF Spec

--------------------------------------------------------------------------
(***************************************************************************)
(* The safety half of the refinement: module Bms implements the initial    *)
(* states and the steps of PowerPath.  The fairness half is checked by TLC *)
(* only.                                                                   *)
(***************************************************************************)

\* A step that leaves the decision and the data alone is a stuttering step.
LEMMA Stutter ==
  ASSUME UNCHANGED <<Target, flags, enable>>
  PROVE  UNCHANGED PP!vars
BY DEF PP!vars, Allowed, chg_allowed, dis_allowed, chg_error, dis_error

\* The data of the next poll, or new settings, under the same decision.
LEMMA SenseStep ==
  ASSUME UNCHANGED Target
  PROVE  PP!Sense
BY DEF PP!Sense

\* A decision under unchanged data.
LEMMA GrantStep ==
  ASSUME UNCHANGED <<flags, enable>>, NEW d \in Dir,
         Allowed(d), d \notin Enabled(Target), Target # "SHUTDOWN",
         Target' # "SHUTDOWN",
         Enabled(Target)' = Enabled(Target) \union {d}
  PROVE  PP!Grant(d)
BY DEF PP!Grant, Allowed, chg_allowed, dis_allowed, chg_error, dis_error

LEMMA RevokeStep ==
  ASSUME UNCHANGED <<flags, enable>>, NEW d \in Dir,
         ~Allowed(d), d \in Enabled(Target), Target # "SHUTDOWN",
         Target' # "SHUTDOWN",
         Enabled(Target)' = Enabled(Target) \ {d}
  PROVE  PP!Revoke(d)
BY DEF PP!Revoke, Allowed, chg_allowed, dis_allowed, chg_error, dis_error

LEMMA InitRefines == Init => PP!Init
BY DEF Init, PP!Init, Target, Enabled, Dir

LEMMA NextRefines == TypeInv /\ [Next]_vars => [PP!Next]_(PP!vars)
<1> SUFFICES ASSUME TypeInv, [Next]_vars
             PROVE  PP!Next \/ UNCHANGED PP!vars
  BY DEF PP!vars
<1> USE DEF mainVars, dataVars, icVars, histVars, boundVars
<1>1. CASE StateMachineFirst
  <2>1. UNCHANGED <<flags, enable>> /\ Target = state
    BY <1>1 DEF StateMachineFirst, Target
  <2>2. ASSUME NEW cmds, NEW st \in State, Begin(cmds, st)
        PROVE  Target' = st
    BY <2>2 DEF Begin, Target
  <2>3. CASE DisFromOff /\ Begin(<<On("DIS")>>, "DIS")
    <3>1. Target' = "DIS" /\ state = "OFF" /\ Allowed("DIS")
      BY <2>2, <2>3 DEF State, DisFromOff, Allowed
    <3>2. PP!Grant("DIS")
      BY <2>1, <3>1, GrantStep DEF Enabled, Dir
    <3>3. QED BY <3>2 DEF PP!Next, Dir
  <2>4. CASE OnlyDirForbidden /\ Begin(<<Off(state), Off(Other(state))>>, "OFF")
    <3>1. Target' = "OFF" /\ state \in Dir /\ ~Allowed(state)
      BY <2>2, <2>4 DEF State, OnlyDirForbidden
    <3>2. PP!Revoke(state)
      BY <2>1, <3>1, RevokeStep DEF Enabled, Dir
    <3>3. QED BY <3>1, <3>2 DEF PP!Next
  <2>5. CASE DisForbidden /\ Begin(<<Off("DIS")>>, "CHG")
    <3>1. Target' = "CHG" /\ state = "NORMAL" /\ ~Allowed("DIS")
      BY <2>2, <2>5 DEF State, DisForbidden, Allowed
    <3>2. PP!Revoke("DIS")
      BY <2>1, <3>1, RevokeStep DEF Enabled, Dir
    <3>3. QED BY <3>2 DEF PP!Next, Dir
  <2>6. CASE pc' = "test2"
    BY <1>1, <2>1, <2>6, Stutter DEF StateMachineFirst, Target
  <2>7. QED BY <1>1, <2>3, <2>4, <2>5, <2>6 DEF StateMachineFirst
<1>2. CASE StateMachineSecond
  <2>1. UNCHANGED <<flags, enable>> /\ Target = state
    BY <1>2 DEF StateMachineSecond, Target
  <2>2. ASSUME NEW cmds, NEW st \in State, Begin(cmds, st)
        PROVE  Target' = st
    BY <2>2 DEF Begin, Target
  <2>3. CASE ChgFromOff /\ Begin(<<On("CHG")>>, "CHG")
    <3>1. Target' = "CHG" /\ state = "OFF" /\ Allowed("CHG")
      BY <2>2, <2>3 DEF State, ChgFromOff, Allowed
    <3>2. PP!Grant("CHG")
      BY <2>1, <3>1, GrantStep DEF Enabled, Dir
    <3>3. QED BY <3>2 DEF PP!Next, Dir
  <2>4. CASE OtherDirAllowed /\ Begin(<<On(Other(state))>>, "NORMAL")
    <3>1. Target' = "NORMAL" /\ state \in Dir /\ Allowed(Other(state))
      BY <2>2, <2>4 DEF State, OtherDirAllowed
    <3>2. PP!Grant(Other(state))
      BY <2>1, <3>1, GrantStep DEF Enabled, Dir, Other
    <3>3. QED BY <3>1, <3>2, CommandTypes DEF PP!Next
  <2>5. CASE (DiodeConducts \/ DiodeBlocks) /\ pc' = "switch" /\ next' = state
    BY <2>1, <2>5, Stutter DEF Target
  <2>6. CASE ChgForbidden /\ Begin(<<Off("CHG")>>, "DIS")
    <3>1. Target' = "DIS" /\ state = "NORMAL" /\ ~Allowed("CHG")
      BY <2>2, <2>6 DEF State, ChgForbidden, Allowed
    <3>2. PP!Revoke("CHG")
      BY <2>1, <3>1, RevokeStep DEF Enabled, Dir
    <3>3. QED BY <3>2 DEF PP!Next, Dir
  <2>7. CASE pc' = "button"
    BY <1>2, <2>1, <2>7, Stutter DEF StateMachineSecond, Target
  <2>8. QED
    BY <1>2, <2>3, <2>4, <2>5, <2>6, <2>7
    DEF StateMachineSecond, SecondTest, Begin
<1>3. CASE SetSwitch
  <2>1. Target' = Target
    BY <1>3 DEF SetSwitch, Target
  <2>2. QED BY <1>3, <2>1, Stutter DEF SetSwitch
<1>4. CASE Pressed
  <2>1. Target' = "SHUTDOWN" /\ UNCHANGED <<flags, enable>>
    BY <1>4 DEF Pressed, Begin, Target
  <2>2. PP!Shutdown
    BY <2>1
    DEF PP!Shutdown, Enabled, Dir, Allowed, chg_allowed, dis_allowed,
        chg_error, dis_error
  <2>3. QED BY <2>2 DEF PP!Next
<1>5. CASE Activate \/ ActivateRetry \/ NotPressed \/ ReleaseButton
  BY <1>5, Stutter
  DEF Activate, ActivateRetry, NotPressed, ReleaseButton, Target
<1>6. CASE ReadData
  <2>1. UNCHANGED Target
    BY <1>6 DEF ReadData, Target
  <2>2. QED BY <2>1, SenseStep DEF PP!Next
<1>7. CASE (\E d \in Dir : WriteEnable(d)) \/ Preset
  <2>1. UNCHANGED Target
    BY <1>7 DEF WriteEnable, Preset, Target
  <2>2. QED BY <2>1, SenseStep DEF PP!Next
<1>8. CASE Reset
  <2>1. Target' = "OFF"
    BY <1>8 DEF Reset, Target
  <2>2. PP!Restart
    BY <2>1 DEF PP!Restart, Enabled, Dir
  <2>3. QED BY <2>2 DEF PP!Next
<1>9. CASE ShutdownRequest \/ ProtectionTrip \/ WakeUp \/ UNCHANGED vars
  BY <1>9, Stutter
  DEF ShutdownRequest, ProtectionTrip, WakeUp, vars, Target
<1>10. QED
  BY <1>1, <1>2, <1>3, <1>4, <1>5, <1>6, <1>7, <1>8, <1>9
  DEF Next, Main, Environment, ThingSet

(***************************************************************************)
(* Every behaviour of the firmware, without any fairness, starts and steps *)
(* as PowerPath says.                                                      *)
(***************************************************************************)
THEOREM StepsRefine == Spec => PP!Init /\ [][PP!Next]_(PP!vars)
BY InitRefines, NextRefines, TypeInvariant, PTL DEF Spec
==========================================================================
