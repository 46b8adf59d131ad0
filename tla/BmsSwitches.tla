--------------------------- MODULE BmsSwitches ---------------------------
(***************************************************************************)
(* Proofs about the commands that the state machine and bms_shutdown()     *)
(* give to the switches.                                                   *)
(***************************************************************************)
EXTENDS BmsProofs

Commands(pl) == {pl[i] : i \in 1 .. Len(pl)}

LEMMA CommandsOfPlan ==
  /\ \A c : Commands(<<c>>) = {c}
  /\ \A c, d : Commands(<<c, d>>) = {c, d}
<1>1. ASSUME NEW c PROVE Commands(<<c>>) = {c}
  BY DEF Commands
<1>2. ASSUME NEW c, NEW d PROVE Commands(<<c, d>>) = {c, d}
  <2>1. Len(<<c, d>>) = 2 /\ 1 .. 2 = {1, 2}
    OBVIOUS
  <2>2. QED BY <2>1 DEF Commands
<1>3. QED BY <1>1, <1>2

LEMMA CommandsOfTail ==
  ASSUME NEW S, NEW s \in Seq(S), s # <<>>
  PROVE  /\ Head(s) \in Commands(s)
         /\ Commands(s) = {Head(s)} \union Commands(Tail(s))
         /\ Len(s) = 1 => Commands(Tail(s)) = {}
<1>1. Len(s) \in Nat \ {0} /\ Head(s) = s[1]
  BY EmptySeq
<1>2. Len(Tail(s)) = Len(s) - 1
  BY HeadTailProperties
<1>3. \A i \in 1 .. Len(s) - 1 : Tail(s)[i] = s[i + 1]
  BY <1>2, HeadTailProperties
<1>4. Head(s) \in Commands(s)
  BY <1>1 DEF Commands
<1>5. ASSUME NEW c \in Commands(s)
      PROVE  c = Head(s) \/ c \in Commands(Tail(s))
  <2>1. PICK i \in 1 .. Len(s) : c = s[i]
    BY <1>5 DEF Commands
  <2>2. CASE i # 1
    <3>1. i - 1 \in 1 .. Len(s) - 1
      BY <1>1, <2>2
    <3>2. Tail(s)[i - 1] = c
      BY <1>3, <2>1, <3>1
    <3>3. QED BY <1>2, <3>1, <3>2 DEF Commands
  <2>3. QED BY <1>1, <2>1, <2>2
<1>6. ASSUME NEW c \in Commands(Tail(s))
      PROVE  c \in Commands(s)
  <2>1. PICK i \in 1 .. Len(s) - 1 : c = s[i + 1]
    BY <1>2, <1>3, <1>6 DEF Commands
  <2>2. i + 1 \in 1 .. Len(s)
    BY <1>1
  <2>3. QED BY <2>1, <2>2 DEF Commands
<1>7. ASSUME Len(s) = 1
      PROVE  Commands(Tail(s)) = {}
  <2>1. 1 .. Len(Tail(s)) = {}
    BY <1>2, <1>7
  <2>2. QED BY <2>1 DEF Commands
<1>8. QED BY <1>4, <1>5, <1>6, <1>7

(***************************************************************************)
(* Why the commands of a plan are the right ones.  A command to close a    *)
(* switch was decided for a direction that was not blocked, or for ideal   *)
(* diode control; none is planned on the way into SHUTDOWN, a state that   *)
(* is not left.                                                            *)
(***************************************************************************)
ByDiode(s) ==
  \/ state = "CHG" /\ s = "DIS" /\ SoftDiode /\ current > 5
  \/ state = "DIS" /\ s = "CHG" /\ SoftDiode /\ current < -5

CommandInv(c) ==
  c.on => /\ c.switch \notin blocked \/ ByDiode(c.switch)
          /\ c.switch \in DrivenIn(next)
          /\ next # "SHUTDOWN"

PlanInv ==
  pc = "switch" =>
    /\ \A c \in Commands(plan) : CommandInv(c)
    /\ state = "SHUTDOWN" => next = "SHUTDOWN"

LEMMA InitPlanInv == Init => PlanInv
BY DEF Init, PlanInv

LEMMA SamePlanInv ==
  ASSUME PlanInv, UNCHANGED <<chip, state, current>>,
         pc' = "switch" =>
           /\ pc = "switch"
           /\ next' = next
           /\ blocked' \subseteq blocked
           /\ Commands(plan') \subseteq Commands(plan)
  PROVE  PlanInv'
BY DEF PlanInv, CommandInv, ByDiode, SoftDiode, DrivenIn, Enabled

LEMMA NextPlanInv == TypeInv /\ PlanInv /\ BlockedInv /\ [Next]_vars => PlanInv'
<1> SUFFICES ASSUME TypeInv, PlanInv, BlockedInv, [Next]_vars
             PROVE  PlanInv'
  OBVIOUS
<1> USE DEF mainVars, dataVars, icVars, histVars, boundVars
<1>1. CASE StateMachineFirst
  <2>1. CASE DisFromOff /\ Begin(<<On("DIS")>>, "DIS")
    <3>1. Commands(plan') = {On("DIS")} /\ next' = "DIS"
      BY <2>1, CommandsOfPlan DEF Begin
    <3>2. "DIS" \notin blocked' /\ state' = "OFF"
      BY <1>1, <2>1 DEF StateMachineFirst, DisFromOff, Allowed
    <3>3. QED
      BY <3>1, <3>2 DEF PlanInv, CommandInv, On, DrivenIn, Enabled, Dir
  <2>2. CASE OnlyDirForbidden /\ Begin(<<Off(state), Off(Other(state))>>, "OFF")
    <3>1. Commands(plan') = {Off(state), Off(Other(state))} /\ state' \in Dir
      BY <1>1, <2>2, CommandsOfPlan
      DEF Begin, StateMachineFirst, OnlyDirForbidden
    <3>2. QED BY <3>1 DEF PlanInv, CommandInv, Off, Dir
  <2>3. CASE DisForbidden /\ Begin(<<Off("DIS")>>, "CHG")
    <3>1. Commands(plan') = {Off("DIS")} /\ state' = "NORMAL"
      BY <1>1, <2>3, CommandsOfPlan DEF Begin, StateMachineFirst, DisForbidden
    <3>2. QED BY <3>1 DEF PlanInv, CommandInv, Off
  <2>4. CASE pc' = "test2"
    BY <2>4 DEF PlanInv
  <2>5. QED BY <1>1, <2>1, <2>2, <2>3, <2>4 DEF StateMachineFirst
<1>2. CASE StateMachineSecond
  <2>1. UNCHANGED <<chip, state, current, blocked>>
    BY <1>2 DEF StateMachineSecond
  <2>2. \A d \in Dir : Allowed(d) => d \notin blocked
    BY <1>2 DEF StateMachineSecond, BlockedInv
  <2>3. CASE ChgFromOff /\ Begin(<<On("CHG")>>, "CHG")
    <3>1. Commands(plan') = {On("CHG")} /\ next' = "CHG"
      BY <2>3, CommandsOfPlan DEF Begin
    <3>2. "CHG" \notin blocked' /\ state' = "OFF"
      BY <2>1, <2>2, <2>3 DEF ChgFromOff, Allowed, Dir
    <3>3. QED
      BY <3>1, <3>2 DEF PlanInv, CommandInv, On, DrivenIn, Enabled, Dir
  <2>4. CASE OtherDirAllowed /\ Begin(<<On(Other(state))>>, "NORMAL")
    <3>1. Commands(plan') = {On(Other(state))} /\ next' = "NORMAL"
      BY <2>4, CommandsOfPlan DEF Begin
    <3>2. state \in Dir /\ Other(state) \in Dir /\ Other(state) \notin blocked'
      BY <2>1, <2>2, <2>4, CommandTypes DEF OtherDirAllowed
    <3>3. QED
      BY <2>1, <3>1, <3>2 DEF PlanInv, CommandInv, On, DrivenIn, Enabled, Dir
  <2>5. CASE DiodeConducts /\ Begin(<<On(Other(state))>>, state)
    <3>1. Commands(plan') = {On(Other(state))} /\ next' = state
      BY <2>5, CommandsOfPlan DEF Begin
    <3>2. state \in Dir /\ SoftDiode /\ Forward(state) > 5
      BY <2>5 DEF DiodeConducts, DiodeOn
    <3>3. current \in Int
      BY CurrentsAssumption DEF TypeInv, TypeOK
    <3>4. ByDiode(Other(state))'
      BY <2>1, <3>2, <3>3 DEF ByDiode, Forward, Other, Dir, SoftDiode
    <3>5. QED
      BY <2>1, <3>1, <3>2, <3>4, CommandTypes
      DEF PlanInv, CommandInv, On, DrivenIn, SoftDiode, Dir
  <2>6. CASE DiodeBlocks /\ Begin(<<Off(Other(state))>>, state)
    <3>1. Commands(plan') = {Off(Other(state))} /\ next' = state
      BY <2>6, CommandsOfPlan DEF Begin
    <3>2. QED BY <2>1, <3>1 DEF PlanInv, CommandInv, Off
  <2>7. CASE ChgForbidden /\ Begin(<<Off("CHG")>>, "DIS")
    <3>1. Commands(plan') = {Off("CHG")} /\ state' = "NORMAL"
      BY <2>1, <2>7, CommandsOfPlan DEF Begin, ChgForbidden
    <3>2. QED BY <3>1 DEF PlanInv, CommandInv, Off
  <2>8. CASE pc' = "button"
    BY <2>8 DEF PlanInv
  <2>9. QED
    BY <1>2, <2>3, <2>4, <2>5, <2>6, <2>7, <2>8 DEF StateMachineSecond, SecondTest
<1>3. CASE SetSwitch
  <2>1. plan \in Seq(Command) /\ plan # <<>>
    BY <1>3 DEF SetSwitch, TypeInv, TypeOK, PlanPending
  <2>2. Commands(plan') \subseteq Commands(plan)
    BY <1>3, <2>1, CommandsOfTail DEF SetSwitch
  <2>3. CASE UNCHANGED <<pc, state, late>>
    BY <1>3, <2>2, <2>3, SamePlanInv DEF SetSwitch
  <2>4. CASE pc' \in {"release", "button"}
    BY <2>4 DEF PlanInv
  <2>5. QED BY <1>3, <2>3, <2>4 DEF SetSwitch
<1>4. CASE Pressed
  <2>1. Commands(plan') = {Off("DIS"), Off("CHG")} /\ next' = "SHUTDOWN"
    BY <1>4, CommandsOfPlan DEF Pressed, Begin, ShutdownCommands
  <2>2. QED BY <2>1 DEF PlanInv, CommandInv, Off
<1>5. CASE Activate \/ ActivateRetry \/ ReadData \/ NotPressed \/ ReleaseButton
  BY <1>5
  DEF Activate, ActivateRetry, ReadData, NotPressed, ReleaseButton, PlanInv
<1>6. CASE ThingSet
  BY <1>6, SamePlanInv
  DEF ThingSet, WriteEnable, Preset, Enabling, ShutdownRequest
<1>7. CASE Reset
  BY <1>7 DEF Reset, PlanInv
<1>8. CASE ProtectionTrip \/ WakeUp \/ UNCHANGED vars
  BY <1>8, SamePlanInv DEF ProtectionTrip, WakeUp, vars
<1>9. QED
  BY <1>1, <1>2, <1>3, <1>4, <1>5, <1>6, <1>7, <1>8
  DEF Next, Main, Environment

--------------------------------------------------------------------------
Inv == TypeInv /\ BlockedInv /\ PlanInv

LEMMA Invariant == Spec => []Inv
<1>1. Init => Inv
  BY InitTypeInv, InitBlockedInv, InitPlanInv DEF Inv
<1>2. Inv /\ [Next]_vars => Inv'
  BY NextTypeInv, NextBlockedInv, NextPlanInv DEF Inv
<1>3. QED BY <1>1, <1>2, PTL DEF Spec

\* What a driver call makes of the switches.
LEMMA CallOutcome ==
  ASSUME TypeInv, SetSwitch
  PROVE  /\ Head(plan) \in Commands(plan)
         /\ \/ fet' \in {fet, Commanded(Head(plan))}
            \/ chip = "isl94202" /\ ioErrors' > ioErrors
<1>1. plan \in Seq(Command) /\ plan # <<>>
  BY DEF SetSwitch, TypeInv, TypeOK, PlanPending
<1>2. Head(plan) \in Commands(plan)
  BY <1>1, CommandsOfTail
<1>3. CASE fet' = Commanded(Head(plan))
  BY <1>2, <1>3
<1>4. CASE Fails /\ fet' \in FailedSwitching(Head(plan))
  BY <1>2, <1>4, BoundsAssumption
  DEF Fails, FailedSwitching, TypeInv, TypeOK
<1>5. QED BY <1>3, <1>4 DEF SetSwitch

\* Every other step only opens switches.
LEMMA OthersOpen ==
  ASSUME TypeInv, [Next]_vars, ~SetSwitch
  PROVE  fet' \subseteq fet
<1> USE DEF mainVars, dataVars, icVars, histVars, boundVars
<1>1. CASE Activate
  BY <1>1 DEF Activate, ActivatedFets
<1>2. CASE ReleaseButton \/ ShutdownRequest
  BY <1>2 DEF ReleaseButton, ShutdownRequest, SetModeOff
<1>3. CASE WakeUp \/ ProtectionTrip
  BY <1>3 DEF WakeUp, ProtectionTrip
<1>4. CASE UNCHANGED fet
  BY <1>4
<1>5. QED
  BY <1>1, <1>2, <1>3, <1>4
  DEF Next, Main, Environment, ThingSet, vars, ActivateRetry, ReadData,
      StateMachineFirst, StateMachineSecond, NotPressed, Pressed, WriteEnable,
      Preset, Reset

(***************************************************************************)
(* No switch is closed in a forbidden direction but by ideal diode control *)
(* (or by a failed read-modify-write of the isl94202 driver).              *)
(***************************************************************************)
THEOREM NoForbiddenClosing == Spec => ClosesNoForbiddenSwitch
<1>1. ASSUME Inv, [Next]_vars, NEW s \in fet' \ fet
      PROVE  \/ s \notin blocked
             \/ ByDiode(s)
             \/ chip = "isl94202" /\ ioErrors' > ioErrors
  <2>1. SetSwitch
    BY <1>1, OthersOpen DEF Inv
  <2>2. CASE fet' \in {fet, Commanded(Head(plan))}
    <3>1. Head(plan).on /\ s = Head(plan).switch
      BY <1>1, <2>2 DEF Commanded
    <3>2. CommandInv(Head(plan))
      BY <1>1, <2>1, CallOutcome DEF Inv, PlanInv, SetSwitch
    <3>3. QED BY <3>1, <3>2 DEF CommandInv
  <2>3. QED BY <1>1, <2>1, <2>2, CallOutcome DEF Inv
<1>2. Inv /\ [Next]_vars =>
        [\A s \in fet' \ fet :
           \/ s \notin blocked
           \/ state = "CHG" /\ s = "DIS" /\ SoftDiode /\ current > 5
           \/ state = "DIS" /\ s = "CHG" /\ SoftDiode /\ current < -5
           \/ chip = "isl94202" /\ ioErrors' > ioErrors]_vars
  BY <1>1 DEF ByDiode
<1>3. QED BY <1>2, Invariant, PTL DEF Spec, ClosesNoForbiddenSwitch

(***************************************************************************)
(* SHUTDOWN is left by a reset only, and no switch is closed in it, except *)
(* by a failed read-modify-write.                                          *)
(***************************************************************************)
THEOREM ShutdownStays == Spec => ShutdownIsFinal
<1>1. ASSUME Inv, [Next]_vars, state = "SHUTDOWN"
      PROVE  state' = "SHUTDOWN" \/ resets' > resets
  <2>1. CASE SetSwitch
    BY <1>1, <2>1 DEF SetSwitch, Inv, PlanInv
  <2>2. CASE Reset
    BY <2>2, <1>1, BoundsAssumption DEF Reset, Inv, TypeInv, TypeOK
  <2>3. CASE UNCHANGED state
    BY <1>1, <2>3
  <2>4. QED
    BY <1>1, <2>1, <2>2, <2>3
    DEF Next, Main, Environment, ThingSet, vars, mainVars, Activate,
        ActivateRetry, ReadData, StateMachineFirst, StateMachineSecond,
        NotPressed, Pressed, ReleaseButton, WriteEnable, Preset,
        ShutdownRequest, ProtectionTrip, WakeUp
<1>2. ASSUME Inv, [Next]_vars, state = "SHUTDOWN"
      PROVE  fet' \subseteq fet \/ ioErrors' > ioErrors
  <2>1. CASE SetSwitch
    <3>1. CommandInv(Head(plan)) /\ next = "SHUTDOWN"
      BY <1>2, <2>1, CallOutcome DEF Inv, PlanInv, SetSwitch
    <3>2. Commanded(Head(plan)) \subseteq fet
      BY <3>1 DEF CommandInv, Commanded
    <3>3. QED BY <1>2, <2>1, <3>2, CallOutcome DEF Inv
  <2>2. QED BY <1>2, <2>1, OthersOpen DEF Inv
<1>3. Inv /\ [Next]_vars =>
        [state = "SHUTDOWN" =>
           \/ state' = "SHUTDOWN" /\ (fet' \subseteq fet \/ ioErrors' > ioErrors)
           \/ resets' > resets]_vars
  BY <1>1, <1>2
<1>4. QED BY <1>3, Invariant, PTL DEF Spec, ShutdownIsFinal

--------------------------------------------------------------------------
(***************************************************************************)
(* Why the switches follow the state.  While a plan is carried out, what   *)
(* the coming state does not drive is in the plan, to be opened.           *)
(***************************************************************************)
Opening(pl) == {c.switch : c \in {b \in Commands(pl) : ~b.on}}

SwitchInv ==
  chip # "isl94202" /\ pc # "activate" =>
    fet \subseteq DrivenIn(Target) \union missed
                    \union (IF pc = "switch" THEN Opening(plan) ELSE {})

LEMMA InitSwitchInv == Init => SwitchInv
BY DEF Init, SwitchInv

LEMMA SameSwitchInv ==
  ASSUME SwitchInv, UNCHANGED <<chip, state, missed>>, fet' \subseteq fet,
         pc # "activate" \/ pc' = "activate",
         \/ UNCHANGED <<pc, plan, next>>
         \/ pc # "switch" /\ pc' # "switch"
  PROVE  SwitchInv'
BY DEF SwitchInv, Target, DrivenIn, SoftDiode, Enabled

\* The plan opens what the coming state does not drive.
LEMMA PlannedSwitchInv ==
  ASSUME SwitchInv, UNCHANGED <<chip, state, missed, fet>>,
         pc \notin {"activate", "switch"}, pc' = "switch",
         DrivenIn(state) \subseteq DrivenIn(next') \union Opening(plan')
  PROVE  SwitchInv'
<1>1. SUFFICES ASSUME chip # "isl94202"
               PROVE  fet \subseteq DrivenIn(next)' \union missed
                                    \union Opening(plan')
  BY DEF SwitchInv, Target, Opening
<1>2. fet \subseteq DrivenIn(state) \union missed
  BY <1>1 DEF SwitchInv, Target
<1>3. DrivenIn(next)' = DrivenIn(next')
  BY DEF DrivenIn, SoftDiode, Enabled
<1>4. QED BY <1>2, <1>3

LEMMA OpeningOf ==
  ASSUME NEW c, NEW d
  PROVE  /\ Opening(<<Off(c)>>) = {c}
         /\ Opening(<<Off(c), Off(d)>>) = {c, d}
<1>1. /\ Commands(<<Off(c)>>) = {Off(c)}
      /\ Commands(<<Off(c), Off(d)>>) = {Off(c), Off(d)}
  BY CommandsOfPlan
<1>2. ~Off(c).on /\ Off(c).switch = c /\ ~Off(d).on /\ Off(d).switch = d
  BY DEF Off
<1>3. QED BY <1>1, <1>2 DEF Opening

LEMMA DriverStep ==
  ASSUME TypeInv, SwitchInv, SetSwitch, chip # "isl94202"
  PROVE  /\ fet' \subseteq DrivenIn(next) \union missed'
                             \union {Head(plan).switch} \union Opening(Tail(plan))
         /\ Head(plan).switch \in fet' =>
              Head(plan).on \/ Head(plan).switch \in missed'
<1> DEFINE c == Head(plan)
<1>1. plan \in Seq(Command) /\ plan # <<>> /\ pc = "switch"
  BY DEF SetSwitch, TypeInv, TypeOK, PlanPending
<1>2. Opening(plan) \subseteq {c.switch} \union Opening(Tail(plan))
  BY <1>1, CommandsOfTail DEF Opening
<1>3. fet \subseteq DrivenIn(next) \union missed \union {c.switch}
                    \union Opening(Tail(plan))
  BY <1>1, <1>2 DEF SwitchInv, Target
<1>4. missed \subseteq missed' \union {c.switch}
  BY DEF SetSwitch
<1>5. fet' \subseteq fet \union {c.switch}
  BY CallOutcome DEF SetSwitch, Commanded, FailedSwitching
<1>6. c.switch \in fet' => c.on \/ c.switch \in missed'
  BY DEF SetSwitch, Commanded
<1>7. QED BY <1>3, <1>4, <1>5, <1>6

LEMMA NextSwitchInv ==
  TypeInv /\ PlanInv /\ SwitchInv /\ [Next]_vars => SwitchInv'
<1> SUFFICES ASSUME TypeInv, PlanInv, SwitchInv, [Next]_vars
             PROVE  SwitchInv'
  OBVIOUS
<1> USE DEF mainVars, dataVars, icVars, histVars, boundVars
<1>1. CASE Activate
  <2>1. SUFFICES ASSUME chip # "isl94202" PROVE fet' \subseteq missed'
    BY <1>1 DEF Activate, SwitchInv
  <2>2. QED BY <1>1, <2>1 DEF Activate, ActivatedFets
<1>2. CASE StateMachineFirst
  <2> USE DEF StateMachineFirst, Begin
  <2>1. CASE DisFromOff /\ Begin(<<On("DIS")>>, "DIS")
    <3>1. DrivenIn(state) = {}
      BY <2>1 DEF DisFromOff, DrivenIn, Enabled, Dir
    <3>2. QED BY <1>2, <2>1, <3>1, PlannedSwitchInv
  <2>2. CASE OnlyDirForbidden /\ Begin(<<Off(state), Off(Other(state))>>, "OFF")
    <3>1. state \in Dir /\ Opening(plan') = {state, Other(state)}
      BY <2>2, OpeningOf DEF OnlyDirForbidden
    <3>2. DrivenIn(state) \subseteq Opening(plan')
      BY <3>1 DEF DrivenIn, Enabled, Other, Dir
    <3>3. QED BY <1>2, <2>2, <3>2, PlannedSwitchInv
  <2>3. CASE DisForbidden /\ Begin(<<Off("DIS")>>, "CHG")
    <3>1. Opening(plan') = {"DIS"} /\ next' = "CHG"
      BY <2>3, OpeningOf
    <3>2. DrivenIn(state) \subseteq DrivenIn(next') \union Opening(plan')
      BY <2>3, <3>1 DEF DisForbidden, DrivenIn, Enabled, Dir
    <3>3. QED BY <1>2, <2>3, <3>2, PlannedSwitchInv
  <2>4. CASE pc' = "test2"
    BY <1>2, <2>4, SameSwitchInv
  <2>5. QED BY <1>2, <2>1, <2>2, <2>3, <2>4
<1>3. CASE StateMachineSecond
  <2> USE DEF StateMachineSecond, Begin
  <2>1. CASE ChgFromOff /\ Begin(<<On("CHG")>>, "CHG")
    <3>1. DrivenIn(state) = {}
      BY <2>1 DEF ChgFromOff, DrivenIn, Enabled, Dir
    <3>2. QED BY <1>3, <2>1, <3>1, PlannedSwitchInv
  <2>2. CASE OtherDirAllowed /\ Begin(<<On(Other(state))>>, "NORMAL")
    <3>1. DrivenIn(state) \subseteq DrivenIn(next')
      BY <2>2 DEF OtherDirAllowed, DrivenIn, Enabled, Dir
    <3>2. QED BY <1>3, <2>2, <3>1, PlannedSwitchInv
  <2>3. CASE (DiodeConducts \/ DiodeBlocks) /\ pc' = "switch" /\ next' = state
    BY <1>3, <2>3, PlannedSwitchInv
  <2>4. CASE ChgForbidden /\ Begin(<<Off("CHG")>>, "DIS")
    <3>1. Opening(plan') = {"CHG"} /\ next' = "DIS"
      BY <2>4, OpeningOf
    <3>2. DrivenIn(state) \subseteq DrivenIn(next') \union Opening(plan')
      BY <2>4, <3>1 DEF ChgForbidden, DrivenIn, Enabled, Dir
    <3>3. QED BY <1>3, <2>4, <3>2, PlannedSwitchInv
  <2>5. CASE pc' = "button"
    BY <1>3, <2>5, SameSwitchInv
  <2>6. QED BY <1>3, <2>1, <2>2, <2>3, <2>4, <2>5 DEF SecondTest
<1>4. CASE SetSwitch
  <2>1. SUFFICES ASSUME chip # "isl94202"
                 PROVE  fet' \subseteq DrivenIn(Target)' \union missed'
                          \union (IF pc' = "switch" THEN Opening(plan') ELSE {})
    BY <1>4 DEF SetSwitch, SwitchInv, Opening
  <2>2. DrivenIn(Target)' = DrivenIn(next) /\ plan' = Tail(plan)
    BY <1>4 DEF SetSwitch, Target, DrivenIn, SoftDiode, Enabled
  <2>3. Head(plan).on => Head(plan).switch \in DrivenIn(next)
    BY <1>4, CallOutcome DEF PlanInv, CommandInv, SetSwitch
  <2>4. fet' \subseteq DrivenIn(next) \union missed' \union Opening(Tail(plan))
    BY <1>4, <2>1, <2>3, DriverStep
  <2>5. CASE pc' = "switch"
    BY <2>2, <2>4, <2>5
  <2>6. CASE Len(plan) = 1
    <3>1. plan \in Seq(Command) /\ plan # <<>>
      BY <1>4 DEF SetSwitch, TypeInv, TypeOK, PlanPending
    <3>2. Opening(Tail(plan)) = {}
      BY <2>6, <3>1, CommandsOfTail DEF Opening
    <3>3. QED BY <2>2, <2>4, <3>2
  <2>7. QED BY <1>4, <2>5, <2>6 DEF SetSwitch
<1>5. CASE Pressed
  <2>1. Opening(plan') = {"DIS", "CHG"}
    BY <1>5, OpeningOf DEF Pressed, Begin, ShutdownCommands
  <2>2. DrivenIn(state) \subseteq Opening(plan')
    BY <2>1 DEF DrivenIn, Enabled, Dir
  <2>3. QED BY <1>5, <2>2, PlannedSwitchInv DEF Pressed, Begin
<1>6. SetModeOff => fet' \subseteq fet
  BY DEF SetModeOff
<1>7. CASE ReleaseButton \/ NotPressed \/ ReadData \/ ActivateRetry
  BY <1>6, <1>7, SameSwitchInv
  DEF ReleaseButton, NotPressed, ReadData, ActivateRetry
<1>8. CASE ThingSet
  BY <1>6, <1>8, SameSwitchInv
  DEF ThingSet, WriteEnable, Preset, ShutdownRequest
<1>9. CASE Reset
  BY <1>9 DEF Reset, SwitchInv
<1>10. CASE ProtectionTrip \/ WakeUp \/ UNCHANGED vars
  BY <1>10, SameSwitchInv DEF ProtectionTrip, WakeUp, vars
<1>11. QED
  BY <1>1, <1>2, <1>3, <1>4, <1>5, <1>7, <1>8, <1>9, <1>10
  DEF Next, Main, Environment

(***************************************************************************)
(* With the drivers whose activation opens the switches, what is on        *)
(* between two runs is what the state drives, but for lost commands.       *)
(***************************************************************************)
THEOREM SwitchesFollow == Spec => []SwitchesFollowState
<1>1. Init => SwitchInv
  BY InitSwitchInv
<1>2. Inv /\ SwitchInv /\ [Next]_vars => SwitchInv'
  BY NextSwitchInv DEF Inv
<1>3. SwitchInv => SwitchesFollowState
  BY DEF SwitchInv, SwitchesFollowState, Target
<1>4. QED BY <1>1, <1>2, <1>3, Invariant, PTL DEF Spec
==========================================================================
