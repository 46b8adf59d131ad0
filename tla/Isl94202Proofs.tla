--------------------------- MODULE Isl94202Proofs ---------------------------
(***************************************************************************)
(* Proofs about the isl94202 driver: for any number of failing transfers,  *)
(* calls, trips and resets.                                                *)
(***************************************************************************)
EXTENDS Isl94202, TLAPS

USE Isl94202Assumption

LEMMA CountersStay ==
  ASSUME TypeOK, NEW ok \in BOOLEAN,
         (Event \/ UNCHANGED events), Succeeds(ok) \/ UNCHANGED faults
  PROVE  events' \in 0 .. MaxEvents /\ faults' \in 0 .. MaxFaults
  BY DEF TypeOK, Event, Succeeds

\* What a call leaves in the register is made of switches.
LEMMA WithType ==
  ASSUME NEW reg \in SUBSET Dirs, NEW switches \in SUBSET Dirs,
         NEW enabled \in BOOLEAN
  PROVE  With(reg, switches, enabled) \in SUBSET Dirs
  BY DEF With

(***************************************************************************)
(* The variables keep their types.                                         *)
(***************************************************************************)
LEMMA InitType == Init => TypeOK
<1> SUFFICES ASSUME Init PROVE TypeOK
    OBVIOUS
<1>1. main \in MainStates /\ api \in ApiStates /\ handler \in HandlerStates
    BY DEF Init, Idle, MainStates, ApiStates, HandlerStates
<1>2. events \in 0 .. MaxEvents /\ faults \in 0 .. MaxFaults
    BY DEF Init
<1>3. /\ ctrl1 \subseteq Dirs /\ fet_state \subseteq Dirs /\ asked \subseteq Dirs
      /\ error_flags \subseteq Dirs /\ read \subseteq SUBSET Dirs
    BY DEF Init
<1> QED
    BY <1>1, <1>2, <1>3 DEF Init, TypeOK

LEMMA NextType == TypeOK /\ [Next]_vars => TypeOK'
<1> SUFFICES ASSUME TypeOK, [Next]_vars PROVE TypeOK'
    OBVIOUS
<1>1. CASE SetSwitches
  <2>1. PICK switches \in SUBSET Dirs \ {{}}, enabled \in BOOLEAN, ok \in BOOLEAN :
          \E reg \in IF ok THEN {ctrl1} ELSE SUBSET Dirs :
            /\ Succeeds(ok)
            /\ main' = [pc |-> "write", switches |-> switches,
                        enabled |-> enabled,
                        reg |-> With(reg, switches, enabled), known |-> ok]
            /\ fet_state' = With(fet_state, switches, enabled)
            /\ asked' = With(asked, switches, enabled)
      BY <1>1 DEF SetSwitches
  <2>2. PICK reg \in SUBSET Dirs :
          main' = [pc |-> "write", switches |-> switches, enabled |-> enabled,
                   reg |-> With(reg, switches, enabled), known |-> ok]
      BY <2>1 DEF TypeOK
  <2>3. main' \in MainStates
      BY <2>2, WithType DEF MainStates
  <2>4. fet_state' \subseteq Dirs /\ asked' \subseteq Dirs
      BY <2>1, WithType DEF TypeOK
  <2>5. events' \in 0 .. MaxEvents /\ faults' \in 0 .. MaxFaults
      BY <1>1, <2>1, CountersStay DEF SetSwitches
  <2> QED
      BY <1>1, <2>3, <2>4, <2>5 DEF SetSwitches, TypeOK, ic, work
<1>2. CASE WriteSwitches
  <2>1. PICK ok \in BOOLEAN :
          Succeeds(ok) /\ ctrl1' = IF ok THEN main.reg ELSE ctrl1
      BY <1>2 DEF WriteSwitches
  <2>2. ctrl1' \subseteq Dirs
      BY <1>2, <2>1 DEF WriteSwitches, TypeOK, MainStates
  <2>3. events' \in 0 .. MaxEvents /\ faults' \in 0 .. MaxFaults
      BY <1>2, <2>1, CountersStay DEF WriteSwitches
  <2> QED
      BY <1>2, <2>2, <2>3 DEF WriteSwitches, TypeOK, MainStates, Idle, work
<1>3. CASE ReadErrorFlags
  <2>1. PICK ok \in BOOLEAN : \E on \in IF ok THEN {ctrl1} ELSE SUBSET Dirs :
          /\ Succeeds(ok)
          /\ error_flags' = Off(on)
          /\ read' = IF ok THEN {asked \ ctrl1} ELSE {}
      BY <1>3 DEF ReadErrorFlags
  <2>2. error_flags' \subseteq Dirs /\ read' \subseteq SUBSET Dirs
      BY <2>1 DEF Off, TypeOK
  <2>3. events' \in 0 .. MaxEvents /\ faults' \in 0 .. MaxFaults
      BY <1>3, <2>1, CountersStay DEF ReadErrorFlags
  <2> QED
      BY <1>3, <2>2, <2>3 DEF ReadErrorFlags, TypeOK, ic, work
<1>4. CASE PowerDown
  <2>1. PICK ok \in BOOLEAN :
          /\ Succeeds(ok)
          /\ powered' = (powered /\ ~ ok)
          /\ ctrl1' = IF ok THEN {} ELSE ctrl1
      BY <1>4 DEF PowerDown
  <2>2. events' \in 0 .. MaxEvents /\ faults' \in 0 .. MaxFaults
      BY <1>4, <2>1, CountersStay DEF PowerDown
  <2>3. ctrl1' \subseteq Dirs /\ powered' \in BOOLEAN
      BY <2>1 DEF TypeOK
  <2> QED
      BY <1>4, <2>2, <2>3 DEF PowerDown, TypeOK, work
<1>5. CASE Boot
  BY <1>5 DEF Boot, Configure, TypeOK, MainStates, ApiStates, ic, work, bounds
<1>6. CASE Reconfigure
  <2>1. events' \in 0 .. MaxEvents
      BY <1>6 DEF Reconfigure, Event, TypeOK
  <2> QED
      BY <1>6, <2>1 DEF Reconfigure, Configure, TypeOK, ApiStates, ic, work
<1>7. CASE WriteSetup
  <2>1. PICK ok \in BOOLEAN :
          /\ Succeeds(ok)
          /\ setup1' = IF ok THEN api.auto ELSE setup1
          /\ api' = [pc |-> IF api.auto THEN "done" ELSE "cancel",
                     auto |-> api.auto, ok |-> ok]
      BY <1>7 DEF WriteSetup
  <2>2. api.auto \in BOOLEAN
      BY <1>7 DEF WriteSetup, TypeOK, ApiStates
  <2>3. api' \in ApiStates /\ setup1' \in BOOLEAN
      BY <2>1, <2>2 DEF TypeOK, ApiStates
  <2>4. events' \in 0 .. MaxEvents /\ faults' \in 0 .. MaxFaults
      BY <1>7, <2>1, CountersStay DEF WriteSetup
  <2> QED
      BY <1>7, <2>2, <2>3, <2>4 DEF WriteSetup, TypeOK
<1>8. CASE CancelReturns
  BY <1>8 DEF CancelReturns, TypeOK, ApiStates, ic, work, bounds
<1>9. CASE ConfigureReturns
  <2>1. api' \in ApiStates /\ main' \in MainStates
      BY <1>9 DEF ConfigureReturns, TypeOK, ApiStates, MainStates, Idle
  <2> QED
      BY <1>9, <2>1 DEF ConfigureReturns, TypeOK, ic, work, bounds
<1>10. CASE HandlerStart
  <2>1. PICK ok \in BOOLEAN : \E stat3 \in IF ok THEN {mode} ELSE Modes :
          Succeeds(ok) /\ handler' = [pc |-> "write", stat3 |-> stat3]
      BY <1>10 DEF HandlerStart
  <2>2. handler' \in HandlerStates
      BY <2>1 DEF TypeOK, HandlerStates
  <2>3. events' \in 0 .. MaxEvents /\ faults' \in 0 .. MaxFaults
      BY <1>10, <2>1, CountersStay DEF HandlerStart
  <2> QED
      BY <1>10, <2>2, <2>3 DEF HandlerStart, TypeOK, ic
<1>11. CASE WriteOnTime
  <2>1. PICK ok \in BOOLEAN :
          /\ Succeeds(ok)
          /\ cbont' = IF ok /\ handler.stat3 # "SLEEP"
                      THEN OnTime(handler.stat3) ELSE cbont
      BY <1>11 DEF WriteOnTime
  <2>2. handler.stat3 \in Modes
      BY <1>11 DEF WriteOnTime, TypeOK, HandlerStates
  <2>3. cbont' \in {0, 16, 240, 496}
      BY <2>1, <2>2 DEF TypeOK, OnTime, Modes
  <2>4. events' \in 0 .. MaxEvents /\ faults' \in 0 .. MaxFaults
      BY <1>11, <2>1, CountersStay DEF WriteOnTime
  <2> QED
      BY <1>11, <2>3, <2>4 DEF WriteOnTime, TypeOK, HandlerStates
<1>12. CASE HandlerEnd
  BY <1>12 DEF HandlerEnd, TypeOK, HandlerStates, Idle, ic, bounds
<1>13. CASE Trip
  <2>1. events' \in 0 .. MaxEvents
      BY <1>13 DEF Trip, Event, TypeOK
  <2>2. main' \in MainStates
      BY <1>13 DEF Trip, TypeOK, MainStates
  <2>3. ctrl1' \subseteq Dirs
      BY <1>13 DEF Trip, TypeOK
  <2> QED
      BY <1>13, <2>1, <2>2, <2>3 DEF Trip, TypeOK, work
<1>14. CASE ScanModeChanges
  BY <1>14 DEF ScanModeChanges, Event, TypeOK, work
<1>15. CASE Reset
  <2>1. events' \in 0 .. MaxEvents
      BY <1>15 DEF Reset, Event, TypeOK
  <2> QED
      BY <1>15, <2>1
      DEF Reset, TypeOK, MainStates, ApiStates, HandlerStates, Idle, ic
<1>16. CASE UNCHANGED vars
  BY <1>16 DEF TypeOK, vars, ic, work, bounds
<1> QED
  BY <1>1, <1>2, <1>3, <1>4, <1>5, <1>6, <1>7, <1>8, <1>9, <1>10, <1>11, <1>12,
     <1>13, <1>14, <1>15, <1>16 DEF Next, Call, Handler

\* The variables of the driver and of the IC keep their types.
THEOREM DriverTypes == Spec => []TypeOK
<1> QED
  BY InitType, NextType, PTL DEF Spec

(***************************************************************************)
(* The driver's belief about the switches is what was asked for, so that   *)
(* the off switches it reports are those that were to be on.               *)
(***************************************************************************)
BeliefInv == fet_state = asked /\ OffIsReported

LEMMA BeliefNext == BeliefInv /\ [Next]_vars => BeliefInv'
<1> SUFFICES ASSUME BeliefInv, [Next]_vars PROVE BeliefInv'
    OBVIOUS
<1>1. CASE SetSwitches
  BY <1>1 DEF SetSwitches, BeliefInv, OffIsReported
<1>2. CASE ReadErrorFlags
  BY <1>2 DEF ReadErrorFlags, BeliefInv, OffIsReported, Off
<1>3. CASE Reset
  BY <1>3 DEF Reset, BeliefInv, OffIsReported
<1>4. ASSUME UNCHANGED <<fet_state, asked, read, error_flags>> PROVE BeliefInv'
  BY <1>4 DEF BeliefInv, OffIsReported
<1> QED
  BY <1>1, <1>2, <1>3, <1>4
  DEF Next, Call, Handler, WriteSwitches, PowerDown, Boot, Reconfigure, WriteSetup,
      CancelReturns, ConfigureReturns, HandlerStart, WriteOnTime, HandlerEnd, Trip,
      ScanModeChanges, vars

\* A complete reading reports exactly the directions that were asked to conduct
\* and do not (read_error_flags() and set_switches() of the isl94202 driver).
THEOREM OffReported == Spec => []OffIsReported
<1>1. Init => BeliefInv
    BY DEF Init, BeliefInv, OffIsReported
<1>2. BeliefInv => OffIsReported
    BY DEF BeliefInv
<1> QED
    BY <1>1, <1>2, BeliefNext, PTL DEF Spec

(***************************************************************************)
(* While set_switches() is between its read and its write, the byte it is  *)
(* going to write closes only what it was asked to close, unless the read  *)
(* has failed or a protection has tripped since.                           *)
(***************************************************************************)
Asked == IF main.enabled THEN main.switches ELSE {}
RegInv == main.pc = "write" /\ main.known => main.reg \subseteq ctrl1 \union Asked

LEMMA RegNext == TypeOK /\ RegInv /\ [Next]_vars => RegInv'
<1> SUFFICES ASSUME TypeOK, RegInv, [Next]_vars PROVE RegInv'
    OBVIOUS
<1>1. CASE SetSwitches
  <2>1. PICK switches \in SUBSET Dirs, enabled \in BOOLEAN, ok \in BOOLEAN :
          \E reg \in IF ok THEN {ctrl1} ELSE SUBSET Dirs :
            main' = [pc |-> "write", switches |-> switches, enabled |-> enabled,
                     reg |-> With(reg, switches, enabled), known |-> ok]
      BY <1>1 DEF SetSwitches
  <2>2. CASE ok
    <3>1. main'.reg = With(ctrl1, main'.switches, main'.enabled)
        BY <2>1, <2>2
    <3>2. ctrl1' = ctrl1
        BY <1>1 DEF SetSwitches, ic
    <3> QED
        BY <3>1, <3>2 DEF RegInv, Asked, With
  <2>3. CASE ~ ok
      BY <2>1, <2>3 DEF RegInv
  <2> QED
      BY <2>2, <2>3
<1>2. CASE WriteSwitches \/ PowerDown \/ Boot \/ Reset
  <2>1. CASE WriteSwitches
      BY <2>1 DEF WriteSwitches, RegInv, Idle
  <2>2. CASE PowerDown
      BY <2>2 DEF PowerDown, RegInv
  <2>3. CASE Boot
      BY <2>3 DEF Boot, RegInv
  <2>4. CASE Reset
      BY <2>4 DEF Reset, RegInv
  <2> QED
      BY <1>2, <2>1, <2>2, <2>3, <2>4
<1>3. CASE Trip
  BY <1>3 DEF Trip, RegInv, TypeOK, MainStates
<1>4. CASE ConfigureReturns
  <2>1. ctrl1' = ctrl1 /\ (main'.pc # "write" \/ main' = main)
      BY <1>4 DEF ConfigureReturns, Idle, ic
  <2> QED
      BY <2>1 DEF RegInv, Asked
<1>5. ASSUME UNCHANGED <<main, ctrl1>> PROVE RegInv'
  BY <1>5 DEF RegInv, Asked
<1> QED
  BY <1>1, <1>2, <1>3, <1>4, <1>5
  DEF Next, Call, Handler, ReadErrorFlags, Reconfigure, WriteSetup, CancelReturns,
      HandlerStart, WriteOnTime, HandlerEnd, ScanModeChanges, vars, ic

\* The step of the property: only the write of set_switches() closes switches.
LEMMA ClosingStep ==
  TypeOK /\ RegInv /\ [Next]_vars =>
    \A d \in ctrl1' \ ctrl1 :
      \/ main.enabled /\ d \in main.switches
      \/ ~ main.known
<1> SUFFICES ASSUME TypeOK, RegInv, [Next]_vars, NEW d \in ctrl1' \ ctrl1
             PROVE  (main.enabled /\ d \in main.switches) \/ ~ main.known
    OBVIOUS
<1>1. CASE WriteSwitches
  BY <1>1 DEF WriteSwitches, RegInv, Asked
<1>2. CASE PowerDown \/ Trip
  BY <1>2 DEF PowerDown, Trip
<1>3. CASE UNCHANGED ctrl1
  BY <1>3
<1> QED
  BY <1>1, <1>2, <1>3
  DEF Next, Call, Handler, SetSwitches, ReadErrorFlags, Boot, Reconfigure,
      WriteSetup, CancelReturns, ConfigureReturns, HandlerStart, WriteOnTime,
      HandlerEnd, ScanModeChanges, Reset, vars, ic

\* The call for one switch does not close the other (isl94202 set_switches()).
THEOREM OnlyAskedCloses == Spec => ClosesOnlyAsked
<1>1. Init => TypeOK /\ RegInv
    BY InitType DEF Init, RegInv
<1>2. TypeOK /\ RegInv /\ [Next]_vars => (TypeOK /\ RegInv)'
    BY NextType, RegNext
<1>3. TypeOK /\ RegInv /\ [Next]_vars =>
        [\A d \in ctrl1' \ ctrl1 :
           \/ main.enabled /\ d \in main.switches
           \/ ~ main.known]_vars
    BY ClosingStep
<1> QED
    BY <1>1, <1>2, <1>3, PTL DEF Spec, ClosesOnlyAsked

(***************************************************************************)
(* From the cancelling of the work on, nothing schedules it again before   *)
(* the call returns, and SETUP1 is what the call has written.              *)
(***************************************************************************)
NoWork == ~ pending /\ handler.pc = "idle"
CancelInv ==
  /\ api.pc # "idle" => balancing = "unknown"
  /\ api.pc = "cancel" => ~ api.auto /\ ~ pending
  /\ api.pc = "done" /\ ~ api.auto => NoWork
  /\ api.pc \in {"cancel", "done"} /\ ~ api.auto /\ api.ok => ~ setup1
  /\ BalancingIsOff

LEMMA CancelNext == TypeOK /\ CancelInv /\ [Next]_vars => CancelInv'
<1> SUFFICES ASSUME TypeOK, CancelInv, [Next]_vars PROVE CancelInv'
    OBVIOUS
<1>1. CASE Boot \/ Reconfigure
  BY <1>1 DEF Boot, Reconfigure, Configure, CancelInv, BalancingIsOff
<1>2. CASE WriteSetup
  <2>1. PICK ok \in BOOLEAN :
          /\ setup1' = IF ok THEN api.auto ELSE setup1
          /\ api' = [pc |-> IF api.auto THEN "done" ELSE "cancel",
                     auto |-> api.auto, ok |-> ok]
      BY <1>2 DEF WriteSetup
  <2>2. api.auto \in BOOLEAN
      BY <1>2 DEF WriteSetup, TypeOK, ApiStates
  <2>3. balancing' = "unknown" /\ pending' = api.auto
      BY <1>2 DEF WriteSetup, CancelInv
  <2>4. CASE api.auto
      BY <2>1, <2>3, <2>4 DEF CancelInv, BalancingIsOff
  <2>5. CASE ~ api.auto
      BY <2>1, <2>3, <2>5 DEF CancelInv, BalancingIsOff
  <2> QED
      BY <2>4, <2>5
<1>3. CASE CancelReturns
  BY <1>3 DEF CancelReturns, Cancelled, CancelInv, BalancingIsOff, NoWork, TypeOK,
              ApiStates, work, ic
<1>4. CASE ConfigureReturns
  BY <1>4 DEF ConfigureReturns, CancelInv, BalancingIsOff, NoWork, Idle, work, ic
<1>5. CASE HandlerStart
  BY <1>5 DEF HandlerStart, CancelInv, BalancingIsOff, NoWork
<1>6. CASE WriteOnTime
  BY <1>6 DEF WriteOnTime, CancelInv, BalancingIsOff, NoWork
<1>7. CASE HandlerEnd
  BY <1>7 DEF HandlerEnd, CancelInv, BalancingIsOff, NoWork, Idle, ic
<1>8. CASE Reset
  BY <1>8 DEF Reset, CancelInv, BalancingIsOff, Idle
<1>9. ASSUME UNCHANGED <<api, work, setup1, balancing>> PROVE CancelInv'
  BY <1>9 DEF CancelInv, BalancingIsOff, NoWork, work
<1> QED
  BY <1>1, <1>2, <1>3, <1>4, <1>5, <1>6, <1>7, <1>8, <1>9
  DEF Next, Call, Handler, SetSwitches, WriteSwitches, ReadErrorFlags, PowerDown,
      Trip, ScanModeChanges, vars, ic

\* After a successful configure() without automatic balancing neither the IC
\* nor the work balances (isl94202_configure_balancing()).
THEOREM StaysOff == Spec => []BalancingIsOff
<1>1. Init => TypeOK /\ CancelInv
    BY InitType DEF Init, CancelInv, BalancingIsOff, Idle
<1>2. TypeOK /\ CancelInv /\ [Next]_vars => (TypeOK /\ CancelInv)'
    BY NextType, CancelNext
<1>3. CancelInv => BalancingIsOff
    BY DEF CancelInv
<1> QED
    BY <1>1, <1>2, <1>3, PTL DEF Spec
=============================================================================
