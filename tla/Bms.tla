------------------------------- MODULE Bms -------------------------------
(***************************************************************************)
(* The application core: the polling loop of the main thread (main.c), the *)
(* state machine it runs (bms_common.c), the requests that the ThingSet    *)
(* thread serves meanwhile (data_objects.c), and the MOSFETs as the BMS IC *)
(* drives them.                                                            *)
(*                                                                         *)
(* A call of the driver API of the BMS IC is one step with all outcomes    *)
(* the three drivers can produce, also when the I2C transfers fail.  The   *)
(* bms_state_machine() call is a step per test and per driver call, since  *)
(* the ThingSet thread can write the enable settings between them.         *)
(*                                                                         *)
(* Operators named F_Word, marked "mutant", are wrong variants of F: the   *)
(* properties of this project are checked to fail when one replaces F.     *)
(***************************************************************************)
EXTENDS Integers, Sequences

CONSTANTS
  Chips,       \* drivers the firmware is built with, one per behaviour
  Faults,      \* error flags that the IC can report
  Currents,    \* measured currents, unit 0.1 A, charging positive
  MaxIoErrors, \* bound: I2C errors of an IC that is on
  MaxResets    \* bound: resets of the MCU

Chip == {"bq769x0", "bq769x2", "isl94202"}

ASSUME ChipsAssumption == Chips \subseteq Chip
ASSUME CurrentsAssumption == Currents \subseteq Int
ASSUME BoundsAssumption == MaxIoErrors \in Nat /\ MaxResets \in Nat

(***************************************************************************)
(* The switches are named after the direction of current they control, and *)
(* so are the two states in which only that direction is enabled.          *)
(***************************************************************************)
Dir == {"CHG", "DIS"}
State == {"OFF", "CHG", "DIS", "NORMAL", "SHUTDOWN"}

\* The directions that a state enables, as documented in bms.h.
Enabled(st) == IF st = "NORMAL" THEN Dir ELSE {st} \intersect Dir

Other(d) == IF d = "CHG" THEN "DIS" ELSE "CHG"

BothErrors ==
  {"OPEN_WIRE", "INT_OVERTEMP", "CELL_FAILURE"}

ChgErrors ==
  BothErrors \union
    {"CELL_OVERVOLTAGE", "CHG_OVERCURRENT", "CHG_UNDERTEMP", "CHG_OVERTEMP",
     "CHG_OFF"}

DisErrors ==
  BothErrors \union
    {"CELL_UNDERVOLTAGE", "SHORT_CIRCUIT", "DIS_OVERCURRENT",
     "DIS_UNDERTEMP", "DIS_OVERTEMP", "DIS_OFF"}

ErrorFlag == ChgErrors \union DisErrors \union {"FET_OVERTEMP"}

ASSUME FaultsAssumption == Faults \subseteq ErrorFlag

VARIABLES
  chip,       \* the driver of this build
  \* the main thread
  pc,         \* its position in the polling loop
  state,      \* bms.state
  plan,       \* set_switches() calls left to make, in order
  next,       \* the state to assign when they are made
  \* data shared with the ThingSet thread
  flags,      \* bms.ic_data.error_flags
  current,    \* bms.ic_data.current
  enable,     \* directions with bms.chg_enable, bms.dis_enable set
  \* the IC
  icOn,       \* it is not in shutdown or ship mode
  fet,        \* switches that its registers turn on
  \* history
  blocked,    \* not allowed since the state machine run began
  late,       \* consecutive runs that ended with a blocked direction enabled
  missed,     \* switches whose last command may not have taken effect
  ioErrors,
  resets

mainVars  == <<pc, state, plan, next>>
dataVars  == <<flags, current, enable>>
icVars    == <<icOn, fet>>
histVars  == <<blocked, late>>
boundVars == <<ioErrors, resets>>
vars == <<chip, mainVars, dataVars, icVars, histVars, missed, boundVars>>

Pc == {"activate", "read", "test1", "test2", "switch", "button", "release"}

On(s)  == [switch |-> s, on |-> TRUE]
Off(s) == [switch |-> s, on |-> FALSE]
Command == [switch : Dir, on : BOOLEAN]

TypeOK ==
  /\ chip \in Chips
  /\ pc \in Pc
  /\ state \in State
  /\ plan \in Seq(Command)
  /\ next \in State
  /\ flags \in SUBSET Faults
  /\ current \in Currents \union {0}
  /\ enable \in SUBSET Dir
  /\ icOn \in BOOLEAN
  /\ fet \in SUBSET Dir
  /\ blocked \in SUBSET Dir
  /\ late \in [Dir -> Nat]
  /\ missed \in SUBSET Dir
  /\ ioErrors \in 0 .. MaxIoErrors
  /\ resets \in 0 .. MaxResets

--------------------------------------------------------------------------
(***************************************************************************)
(* Start-up.  The MCU starts with state OFF and both directions enabled by *)
(* the user setting; the IC may have kept the switches from before.        *)
(***************************************************************************)
Init ==
  /\ chip \in Chips
  /\ pc = "activate"
  /\ state = "OFF"
  /\ plan = <<>>
  /\ next = "OFF"
  /\ flags = {}
  /\ current = 0
  /\ enable = Dir
  /\ blocked = {}
  /\ late = [d \in Dir |-> 0]
  /\ missed = {}
  /\ icOn = TRUE
  /\ fet = {}
  /\ ioErrors = 0
  /\ resets = 0

\* A driver call whose transfers all succeed, or with at least one error.
Responds == icOn /\ UNCHANGED ioErrors
Fails ==
  \/ ~icOn /\ UNCHANGED ioErrors
  \/ icOn /\ ioErrors < MaxIoErrors /\ ioErrors' = ioErrors + 1

(***************************************************************************)
(* bms_ic_set_mode(ACTIVE).  The bq769x0 and the bq769x2 turn both         *)
(* switches off, the isl94202 keeps its CTRL1 register.  An error is only  *)
(* logged, except that the bq769x2 driver repeats the first transfer until *)
(* it succeeds.                                                            *)
(***************************************************************************)
ActivatedFets_Kept == fet                              \* mutant
ActivatedFets == IF chip = "isl94202" THEN fet ELSE {}

Activate ==
  /\ pc = "activate"
  /\ pc' = "read"
  /\ \/ /\ Responds
        /\ fet' = ActivatedFets
        /\ missed' = {}
     \/ /\ Fails
        /\ icOn \/ chip # "bq769x2"
        /\ fet' \in {fet, ActivatedFets}
        /\ missed' = fet'
  /\ UNCHANGED <<chip, state, plan, next, dataVars, icOn, histVars, resets>>

ActivateRetry ==
  /\ pc = "activate"
  /\ chip = "bq769x2"
  /\ Fails
  /\ UNCHANGED <<chip, mainVars, dataVars, icVars, histVars, missed, resets>>

(***************************************************************************)
(* bms_ic_read_data(ALL).  Its result is only logged.  A part that could   *)
(* not be read keeps its last value or, with the isl94202, takes an        *)
(* uninitialised one: every outcome is among those of a successful call.   *)
(***************************************************************************)
ReadData ==
  /\ pc = "read"
  /\ pc' = "test1"
  /\ flags' \in SUBSET Faults
  /\ current' \in Currents \union {current}
  /\ UNCHANGED <<chip, state, plan, next, enable, icVars, histVars, missed,
                 boundVars>>

--------------------------------------------------------------------------
(***************************************************************************)
(* bms_state_machine().                                                    *)
(***************************************************************************)
chg_error_Unmasked == flags \intersect ChgErrors # {}  \* mutant
chg_error == flags \intersect (ChgErrors \ {"CHG_OFF"}) # {}
dis_error == flags \intersect (DisErrors \ {"DIS_OFF"}) # {}

Error(d) == IF d = "CHG" THEN chg_error ELSE dis_error

chg_allowed == ~chg_error /\ "CHG" \in enable
dis_allowed == ~dis_error /\ "DIS" \in enable

Allowed(d) == IF d = "CHG" THEN chg_allowed ELSE dis_allowed

\* Current in the direction of the state, through the body diode of the
\* switch of the other direction: ideal diode control has a hysteresis.
SoftDiode == chip # "bq769x2"
Forward(st) == IF st = "CHG" THEN current ELSE -current
DiodeOn_Reversed(st) == Forward(st) < -5               \* mutant
DiodeOn(st)  == Forward(st) > 5
DiodeOff_Late(st) == Forward(st) < -5                  \* mutant
DiodeOff(st) == Forward(st) < 1

\* What the first test of each state asks...
DisFromOff == state = "OFF" /\ dis_allowed
OnlyDirForbidden_Dis == state = "DIS" /\ ~dis_allowed    \* mutant
OnlyDirForbidden == state \in Dir /\ ~Allowed(state)
DisForbidden_Swapped == state = "NORMAL" /\ ~chg_allowed \* mutant
DisForbidden == state = "NORMAL" /\ ~dis_allowed

\* ...and what is asked when the answer was no.
ChgFromOff_Shutdown == state \in {"OFF", "SHUTDOWN"} /\ chg_allowed \* mutant
ChgFromOff == state = "OFF" /\ chg_allowed
OtherDirAllowed == state \in Dir /\ Allowed(Other(state))
DiodeConducts ==
  state \in Dir /\ ~Allowed(Other(state)) /\ SoftDiode /\ DiodeOn(state)
DiodeBlocks ==
  state \in Dir /\ ~Allowed(Other(state)) /\ SoftDiode /\ DiodeOff(state)
ChgForbidden == state = "NORMAL" /\ ~chg_allowed

Begin(cmds, st) ==
  /\ plan' = cmds
  /\ next' = st
  /\ pc' = "switch"

\* History: what a run of the state machine that ends in state st leaves on.
EndRun(st) ==
  late' = [d \in Dir |->
             IF d \in blocked /\ d \in Enabled(st) THEN late[d] + 1 ELSE 0]

StateMachineFirst ==
  /\ pc = "test1"
  /\ blocked' = {d \in Dir : ~Allowed(d)}
  /\ \/ DisFromOff /\ Begin(<<On("DIS")>>, "DIS")
     \/ OnlyDirForbidden /\ Begin(<<Off(state), Off(Other(state))>>, "OFF")
     \/ DisForbidden /\ Begin(<<Off("DIS")>>, "CHG")
     \/ /\ ~(DisFromOff \/ OnlyDirForbidden \/ DisForbidden)
        /\ pc' = "test2"
        /\ UNCHANGED <<plan, next>>
  /\ UNCHANGED <<chip, state, dataVars, icVars, late, missed, boundVars>>

SecondTest ==
  \/ ChgFromOff /\ Begin(<<On("CHG")>>, "CHG")
  \/ OtherDirAllowed /\ Begin(<<On(Other(state))>>, "NORMAL")
  \/ DiodeConducts /\ Begin(<<On(Other(state))>>, state)
  \/ DiodeBlocks /\ Begin(<<Off(Other(state))>>, state)
  \/ ChgForbidden /\ Begin(<<Off("CHG")>>, "DIS")

SecondTestFails ==
  ~(ChgFromOff \/ OtherDirAllowed \/ DiodeConducts \/ DiodeBlocks
      \/ ChgForbidden)

StateMachineSecond ==
  /\ pc = "test2"
  /\ \/ SecondTest /\ UNCHANGED late
     \/ /\ SecondTestFails
        /\ pc' = "button"
        /\ EndRun(state)
        /\ UNCHANGED <<plan, next>>
  /\ UNCHANGED <<chip, state, dataVars, icVars, blocked, missed, boundVars>>

(***************************************************************************)
(* bms_ic_set_switches().  The state machine and bms_shutdown() ignore the *)
(* result.  After a transfer error the switches are as before or as        *)
(* commanded; the isl94202 driver modifies and writes back a register it   *)
(* may have failed to read, so that the other switch can take any value.   *)
(***************************************************************************)
Commanded(cmd) ==
  IF cmd.on THEN fet \union {cmd.switch} ELSE fet \ {cmd.switch}

FailedSwitching(cmd) ==
  {f \in SUBSET Dir :
     \/ f = fet
     \/ icOn /\ f = Commanded(cmd)
     \/ icOn /\ chip = "isl94202" /\ (cmd.switch \in f <=> cmd.on)}

SetSwitch ==
  /\ pc = "switch"
  /\ LET cmd == Head(plan) IN
       \/ /\ Responds
          /\ fet' = Commanded(cmd)
          /\ missed' = missed \ {cmd.switch}
       \/ /\ Fails
          /\ fet' \in FailedSwitching(cmd)
          /\ missed' = missed \union {cmd.switch}
  /\ plan' = Tail(plan)
  /\ \/ /\ Len(plan) > 1
        /\ UNCHANGED <<pc, state, late>>
     \/ /\ Len(plan) = 1
        /\ state' = next
        /\ pc' = IF next = "SHUTDOWN" THEN "release" ELSE "button"
        /\ EndRun(next)
  /\ UNCHANGED <<chip, next, dataVars, icOn, blocked, resets>>

(***************************************************************************)
(* The rest of the loop: the button and bms_shutdown(), and ten seconds    *)
(* later bms_ic_set_mode(OFF).  The loop goes on whatever came of it.      *)
(***************************************************************************)
NotPressed ==
  /\ pc = "button"
  /\ pc' = "read"
  /\ UNCHANGED <<chip, state, plan, next, dataVars, icVars, histVars, missed,
                 boundVars>>

ShutdownCommands_Wrong == <<Off("DIS"), Off("PCHG")>>  \* mutant
ShutdownCommands == <<Off("DIS"), Off("CHG")>>

Pressed ==
  /\ pc = "button"
  /\ Begin(ShutdownCommands, "SHUTDOWN")
  /\ UNCHANGED <<chip, state, dataVars, icVars, histVars, missed, boundVars>>

SetModeOff ==
  \/ Responds /\ icOn' = FALSE /\ fet' = {}
  \/ Fails /\ UNCHANGED icVars

ReleaseButton ==
  /\ pc = "release"
  /\ pc' = "read"
  /\ SetModeOff
  /\ UNCHANGED <<chip, state, plan, next, dataVars, histVars, missed, resets>>

Main ==
  \/ Activate \/ ActivateRetry
  \/ ReadData
  \/ StateMachineFirst \/ StateMachineSecond
  \/ SetSwitch
  \/ NotPressed \/ Pressed \/ ReleaseButton

--------------------------------------------------------------------------
(***************************************************************************)
(* The ThingSet thread.                                                    *)
(***************************************************************************)
Enabling(e) ==
  /\ enable' = e
  /\ blocked' = {d \in blocked : Error(d) \/ d \notin e}

\* wChgEnable and wDisEnable
WriteEnable(d) ==
  /\ \/ Enabling(enable \union {d})
     \/ Enabling(enable \ {d})
  /\ UNCHANGED <<chip, mainVars, flags, current, icVars, late, missed, boundVars>>

\* bat_preset() calls bms_init_config(), which also resets the enable settings.
Preset ==
  /\ Enabling(Dir)
  /\ UNCHANGED <<chip, mainVars, flags, current, icVars, late, missed, boundVars>>

\* shutdown()
ShutdownRequest ==
  /\ SetModeOff
  /\ UNCHANGED <<chip, mainVars, dataVars, histVars, missed, resets>>

\* reset_device(), and any other reset of the MCU: RAM is lost, the IC is not.
Reset ==
  /\ resets < MaxResets
  /\ resets' = resets + 1
  /\ pc' = "activate"
  /\ state' = "OFF"
  /\ plan' = <<>>
  /\ next' = "OFF"
  /\ flags' = {}
  /\ current' = 0
  /\ enable' = Dir
  /\ blocked' = {}
  /\ late' = [d \in Dir |-> 0]
  /\ missed' = {}
  /\ UNCHANGED <<chip, icVars, ioErrors>>

ThingSet == (\E d \in Dir : WriteEnable(d)) \/ Preset \/ ShutdownRequest

(***************************************************************************)
(* The IC on its own: a protection opens a switch, and a charger or the    *)
(* button wakes the IC up again, with its switches off.                    *)
(***************************************************************************)
ProtectionTrip ==
  /\ \E s \in fet : fet' = fet \ {s}
  /\ UNCHANGED <<chip, mainVars, dataVars, icOn, histVars, missed, boundVars>>

WakeUp ==
  /\ ~icOn
  /\ icOn' = TRUE
  /\ fet' = {}
  /\ UNCHANGED <<chip, mainVars, dataVars, histVars, missed, boundVars>>

Environment == ThingSet \/ Reset \/ ProtectionTrip \/ WakeUp

Next == Main \/ Environment

(***************************************************************************)
(* The main loop never blocks for good: it sleeps, polls and repeats.      *)
(***************************************************************************)
Spec == Init /\ [][Next]_vars
FairSpec == Spec /\ WF_vars(Main)

--------------------------------------------------------------------------
(***************************************************************************)
(* Properties.                                                             *)
(***************************************************************************)

(***************************************************************************)
(* Between two runs of the state machine, a switch is on only if the state *)
(* calls for it, or ideal diode control may have closed it, or the last    *)
(* command to open it may have been lost (set_switches() results are       *)
(* ignored).  It holds from the first poll on for the ICs whose activation *)
(* opens the switches, whatever the state they were in before the reset.   *)
(***************************************************************************)
DrivenIn(st) == IF st \in Dir /\ SoftDiode THEN Dir ELSE Enabled(st)

SwitchesFollowState ==
  chip # "isl94202" /\ pc \notin {"activate", "switch"} =>
    fet \subseteq DrivenIn(state) \union missed

(***************************************************************************)
(* A direction that errors or the user forbid all through consecutive runs *)
(* of the state machine is taken back in the first of them, with one       *)
(* exception: when both are forbidden in NORMAL, charging lasts one poll   *)
(* longer, because bms_state_machine() goes through CHG to OFF.            *)
(***************************************************************************)
ForbiddenIsTakenBack == late["DIS"] = 0 /\ late["CHG"] <= 1

(***************************************************************************)
(* The firmware closes no switch in a direction that has been forbidden    *)
(* since the run of the state machine began, but for ideal diode control   *)
(* with a current above 0.5 A the other way; enable settings that change   *)
(* between the test and the driver call make no difference.                *)
(***************************************************************************)
ClosesNoForbiddenSwitch ==
  [][\A s \in fet' \ fet :
       \/ s \notin blocked
       \/ state = "CHG" /\ s = "DIS" /\ SoftDiode /\ current > 5
       \/ state = "DIS" /\ s = "CHG" /\ SoftDiode /\ current < -5
       \/ chip = "isl94202" /\ ioErrors' > ioErrors]_vars

(***************************************************************************)
(* After bms_shutdown() the firmware keeps the switches open until the MCU *)
(* restarts, also when switching the IC off failed and the loop goes on    *)
(* polling, and also when the IC wakes up meanwhile.                       *)
(***************************************************************************)
ShutdownIsFinal ==
  [][state = "SHUTDOWN" =>
       \/ state' = "SHUTDOWN" /\ (fet' \subseteq fet \/ ioErrors' > ioErrors)
       \/ resets' > resets]_vars

(***************************************************************************)
(* The state machine grants and takes back directions as PowerPath says;   *)
(* a decision takes effect in the step that makes it.                      *)
(***************************************************************************)
Target == IF pc = "switch" THEN next ELSE state

PP == INSTANCE PowerPath WITH
        permit  <- {d \in Dir : Allowed(d)},
        enabled <- Enabled(Target),
        down    <- Target = "SHUTDOWN"

ImplementsPowerPath == PP!Spec

(***************************************************************************)
(* With no errors left but the IC's complaint that a switch is off that    *)
(* should be on, and both directions enabled by the user, the battery gets *)
(* to NORMAL: the complaint must not keep the switch from being closed.    *)
(***************************************************************************)
Healthy == flags \subseteq {"CHG_OFF", "DIS_OFF"} /\ enable = Dir

HealthyReachesNormal ==
  <>[]Healthy =>
    <>[](state \in {"NORMAL", "SHUTDOWN"} \/ pc = "activate")

(***************************************************************************)
(* With software ideal diode control, a switch that stayed closed because  *)
(* the command to open it was lost on the way out of NORMAL is opened by a *)
(* later poll, once the current is not in its direction.                   *)
(***************************************************************************)
StuckSwitchIsRetried ==
  \A d \in Dir :
    <>[](/\ SoftDiode
         /\ state = d
         /\ ~Allowed(Other(d))
         /\ Forward(d) < 1)
    => <>[](Other(d) \notin fet)
==========================================================================
