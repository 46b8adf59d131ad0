------------------------------ MODULE Isl94202 ------------------------------
(***************************************************************************)
(* The isl94202 driver while the BMS runs: switches, error flags, operat-  *)
(* ing modes, and the work item that fits the timing of the balancing to   *)
(* the scans of the IC.                                                    *)
(*                                                                         *)
(* The main thread sets switches and reads; configure() is called at boot  *)
(* and later by one other thread; the work runs in the system work queue.  *)
(* The IC opens switches and changes its scan mode on its own.  Transfers  *)
(* may fail; the buffer of a failed read is not initialised.               *)
(***************************************************************************)
EXTENDS Integers, FiniteSets

CONSTANTS
  MaxEvents,  \* bound of what the IC, the callers and resets do
  MaxFaults   \* bound of failing transfers

ASSUME Isl94202Assumption == {MaxEvents, MaxFaults} \subseteq Nat

Dirs == {"CHG", "DIS"}
Modes == {"NORMAL", "IDLE", "DOZE", "SLEEP"}

VARIABLES
  ctrl1,      \* CFET and DFET in the IC
  mode,       \* scan mode of the IC
  powered,    \* FALSE after the power-down command
  cbont,      \* on-time of the balancing in ms, 0: as in the EEPROM
  setup1,     \* CBDC and CB_EOC: the IC balances
  fet_state,  \* dev_data->fet_state
  main,       \* main thread
  api,        \* configure_balancing()
  pending,    \* the work is scheduled
  handler,    \* the work
  error_flags,
  asked,      \* switches last asked to be on since the MCU started
  read,       \* {what the last complete reading of CTRL1 has found}
  balancing,  \* the last successful configure() asked for, or "unknown"
  events, faults

ic == <<ctrl1, mode, powered, cbont, setup1>>
work == <<pending, handler>>
bounds == <<events, faults>>
vars == <<ic, fet_state, main, api, work, error_flags, asked, read, balancing,
          bounds>>

Idle == [pc |-> "idle"]

Init ==
  /\ ctrl1 \in SUBSET Dirs
  /\ mode \in Modes
  /\ powered = TRUE
  /\ cbont = 0 /\ setup1 \in BOOLEAN
  /\ fet_state = {}
  /\ main = [pc |-> "boot"]
  /\ api = Idle
  /\ pending = FALSE /\ handler = Idle
  /\ error_flags = {} /\ asked = {} /\ read = {}
  /\ balancing = "unknown"
  /\ events = 0 /\ faults = 0

Event == events < MaxEvents /\ events' = events + 1

\* A transfer fails always while the IC is off.
Succeeds(ok) ==
  IF ok THEN powered /\ UNCHANGED faults
  ELSE IF powered THEN faults < MaxFaults /\ faults' = faults + 1
  ELSE UNCHANGED faults

--------------------------------------------------------------------------
(***************************************************************************)
(* set_switches(): CTRL1 is read, changed and written back.                *)
(***************************************************************************)
With(reg, switches, enabled) == IF enabled THEN reg \union switches
                                ELSE reg \ switches

SetSwitches_FromBelief ==  \* mutant
  /\ main.pc = "idle"
  /\ Event
  /\ \E switches \in SUBSET Dirs \ {{}}, enabled \in BOOLEAN :
       /\ main' = [pc |-> "write", switches |-> switches, enabled |-> enabled,
                   reg |-> With(fet_state, switches, enabled), known |-> TRUE]
       /\ fet_state' = With(fet_state, switches, enabled)
       /\ asked' = With(asked, switches, enabled)
  /\ UNCHANGED <<ic, api, work, error_flags, read, balancing, faults>>

SetSwitches ==
  /\ main.pc = "idle"
  /\ Event
  /\ \E switches \in SUBSET Dirs \ {{}}, enabled \in BOOLEAN :
     \E ok \in BOOLEAN : \E reg \in IF ok THEN {ctrl1} ELSE SUBSET Dirs :
       /\ Succeeds(ok)
       /\ main' = [pc |-> "write", switches |-> switches, enabled |-> enabled,
                   reg |-> With(reg, switches, enabled),
                   known |-> ok]
       /\ fet_state' = With(fet_state, switches, enabled)
       /\ asked' = With(asked, switches, enabled)
  /\ UNCHANGED <<ic, api, work, error_flags, read, balancing>>

WriteSwitches ==
  /\ main.pc = "write"
  /\ \E ok \in BOOLEAN :
       /\ Succeeds(ok)
       /\ ctrl1' = IF ok THEN main.reg ELSE ctrl1
  /\ main' = Idle
  /\ UNCHANGED <<mode, powered, cbont, setup1, fet_state, api, work, error_flags,
                 asked, read, balancing, events>>

(***************************************************************************)
(* read_error_flags(): no failure is reported.                             *)
(***************************************************************************)
Off_Any(on) == Dirs \ on  \* mutant
Off(on) == fet_state \ on

ReadErrorFlags ==
  /\ main.pc = "idle"
  /\ \E ok \in BOOLEAN : \E on \in IF ok THEN {ctrl1} ELSE SUBSET Dirs :
       /\ Succeeds(ok)
       /\ error_flags' = Off(on)
       /\ read' = IF ok THEN {asked \ ctrl1} ELSE {}
  /\ UNCHANGED <<ic, fet_state, main, api, work, asked, balancing, events>>

\* set_mode(OFF) returns 0 in any case.
PowerDown ==
  /\ main.pc = "idle"
  /\ Event
  /\ \E ok \in BOOLEAN :
       /\ Succeeds(ok)
       /\ powered' = (powered /\ ~ ok)
       /\ ctrl1' = IF ok THEN {} ELSE ctrl1
  /\ UNCHANGED <<mode, cbont, setup1, fet_state, main, api, work, error_flags,
                 asked, read, balancing>>

--------------------------------------------------------------------------
(***************************************************************************)
(* configure_balancing(), its last steps.  An error of the others makes    *)
(* the call fail, too.                                                     *)
(***************************************************************************)
Configure(auto) ==
  /\ api' = [pc |-> "setup", auto |-> auto]
  /\ balancing' = "unknown"

\* Boot always asks for automatic balancing.
Boot ==
  /\ main.pc = "boot" /\ api.pc = "idle"
  /\ main' = [pc |-> "booting"]
  /\ Configure(TRUE)
  /\ UNCHANGED <<ic, fet_state, work, error_flags, asked, read, bounds>>

Reconfigure ==
  /\ main.pc \notin {"boot", "booting"} /\ api.pc = "idle"
  /\ Event
  /\ \E auto \in BOOLEAN : Configure(auto)
  /\ UNCHANGED <<ic, fet_state, main, work, error_flags, asked, read, faults>>

\* SETUP1, then the work is scheduled, or cancelled.
WriteSetup ==
  /\ api.pc = "setup"
  /\ \E ok \in BOOLEAN :
       /\ Succeeds(ok)
       /\ setup1' = IF ok THEN api.auto ELSE setup1
       /\ api' = [pc |-> IF api.auto THEN "done" ELSE "cancel",
                  auto |-> api.auto, ok |-> ok]
  /\ pending' = api.auto
  /\ UNCHANGED <<ctrl1, mode, powered, cbont, fet_state, main, handler,
                 error_flags, asked, read, balancing, events>>

\* k_work_cancel_delayable_sync() waits for the work and keeps it from being
\* scheduled again.
Cancelled_Async == TRUE  \* mutant
Cancelled == handler.pc = "idle"

CancelReturns ==
  /\ api.pc = "cancel"
  /\ Cancelled
  /\ api' = [api EXCEPT !.pc = "done"]
  /\ UNCHANGED <<ic, fet_state, main, work, error_flags, asked, read, balancing,
                 bounds>>

ConfigureReturns ==
  /\ api.pc = "done"
  /\ balancing' = IF ~ api.ok THEN "unknown"
                  ELSE IF api.auto THEN "automatic" ELSE "off"
  /\ api' = Idle
  /\ main' = IF main.pc = "booting" THEN Idle ELSE main
  /\ UNCHANGED <<ic, fet_state, work, error_flags, asked, read, bounds>>

--------------------------------------------------------------------------
(***************************************************************************)
(* The balancing work: STAT3 tells the scan mode; in SLEEP the on-time is  *)
(* left alone.                                                             *)
(***************************************************************************)
OnTime(m) == [NORMAL |-> 16, IDLE |-> 240, DOZE |-> 496][m]

HandlerStart_GivesUp ==  \* mutant
  /\ pending /\ handler.pc = "idle"
  /\ pending' = FALSE
  /\ \E ok \in BOOLEAN :
       /\ Succeeds(ok)
       /\ handler' = IF ok THEN [pc |-> "write", stat3 |-> mode] ELSE Idle
  /\ UNCHANGED <<ic, fet_state, main, api, error_flags, asked, read, balancing,
                 events>>

HandlerStart ==
  /\ pending /\ handler.pc = "idle"
  /\ pending' = FALSE
  /\ \E ok \in BOOLEAN : \E stat3 \in IF ok THEN {mode} ELSE Modes :
       /\ Succeeds(ok)
       /\ handler' = [pc |-> "write", stat3 |-> stat3]
  /\ UNCHANGED <<ic, fet_state, main, api, error_flags, asked, read, balancing,
                 events>>

WriteOnTime ==
  /\ handler.pc = "write"
  /\ \E ok \in BOOLEAN :
       /\ Succeeds(ok)
       /\ cbont' = IF ok /\ handler.stat3 # "SLEEP" THEN OnTime(handler.stat3)
                   ELSE cbont
  /\ handler' = [pc |-> "reschedule"]
  /\ UNCHANGED <<ctrl1, mode, powered, setup1, fet_state, main, api, pending,
                 error_flags, asked, read, balancing, events>>

\* Whatever has failed, the work runs again in one second.
HandlerEnd ==
  /\ handler.pc = "reschedule"
  /\ handler' = Idle
  /\ pending' = (api.pc # "cancel")
  /\ UNCHANGED <<ic, fet_state, main, api, error_flags, asked, read, balancing,
                 bounds>>

--------------------------------------------------------------------------
\* A protection opens switches.
Trip ==
  /\ powered
  /\ Event
  /\ ctrl1' \in SUBSET ctrl1 \ {ctrl1}
  /\ main' = IF main.pc = "write" THEN [main EXCEPT !.known = FALSE] ELSE main
  /\ UNCHANGED <<mode, powered, cbont, setup1, fet_state, api, work, error_flags,
                 asked, read, balancing, faults>>

ScanModeChanges ==
  /\ powered
  /\ Event
  /\ mode' \in Modes \ {mode}
  /\ UNCHANGED <<ctrl1, powered, cbont, setup1, fet_state, main, api, work,
                 error_flags, asked, read, balancing, faults>>

\* The MCU starts again, the IC keeps its registers.
Reset ==
  /\ Event
  /\ fet_state' = {} /\ asked' = {}
  /\ main' = [pc |-> "boot"] /\ api' = Idle
  /\ pending' = FALSE /\ handler' = Idle
  /\ error_flags' = {} /\ read' = {}
  /\ balancing' = "unknown"
  /\ UNCHANGED <<ic, faults>>

Handler == HandlerStart \/ WriteOnTime \/ HandlerEnd
Call == WriteSetup \/ CancelReturns \/ ConfigureReturns

Next ==
  \/ SetSwitches \/ WriteSwitches \/ ReadErrorFlags \/ PowerDown
  \/ Boot \/ Reconfigure \/ Call
  \/ Handler
  \/ Trip \/ ScanModeChanges \/ Reset

\* The threads that are inside a call go on, the work queue runs.
Fairness ==
  /\ WF_vars(Boot) /\ WF_vars(WriteSwitches) /\ WF_vars(Call)
  /\ WF_vars(Handler)

Spec == Init /\ [][Next]_vars /\ Fairness

--------------------------------------------------------------------------
(***************************************************************************)
(* Properties.                                                             *)
(***************************************************************************)

MainStates ==
  [pc : {"boot", "booting", "idle"}] \union
  [pc : {"write"}, switches : SUBSET Dirs, enabled : BOOLEAN,
   reg : SUBSET Dirs, known : BOOLEAN]
ApiStates ==
  [pc : {"idle"}] \union [pc : {"setup"}, auto : BOOLEAN] \union
  [pc : {"done", "cancel"}, auto : BOOLEAN, ok : BOOLEAN]
HandlerStates ==
  [pc : {"idle", "reschedule"}] \union [pc : {"write"}, stat3 : Modes]

\* Types of the variables.
TypeOK ==
  /\ ctrl1 \subseteq Dirs /\ fet_state \subseteq Dirs /\ asked \subseteq Dirs
  /\ mode \in Modes /\ powered \in BOOLEAN
  /\ cbont \in {0, 16, 240, 496} /\ setup1 \in BOOLEAN
  /\ main \in MainStates /\ api \in ApiStates
  /\ pending \in BOOLEAN /\ handler \in HandlerStates
  /\ error_flags \subseteq Dirs
  /\ read \subseteq SUBSET Dirs
  /\ balancing \in {"unknown", "automatic", "off"}
  /\ events \in 0 .. MaxEvents /\ faults \in 0 .. MaxFaults

\* A reading without failure reports exactly the directions that were asked
\* to conduct and do not, because a protection has opened the switch or the
\* command was lost (read_error_flags() against set_switches()).
OffIsReported == \A off \in read : error_flags = off

\* A switch is closed only when that is asked for, although the register is
\* written as a whole: a switch that the IC has opened, or that was opened by
\* command, is not closed by a call for the other one; but for a read that
\* failed and a protection that trips between the read and the write.
ClosesOnlyAsked ==
  [][\A d \in ctrl1' \ ctrl1 :
       \/ main.enabled /\ d \in main.switches
       \/ ~ main.known]_vars

\* After a successful configure() without automatic balancing the IC does not
\* balance, and the work does not run, until the next call or reset.
BalancingIsOff ==
  balancing = "off" => ~ setup1 /\ ~ pending /\ handler.pc = "idle"

\* With automatic balancing the on-time follows the scan mode of the IC for
\* good once the mode stays, whatever transfers have failed before: cells are
\* not discharged while they are measured (isl94202_balancing_work_handler).
OnTimeFits ==
  <>[](balancing = "automatic" /\ powered /\ mode # "SLEEP"
         => cbont = OnTime(mode))
=============================================================================
