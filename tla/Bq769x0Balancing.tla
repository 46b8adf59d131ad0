------------------------- MODULE Bq769x0Balancing -------------------------
(***************************************************************************)
(* Cell balancing of the bq769x0 driver.  The system work queue runs       *)
(* bq769x0_balancing_work_handler() every second, which chooses the cells  *)
(* to discharge, section by section; the main thread polls voltages,       *)
(* current and status into the same struct bms_ic_data; a third thread     *)
(* configures the driver or balances by hand.  No lock protects the shared *)
(* data or keeps the register accesses of the threads apart.               *)
(***************************************************************************)
EXTENDS Integers

CONSTANTS
  NumSections,  \* CELLBAL registers of the IC
  SectionSize,  \* cells of a register, 5 in the code
  Profiles,     \* cell voltages of a section that occur, in steps of 10 mV
                \* above a voltage that counts as a connected cell
  Requests,     \* sets of cells that the application asks to balance
  Diff,         \* bal_cell_voltage_diff
  MinVoltage,   \* bal_cell_voltage_min
  MaxIoErrors   \* bound: failed I2C transfers

ASSUME SizeAssumption ==
  NumSections \in Nat \ {0} /\ SectionSize \in Nat \ {0}

Sections == 1 .. NumSections
Positions == 1 .. SectionSize

\* A bit mask of cells, by section.
Mask == [Sections -> SUBSET Positions]
NoCells == [s \in Sections |-> {}]

ASSUME InputAssumption ==
  /\ Profiles \subseteq [Positions -> Nat] /\ Profiles # {}
  /\ Requests \subseteq Mask
  /\ Diff \in Nat /\ MinVoltage \in Nat /\ MaxIoErrors \in Nat

Adjacent(a, b) == a = b + 1 \/ b = a + 1
Apart(cells) == \A a, b \in cells : ~Adjacent(a, b)

VARIABLES
  cellbal,   \* the registers: cells being discharged, per section
  \* struct bms_ic_data
  volts,     \* cell_voltages
  range,     \* [low, high]: cell_voltage_min, cell_voltage_max
  status,    \* balancing_status
  \* driver data
  auto,      \* ic_conf.auto_balancing
  idle,      \* no current for bal_idle_delay
  switches,  \* balancing_status
  \* the main thread
  mpc,
  reading,   \* the section whose voltages it reads
  \* the work handler
  work,      \* "none", "due", "choose" or "clear"
  section,   \* of the loop
  seen,      \* voltages by which it sorted the cells
  wanted,    \* history: the cells it put into cell_list
  todo,      \* those of them still to try
  chosen,    \* balancing_flags
  \* the caller of configure() or balance()
  api,       \* "idle", "cancel" or "write"
  target,    \* cells to write
  at,        \* section to write
  ok,        \* result of its last call
  ioErrors

mainVars == <<mpc, reading, volts, range, idle>>
choiceVars == <<seen, wanted, todo, chosen>>
workVars == <<work, section, choiceVars>>
apiVars == <<auto, switches, api, target, at, ok>>
vars == <<cellbal, status, mainVars, workVars, apiVars, ioErrors>>

Limits == [low : Nat, high : Nat]

TypeOK ==
  /\ cellbal \in Mask
  /\ volts \in [Sections -> Profiles]
  /\ range \in Limits
  /\ status \in Mask
  /\ auto \in BOOLEAN
  /\ idle \in BOOLEAN
  /\ switches \in Mask
  /\ mpc \in {"cells", "limits", "status"}
  /\ reading \in Sections
  /\ work \in {"none", "due", "choose", "clear"}
  /\ section \in Sections
  /\ seen \in [Positions -> Nat]
  /\ wanted \subseteq Positions
  /\ todo \subseteq wanted
  /\ chosen \subseteq Positions
  /\ api \in {"idle", "cancel", "write"}
  /\ target \in Mask
  /\ at \in Sections
  /\ ok \in BOOLEAN
  /\ ioErrors \in 0 .. MaxIoErrors

Init ==
  /\ cellbal = NoCells
  /\ volts \in [Sections -> Profiles]
  /\ range = [low |-> 0, high |-> 0]
  /\ status = NoCells
  /\ auto = FALSE
  /\ idle = FALSE
  /\ switches = NoCells
  /\ mpc = "cells"
  /\ reading = 1
  /\ work = "none"
  /\ section = 1
  /\ seen = [i \in Positions |-> 0]
  /\ wanted = {}
  /\ todo = {}
  /\ chosen = {}
  /\ api = "idle"
  /\ target = NoCells
  /\ at = 1
  /\ ok = TRUE
  /\ ioErrors = 0

\* bq769x0_write_byte(): a failed transfer leaves the register alone.
WriteCellbal(s, cells) ==
  \/ cellbal' = [cellbal EXCEPT ![s] = cells] /\ UNCHANGED ioErrors
  \/ UNCHANGED cellbal /\ ioErrors < MaxIoErrors /\ ioErrors' = ioErrors + 1

--------------------------------------------------------------------------
(***************************************************************************)
(* The main thread in read_data(): the cell voltages, one after the other, *)
(* then their limits, unless a transfer failed; then the current and the   *)
(* balancing status.                                                       *)
(***************************************************************************)
More_OneTooMany(s) == s <= NumSections                    \* mutant
More(s) == s < NumSections

ReadCellVoltages ==
  /\ mpc = "cells"
  /\ \E profile \in Profiles : volts' = [volts EXCEPT ![reading] = profile]
  /\ \/ More(reading) /\ reading' = reading + 1 /\ UNCHANGED mpc
     \/ ~More(reading) /\ reading' = 1 /\ mpc' = "limits"
     \/ reading' = 1 /\ mpc' = "status"
  /\ UNCHANGED <<cellbal, range, idle, status, workVars, apiVars, ioErrors>>

Measured == {volts[s][i] : s \in Sections, i \in Positions}

ReadCellLimits ==
  /\ mpc = "limits"
  /\ mpc' = "status"
  /\ range' \in [low : Measured, high : Measured]
  /\ \A v \in Measured : range'.low <= v /\ v <= range'.high
  /\ UNCHANGED <<cellbal, reading, volts, idle, status, workVars, apiVars, ioErrors>>

\* A current above bal_idle_current restarts the idle time.
ReadStatus == switches

ReadCurrentAndStatus ==
  /\ mpc = "status"
  /\ mpc' = "cells"
  /\ idle' \in {idle, FALSE}
  /\ status' = ReadStatus
  /\ UNCHANGED <<cellbal, reading, volts, range, workVars, apiVars, ioErrors>>

IdleTimePasses ==
  /\ idle' = TRUE
  /\ UNCHANGED <<cellbal, mpc, reading, volts, range, status, workVars, apiVars, ioErrors>>

Main == ReadCellVoltages \/ ReadCellLimits \/ ReadCurrentAndStatus

--------------------------------------------------------------------------
(***************************************************************************)
(* bq769x0_balancing_work_handler().                                       *)
(***************************************************************************)
Needed ==
  /\ idle
  /\ range.high > MinVoltage
  /\ range.high - range.low > Diff

\* The cells of a section to balance.
Candidates_High(s) ==                                     \* mutant
  {i \in Positions : volts[s][i] - range.high > Diff}
Candidates(s) == {i \in Positions : volts[s][i] - range.low > Diff}

BeginSection(s) ==
  /\ section' = s
  /\ seen' = volts[s]
  /\ wanted' = Candidates(s)
  /\ todo' = wanted'
  /\ chosen' = {}

\* The work is scheduled again, unless it is being cancelled.
EndHandler ==
  /\ work' = IF api = "cancel" THEN "none" ELSE "due"
  /\ section' = 1
  /\ UNCHANGED choiceVars

HandlerStart ==
  /\ work = "due"
  /\ \/ /\ Needed
        /\ status' = NoCells
        /\ work' = "choose"
        /\ BeginSection(1)
     \/ /\ ~Needed /\ status # NoCells
        /\ work' = "clear"
        /\ UNCHANGED <<section, choiceVars, status>>
  /\ UNCHANGED <<cellbal, mainVars, apiVars, ioErrors>>

\* The cells are tried in the order of descending voltage.
ComesNext_Lowest(c) == \A b \in todo : seen[c] <= seen[b] \* mutant
ComesNext(c) ==
  \A b \in todo : seen[c] > seen[b] \/ (seen[c] = seen[b] /\ c <= b)

TryCell_Always(c) == chosen \union {c}                    \* mutant
TryCell(c) ==
  IF \E b \in chosen : Adjacent(b, c) THEN chosen ELSE chosen \union {c}

ChooseCell ==
  /\ work = "choose"
  /\ \E c \in todo :
       /\ ComesNext(c)
       /\ chosen' = TryCell(c)
       /\ todo' = todo \ {c}
  /\ UNCHANGED <<cellbal, status, mainVars, work, section, seen, wanted,
                 apiVars, ioErrors>>

SetSection ==
  /\ work = "choose"
  /\ todo = {}
  /\ status' = [status EXCEPT ![section] = @ \union chosen]
  /\ WriteCellbal(section, chosen)
  /\ \/ More(section) /\ BeginSection(section + 1) /\ UNCHANGED work
     \/ ~More(section) /\ EndHandler
  /\ UNCHANGED <<mainVars, apiVars>>

ClearSection ==
  /\ work = "clear"
  /\ WriteCellbal(section, {})
  /\ \/ /\ More(section)
        /\ section' = section + 1
        /\ UNCHANGED <<status, work, choiceVars>>
     \/ /\ ~More(section)
        /\ status' = NoCells
        /\ EndHandler
  /\ UNCHANGED <<mainVars, apiVars>>

Handler == HandlerStart \/ ChooseCell \/ SetSection \/ ClearSection

--------------------------------------------------------------------------
(***************************************************************************)
(* bq769x0_configure_balancing(), bms_ic_bq769x0_balance() and the         *)
(* function bq769x0_set_balancing_switches() they share.                   *)
(***************************************************************************)
SetSwitches(cells) ==
  /\ target' = cells
  /\ at' = 1
  /\ api' = "write"

ConfigureAuto ==
  /\ api = "idle"
  /\ auto' = TRUE
  /\ ok' = TRUE
  /\ work' = IF work = "none" THEN "due" ELSE work
  /\ UNCHANGED <<cellbal, status, mainVars, section, choiceVars,
                 switches, api, target, at, ioErrors>>

ConfigureManual ==
  /\ api = "idle"
  /\ auto' = FALSE
  /\ api' = "cancel"
  /\ work' = IF work = "due" THEN "none" ELSE work
  /\ UNCHANGED <<cellbal, status, mainVars, section, choiceVars,
                 switches, target, at, ok, ioErrors>>

\* k_work_cancel_delayable_sync() returns when the handler is not running.
Cancelled_Async == api = "cancel"                         \* mutant
Cancelled == api = "cancel" /\ work = "none"

CancelReturns ==
  /\ Cancelled
  /\ SetSwitches(NoCells)
  /\ UNCHANGED <<cellbal, status, mainVars, workVars, auto, switches, ok, ioErrors>>

\* With automatic balancing, the call returns -EBUSY.
Balance(cells) ==
  /\ api = "idle"
  /\ ~auto
  /\ SetSwitches(cells)
  /\ UNCHANGED <<cellbal, status, mainVars, workVars, auto, switches, ok, ioErrors>>

Accepted == Apart(target[at])

WriteSection ==
  /\ api = "write"
  /\ Accepted
  /\ WriteCellbal(at, target[at])
  /\ LET error == ioErrors' > ioErrors
         last == ~More(at) IN
       /\ api' = IF error \/ last THEN "idle" ELSE "write"
       /\ at' = IF error \/ last THEN 1 ELSE at + 1
       /\ ok' = IF error THEN FALSE ELSE IF last THEN TRUE ELSE ok
       /\ switches' = IF last /\ ~error THEN target ELSE switches
  /\ UNCHANGED <<status, mainVars, workVars, auto, target>>

RejectSection ==
  /\ api = "write"
  /\ ~Accepted
  /\ api' = "idle"
  /\ at' = 1
  /\ ok' = FALSE
  /\ UNCHANGED <<cellbal, status, mainVars, workVars, auto, switches, target,
                 ioErrors>>

Call == CancelReturns \/ WriteSection \/ RejectSection

Next ==
  \/ Main
  \/ IdleTimePasses
  \/ Handler
  \/ ConfigureAuto \/ ConfigureManual
  \/ \E cells \in Requests : Balance(cells)
  \/ Call

Spec == Init /\ [][Next]_vars
FairSpec == Spec /\ WF_vars(Main) /\ WF_vars(Handler) /\ WF_vars(Call)

--------------------------------------------------------------------------
(***************************************************************************)
(* No two neighbours of a section are discharged at the same time, as the  *)
(* IC requires, whichever thread wrote the register, whatever voltages it  *)
(* saw meanwhile, and when some of the writes fail.                        *)
(***************************************************************************)
NoAdjacentCells == \A s \in Sections : Apart(cellbal[s])

(***************************************************************************)
(* The choice for a section is the best that can be done greedily: a cell  *)
(* that is left out has a chosen neighbour of at least its voltage.        *)
(***************************************************************************)
LeftOutForHigher ==
  work = "choose" =>
    \A c \in Positions :
      c \in wanted \ (todo \union chosen) =>
        \E b \in chosen : Adjacent(b, c) /\ seen[b] >= seen[c]

(***************************************************************************)
(* When a call that turns automatic balancing off, or balances by hand,    *)
(* has succeeded, the registers hold what was asked for and the handler    *)
(* that might still overwrite them is gone.                                *)
(***************************************************************************)
ManualTakesOver ==
  ~auto /\ api = "idle" /\ ok => cellbal = switches /\ work = "none"

(***************************************************************************)
(* While an idle pack has cells above the limit in a section, some cells   *)
(* of the section are eventually being discharged, and that is not given   *)
(* up again when the voltages change.                                      *)
(***************************************************************************)
ImbalanceIsTreated ==
  \A s \in Sections :
    <>[](auto /\ Needed /\ \E i \in Positions : volts[s][i] > range.low + Diff)
      => <>[](cellbal[s] # {})

(***************************************************************************)
(* Otherwise the handler is to clear all CELLBAL registers (its comment):  *)
(* once the pack is in use or balanced for good, no cell is discharged.    *)
(***************************************************************************)
BalancingStops == <>[](auto /\ ~Needed) => <>[](cellbal = NoCells)
==========================================================================
