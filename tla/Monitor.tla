------------------------------ MODULE Monitor ------------------------------
(***************************************************************************)
(* The main thread over time: start-up, the polling of the battery with    *)
(* its pace, the state of charge, and the button that shuts down.          *)
(*                                                                         *)
(* Time is counted in polling intervals.  The thread does not take time    *)
(* but where it waits.  The battery changes and the button moves at any    *)
(* time, the interrupt of the button comes at once.                        *)
(***************************************************************************)
EXTENDS Measurement

CONSTANTS
  Chips,      \* the drivers looked at
  Batteries,  \* states of the battery
  CellType,   \* CONFIG_CELL_TYPE
  Full,       \* charge of the full battery: current times interval
  LongPress,  \* 3 s
  Release,    \* 10 s, to release the button
  MaxTime,    \* bound of the time
  MaxEvents,  \* bound of changes of the battery, the button and the faults
  MaxFaults   \* bound of transfers that fail in a call

ASSUME MonitorAssumption ==
  /\ Chips \subseteq {"bq769x0", "bq769x2", "isl94202"}
  /\ CellType \in {"LFP", "NMC", "LTO"}
  /\ Full \in Nat /\ Full % 100 = 0 /\ Full > 0
  /\ {LongPress, MaxTime, MaxEvents, MaxFaults} \subseteq Nat
  /\ Release \in Nat \ {0}

\* The board has a number of cells and of thermistors, at least one of each.
ASSUME BatteryAssumption ==
  \A b \in Batteries :
    /\ b.cells \in Seq(Nat) /\ b.temps \in Seq(Int)
    /\ b.cells # <<>> /\ b.temps # <<>>
    /\ b.stack \in Nat /\ b.current \in Int
    /\ \A c \in Batteries :
         DOMAIN c.cells = DOMAIN b.cells /\ DOMAIN c.temps = DOMAIN b.temps

VARIABLES
  chip,
  battery,
  data,          \* bms.ic_data
  success,       \* the last read_data() of all data returned 0
  vcell_mode,    \* VCELL_MODE if it has been written
  curve,         \* the OCV curve, or "none" if it has been cleared
  soc,           \* bms.soc
  counter,       \* coulomb_counter_mAs
  last_update,
  main,          \* program counter of the main thread
  wake,          \* time for which the thread waits
  t_start,
  now,
  pin,           \* the button is pressed
  since,         \* time at which it was pressed last, and released last
  until,
  watched,       \* button_init() has been called, and when
  time_pressed,
  flow,          \* charge that has flowed since the MCU started
  soc_start,     \* SOC after bms_soc_reset()
  steady,        \* the current has neither changed nor been misread, and no
                 \* charge was cut off by the bounds of the SOC
  events

batteryVars == <<battery, flow>>
socVars == <<soc, counter, last_update, soc_start, steady>>
buttonVars == <<pin, since, until, time_pressed>>
vars == <<chip, batteryVars, data, success, vcell_mode, curve, socVars, main,
          wake, t_start, now, buttonVars, watched, events>>

Event == events < MaxEvents /\ events' = events + 1

\* Transfers that fail in a call.
Failures(b) == kSubset(0, Transfers(b)) \union
               UNION {kSubset(n, Transfers(b)) : n \in 1 .. MaxFaults}
Counts(failed) == IF failed = {} THEN UNCHANGED events ELSE Event

Init ==
  /\ chip \in Chips
  /\ battery \in Batteries
  /\ data = NoData(battery)
  /\ success = FALSE
  /\ vcell_mode = {}
  /\ curve \in {"default", "none"}
  /\ soc = 0 /\ counter = 0 /\ last_update = 0
  /\ main = "activate"
  /\ wake = 0 /\ t_start = 0 /\ now = 0
  /\ pin \in BOOLEAN /\ since = 0 /\ until = 0
  /\ watched = {} /\ time_pressed = 0
  /\ flow = 0 /\ soc_start = 0 /\ steady = TRUE
  /\ events = 0

--------------------------------------------------------------------------
(***************************************************************************)
(* Start-up.                                                               *)
(***************************************************************************)
\* The bq769x2 looks for the connected cells; the time it takes is open.
Activate ==
  /\ main = "activate"
  /\ IF chip = "bq769x2"
     THEN \E failed \in Failures(battery) :
            /\ Counts(failed)
            /\ vcell_mode' = detect_cells(battery, failed)
     ELSE UNCHANGED <<vcell_mode, events>>
  /\ main' = "first reading"
  /\ UNCHANGED <<chip, batteryVars, data, success, curve, socVars, wake, t_start,
                 now, buttonVars, watched>>

ocv_lfp == <<3392, 3314, 3309, 3308, 3304, 3296, 3283, 3275, 3271, 3268, 3265,
             3264, 3262, 3252, 3240, 3226, 3213, 3190, 3177, 3132, 2833>>
ocv_nmc == <<4198, 4135, 4089, 4056, 4026, 3993, 3962, 3924, 3883, 3858, 3838,
             3819, 3803, 3787, 3764, 3745, 3726, 3702, 3684, 3588, 2800>>
ocv_lto == <<2800, 2513, 2458, 2415, 2376, 2340, 2309, 2282, 2259, 2240, 2224,
             2210, 2198, 2187, 2177, 2166, 2154, 2141, 2125, 2105, 2000>>
soc_default == [i \in 1 .. 21 |-> (Full \div 100) * (105 - 5 * i)]

ocv_points == [LFP |-> ocv_lfp, NMC |-> ocv_nmc, LTO |-> ocv_lto][CellType]
\* cell_chg_voltage_limit and cell_dis_voltage_limit
ocv_simple == [LFP |-> <<3550, 2800>>, NMC |-> <<4200, 3200>>,
               LTO |-> <<2800, 2000>>][CellType]

\* mutant
bms_soc_reset_Unbounded(avg) ==
  IF curve = "none"
  THEN ((avg - ocv_simple[2]) * Full) \div (ocv_simple[1] - ocv_simple[2])
  ELSE interpolate(ocv_points, soc_default, avg)


bms_soc_reset(avg) ==
  IF curve = "none" THEN interpolate(ocv_simple, <<Full, 0>>, avg)
  ELSE interpolate(ocv_points, soc_default, avg)

\* Only the cell voltages are read, whatever comes of it.
FirstReading ==
  /\ main = "first reading"
  /\ \E failed \in Failures(battery) :
       /\ failed \subseteq {Cell(i) : i \in DOMAIN battery.cells}
       /\ Counts(failed)
       /\ data' = ReadCells(chip, data, battery, failed)
       /\ soc' = bms_soc_reset(data'.avg)
  /\ soc_start' = soc'
  /\ main' = "button init"
  /\ UNCHANGED <<chip, batteryVars, success, vcell_mode, curve, counter,
                 last_update, steady, wake, t_start, now, buttonVars, watched>>

ButtonInit ==
  /\ main = "button init"
  /\ watched' = {now}
  /\ t_start' = now
  /\ main' = "read"
  /\ UNCHANGED <<chip, batteryVars, data, success, vcell_mode, curve, socVars,
                 wake, now, buttonVars, events>>

--------------------------------------------------------------------------
(***************************************************************************)
(* The loop.                                                               *)
(***************************************************************************)
Read ==
  /\ main = "read"
  /\ \E failed \in Failures(battery) :
       /\ Counts(failed)
       /\ data' \in ReadData(chip, data, battery, failed)
       /\ success' = Succeeds(chip, failed)
  /\ main' = "soc"
  /\ UNCHANGED <<chip, batteryVars, vcell_mode, curve, socVars, wake, t_start,
                 now, buttonVars, watched>>

Significant(charge) == 1000 * Abs(charge) > Full

\* mutant
Counted_OneInterval == counter + data.current


\* The first interval is that since the MCU has started.
Counted == counter + data.current * (now - last_update)

bms_soc_update ==
  /\ main = "soc"
  /\ IF Significant(Counted)
     THEN soc' = CLAMP(soc + Counted, 0, Full) /\ counter' = 0
     ELSE counter' = Counted /\ UNCHANGED soc
  /\ last_update' = now
  /\ steady' = (steady /\ data.current = battery.current
                  /\ (Significant(Counted) => soc' = soc + Counted))
  /\ main' = "button"
  /\ UNCHANGED <<chip, batteryVars, data, success, vcell_mode, curve, soc_start,
                 wake, t_start, now, buttonVars, watched, events>>

\* mutant
ReadPin_Skipped ==
  /\ main = "button"
  /\ main' = "time"
  /\ UNCHANGED <<chip, batteryVars, data, success, vcell_mode, curve, socVars,
                 wake, t_start, now, buttonVars, watched, events>>

\* The state machine comes between (see Bms); the pin is read first.
ReadPin ==
  /\ main = "button"
  /\ main' = IF pin THEN "time" ELSE "next"
  /\ UNCHANGED <<chip, batteryVars, data, success, vcell_mode, curve, socVars,
                 wake, t_start, now, buttonVars, watched, events>>

\* mutant
ReadTime_Late ==
  /\ main = "time"
  /\ IF now - time_pressed > LongPress + 1
     THEN main' = "release" /\ wake' = now + Release
     ELSE main' = "next" /\ UNCHANGED wake
  /\ UNCHANGED <<chip, batteryVars, data, success, vcell_mode, curve, socVars,
                 t_start, now, buttonVars, watched, events>>


\* button_pressed_for_3s(), then bms_shutdown() and the wait for the release.
ReadTime ==
  /\ main = "time"
  /\ IF now - time_pressed > LongPress
     THEN main' = "release" /\ wake' = now + Release
     ELSE main' = "next" /\ UNCHANGED wake
  /\ UNCHANGED <<chip, batteryVars, data, success, vcell_mode, curve, socVars,
                 t_start, now, buttonVars, watched, events>>

\* The IC switches off, or the loop goes on.
SetModeOff ==
  /\ main = "release" /\ now >= wake
  /\ main' \in {"off", "next"}
  /\ UNCHANGED <<chip, batteryVars, data, success, vcell_mode, curve, socVars,
                 wake, t_start, now, buttonVars, watched, events>>

\* After a delay the loop catches up without waiting.
NextInterval ==
  /\ main = "next"
  /\ t_start' = t_start + 1
  /\ wake' = t_start'
  /\ main' = "sleep"
  /\ UNCHANGED <<chip, batteryVars, data, success, vcell_mode, curve, socVars,
                 now, buttonVars, watched, events>>

WakesUp ==
  /\ main = "sleep" /\ now >= wake
  /\ main' = "read"
  /\ UNCHANGED <<chip, batteryVars, data, success, vcell_mode, curve, socVars,
                 wake, t_start, now, buttonVars, watched, events>>

--------------------------------------------------------------------------
Waits == main = "activate" \/ (main \in {"sleep", "release"} /\ now < wake)

Tick ==
  /\ Waits
  /\ now < MaxTime
  /\ now' = now + 1
  /\ flow' = flow + battery.current
  /\ UNCHANGED <<chip, battery, data, success, vcell_mode, curve, socVars, main,
                 wake, t_start, buttonVars, watched, events>>

BatteryChanges ==
  /\ Event
  /\ battery' \in Batteries \ {battery}
  /\ steady' = (steady /\ battery'.current = battery.current)
  /\ UNCHANGED <<chip, flow, data, success, vcell_mode, curve, soc, counter,
                 last_update, soc_start, main, wake, t_start, now, buttonVars,
                 watched>>

\* The edge to active interrupts once the pin has been configured.
button_pressed_cb == time_pressed' = IF watched = {} THEN time_pressed ELSE now

Press ==
  /\ Event /\ ~ pin
  /\ pin' = TRUE /\ since' = now /\ UNCHANGED until
  /\ button_pressed_cb
  /\ UNCHANGED <<chip, batteryVars, data, success, vcell_mode, curve, socVars,
                 main, wake, t_start, now, watched>>

ReleaseButton ==
  /\ Event /\ pin
  /\ pin' = FALSE /\ until' = now
  /\ UNCHANGED <<chip, batteryVars, data, success, vcell_mode, curve, socVars,
                 main, wake, t_start, now, since, time_pressed, watched>>

Main ==
  \/ Activate \/ FirstReading \/ ButtonInit
  \/ Read \/ bms_soc_update \/ ReadPin \/ ReadTime \/ SetModeOff
  \/ NextInterval \/ WakesUp

Next == Main \/ Tick \/ BatteryChanges \/ Press \/ ReleaseButton

Spec == Init /\ [][Next]_vars

--------------------------------------------------------------------------
(***************************************************************************)
(* Properties.                                                             *)
(***************************************************************************)

\* Types of the variables; the SOC stays between empty and full.
TypeOK ==
  /\ chip \in Chips /\ battery \in Batteries
  /\ DOMAIN data = DOMAIN NoData(battery)
  /\ vcell_mode \in SUBSET SUBSET DOMAIN battery.cells
  /\ soc \in 0 .. Full /\ ~ Significant(counter)
  /\ {now, wake, t_start, last_update, since, until, time_pressed} \subseteq Nat
  /\ last_update <= now /\ since <= now /\ until <= now /\ time_pressed <= now
  /\ pin \in BOOLEAN /\ success \in BOOLEAN /\ steady \in BOOLEAN
  /\ events \in 0 .. MaxEvents

\* When read_data() returned 0, ic_data is what the battery was: no value of
\* another cell, of an earlier reading or of an uninitialised variable is
\* taken for a measurement (bq769x0 and bq769x2; the isl94202 driver returns
\* 0 in any case).
SuccessIsFresh ==
  [][main = "read" /\ main' = "soc" /\ success' /\ chip # "isl94202" =>
       /\ data'.voltages = battery.cells /\ data'.temps = battery.temps
       /\ data'.total = battery.stack /\ data'.current = battery.current
       /\ battery.flags \subseteq data'.flags]_vars

Hot(b, limit) == \E i \in DOMAIN b.temps : b.temps[i] > limit

\* The overtemperature flag that the bq769x0 driver computes is set when any
\* thermistor exceeds the limit, and taken back only when all are below it by
\* the hysteresis; but for readings in which a transfer fails, which may hide
\* the hotter thermistor (bq769x0.c:566).
OvertempHolds ==
  [][chip = "bq769x0" /\ main = "read" /\ main' = "soc" /\ success' =>
       /\ Hot(battery, Limits.chg_ot_limit) => "CHG_OVERTEMP" \in data'.flags
       /\ "CHG_OVERTEMP" \in data.flags \ data'.flags =>
            ~ Hot(battery, Limits.chg_ot_limit - Limits.temp_limit_hyst)]_vars

\* The bq769x2 is never told to ignore a connected cell, and if all transfers
\* succeed it is told the connected ones, and nothing with an open wire
\* (bq769x2_detect_cells(); fewer than 10 cells, a single failing transfer).
\* A failed read repeats the voltage of the cell before and may so pass a cell
\* with an open wire off as connected; detect_cells() returns -EIO then.
DetectionIsRight ==
  [][vcell_mode' # vcell_mode =>
       \A cells \in vcell_mode' :
         /\ Connected(battery.cells) \subseteq cells
         /\ events' = events =>
              /\ cells = Connected(battery.cells)
              /\ Abs(SumOf(battery.cells) - battery.stack)
                   <= 50 * Cardinality(cells) + 10]_vars

\* The state of charge and the coulomb counter add up to what flowed since
\* the MCU started, however long the loop was delayed: no interval is counted
\* twice or left out.  What flowed before bms_soc_reset() is counted, too.
ChargeIsCounted ==
  steady /\ main \in {"button", "time", "next", "release", "sleep"} =>
    soc + counter = soc_start + flow - battery.current * (now - last_update)

\* The BMS shuts down only if the button is held, and has been held without
\* interruption for the long press; a press before button_init() is taken to
\* have begun with the MCU.
OnlyLongPress ==
  [][main = "time" /\ main' = "release" =>
       /\ pin \/ until = now
       /\ \/ now - since > LongPress
          \/ \E start \in watched : since <= start]_vars

\* Whoever has held the button for longer than the long press has shut down the
\* BMS when it waits for the next interval.
LongPressIsSeen ==
  pin /\ main = "sleep" /\ now < wake => now - since <= LongPress
=============================================================================
