-------------------------- MODULE Bq769x0Alerts --------------------------
(***************************************************************************)
(* Error handling of the bq769x0 driver.  The IC latches errors in its     *)
(* SYS_STAT register and opens the switches; the system work queue runs    *)
(* bq769x0_alert_handler() to clear the bits again; the main thread polls  *)
(* them and decides about discharging.  The main thread is represented by  *)
(* what module PowerPath promises and module Bms implements.               *)
(***************************************************************************)
EXTENDS Integers

CONSTANTS
  Latching,    \* bits of SYS_STAT that the IC can set
  MaxIoErrors  \* bound: failed I2C transfers (after all CRC retries)

\* The bits, ranked in the order in which the handler looks at them.
Rank == [CC_READY |-> 1, DEVICE_XREADY |-> 2, OVRD_ALERT |-> 3, UV |-> 4,
         OV |-> 5, SCD |-> 6, OCD |-> 7]
Bits == DOMAIN Rank
SYS_STAT_ERROR_MASK == Bits \ {"CC_READY"}
DisErrors == {"UV", "SCD", "OCD"}

ASSUME LatchingAssumption == Latching \subseteq Bits
ASSUME BoundAssumption == MaxIoErrors \in Nat

(***************************************************************************)
(* Cell voltage: 0 is what ic_data holds before the first reading, 1 is    *)
(* below cell_uv_limit, 2 between the reset thresholds, 3 above            *)
(* cell_ov_limit.                                                          *)
(***************************************************************************)
Volts == 0 .. 3
UvLimit == 1
OvLimit == 3

VARIABLES
  \* the IC and the cells
  sysStat,   \* latched bits
  dsg,       \* the discharging switch is on
  volt,      \* voltage of the cells
  \* the work item
  work,      \* "idle", "scheduled" or "running"
  sys_stat,  \* bits of its copy that it has still to look at
  counter,   \* error_seconds_counter
  \* the main thread
  booted,    \* bms_ic_set_mode(ACTIVE) returned
  granted,   \* it has decided to allow discharging
  \* shared
  cell,      \* cell_voltage_min and cell_voltage_max of ic_data
  \* history
  since,     \* runs of the handler since it cleared SCD, OCD
  ioErrors

icVars == <<sysStat, dsg, volt>>
workVars == <<work, sys_stat, counter>>
mainVars == <<booted, granted>>
vars == <<icVars, workVars, mainVars, cell, since, ioErrors>>

\* Bits whose clearing is retried after a minute.
Slow == {"SCD", "OCD"}

(***************************************************************************)
(* error_seconds_counter is only compared with 0 and taken modulo 3, 10    *)
(* and 60 for some bits, so it is kept modulo a multiple of these.         *)
(***************************************************************************)
Cycle ==
  IF Slow \intersect Latching # {} THEN 60
  ELSE IF "OVRD_ALERT" \in Latching THEN 30
  ELSE 3

TypeOK ==
  /\ sysStat \in SUBSET Bits
  /\ dsg \in BOOLEAN
  /\ volt \in Volts \ {0}
  /\ work \in {"idle", "scheduled", "running"}
  /\ sys_stat \in SUBSET Bits
  /\ counter \in -1 .. Cycle - 1
  /\ booted \in BOOLEAN
  /\ granted \in BOOLEAN
  /\ cell \in Volts
  /\ since \in [Slow -> 0 .. 60]
  /\ ioErrors \in 0 .. MaxIoErrors

Init ==
  /\ sysStat \in SUBSET Latching
  /\ dsg = FALSE
  /\ volt = 2
  /\ work = "idle"
  /\ sys_stat = {}
  /\ counter = 0
  /\ booted = FALSE
  /\ granted = FALSE
  /\ cell = 0
  /\ since = [b \in Slow |-> 60]
  /\ ioErrors = 0

Succeeds == UNCHANGED ioErrors
Fails == ioErrors < MaxIoErrors /\ ioErrors' = ioErrors + 1

--------------------------------------------------------------------------
(***************************************************************************)
(* The IC.  It latches UV and OV while the voltage is beyond the limit,    *)
(* and opens the switch when it latches a discharging error.               *)
(***************************************************************************)
Latch(b) ==
  /\ b \in Latching \ sysStat
  /\ b = "UV" => volt <= UvLimit
  /\ b = "OV" => volt >= OvLimit
  /\ sysStat' = sysStat \union {b}
  /\ dsg' = (dsg /\ b \notin DisErrors)
  /\ UNCHANGED <<volt, workVars, mainVars, cell, since, ioErrors>>

Drift ==
  /\ volt' \in (Volts \ {0}) \intersect {volt - 1, volt + 1}
  /\ UNCHANGED <<sysStat, dsg, workVars, mainVars, cell, since, ioErrors>>

--------------------------------------------------------------------------
(***************************************************************************)
(* bq769x0_activate() schedules the work once.  It registers the callback  *)
(* bq769x0_alert_isr(), but no interrupt is configured on the pin: this is *)
(* the only time that the work is scheduled from outside.                  *)
(***************************************************************************)
Activate ==
  /\ ~booted
  /\ booted' = TRUE
  /\ \/ Succeeds /\ work' = "scheduled"
     \/ Fails /\ UNCHANGED work
  /\ UNCHANGED <<icVars, sys_stat, counter, granted, cell, since>>

\* bq769x0_read_cell_voltages(): a failed transfer keeps the old values.
ReadCells_Millivolts == Succeeds /\ cell' = 1000 * volt   \* mutant
ReadCells ==
  \/ Succeeds /\ cell' = volt
  \/ Fails /\ UNCHANGED cell

--------------------------------------------------------------------------
(***************************************************************************)
(* bq769x0_alert_handler().                                                *)
(***************************************************************************)
Tick == [b \in Slow |-> IF since[b] < 60 THEN since[b] + 1 ELSE 60]

StartCounter_Reset(stat) == IF stat # {} THEN 0 ELSE -1   \* mutant
StartCounter(stat) ==
  IF stat = {} THEN -1 ELSE IF counter < 0 THEN 0 ELSE counter

HandlerStart ==
  /\ work = "scheduled"
  /\ \/ /\ Succeeds
        /\ sys_stat' = sysStat
        /\ work' = "running"
        /\ counter' = StartCounter(sysStat \intersect SYS_STAT_ERROR_MASK)
        /\ since' = Tick
     \/ /\ Fails
        /\ work' = "idle"
        /\ UNCHANGED <<sys_stat, counter, since>>
  /\ UNCHANGED <<icVars, mainVars, cell>>

\* The bit the handler looks at next.
IsNext(b) == b \in sys_stat /\ \A c \in sys_stat : Rank[b] <= Rank[c]

(***************************************************************************)
(* Reset thresholds in dev_data->ic_conf: no function of the driver        *)
(* assigns them, so they keep the value 0 of static data.                  *)
(***************************************************************************)
cell_uv_reset == 0
cell_ov_reset == 0

Due_Never(b) == b = "CC_READY" \/ counter % 60 = 60       \* mutant
Due(b) ==
  \/ b = "CC_READY"
  \/ b = "DEVICE_XREADY" /\ counter % 3 = 0
  \/ b = "OVRD_ALERT" /\ counter % 10 = 0
  \/ b = "UV" /\ cell' > cell_uv_reset
  \/ b = "OV" /\ cell' < cell_ov_reset
  \/ b \in Slow /\ counter % 60 = 0

\* Writing a bit to SYS_STAT clears it, even when it was latched again since.
Clear(b) ==
  /\ sysStat' = sysStat \ {b}
  /\ since' = [s \in Slow |-> IF s = b THEN 0 ELSE since[s]]

HandleBit ==
  /\ work = "running"
  /\ \E b \in sys_stat :
       /\ IsNext(b)
       /\ sys_stat' = sys_stat \ {b}
       /\ cell' \in IF b \in {"UV", "OV"} THEN {volt, cell} ELSE {cell}
       /\ IF b \in {"UV", "OV"} /\ cell' # volt THEN Fails ELSE Succeeds \/ Fails
       /\ \/ Due(b) /\ Clear(b)
          \/ /\ ~Due(b) \/ ioErrors' > ioErrors
             /\ UNCHANGED <<sysStat, since>>
  /\ UNCHANGED <<dsg, volt, work, counter, mainVars>>

HandlerEnd ==
  /\ work = "running"
  /\ sys_stat = {}
  /\ \/ counter >= 0 /\ counter' = (counter + 1) % Cycle /\ work' = "scheduled"
     \/ counter < 0 /\ work' = "idle" /\ UNCHANGED counter
  /\ UNCHANGED <<icVars, sys_stat, mainVars, cell, since, ioErrors>>

Handler == HandlerStart \/ HandleBit \/ HandlerEnd

--------------------------------------------------------------------------
(***************************************************************************)
(* The main thread polls the voltages and the bits, and grants or takes    *)
(* back discharging; the switch is set only when the decision changes.     *)
(***************************************************************************)
Permitted_AnyBit == sysStat = {}                          \* mutant
Permitted == sysStat \intersect DisErrors = {}

Poll ==
  /\ booted
  /\ ReadCells
  /\ \/ Permitted /\ ~granted /\ granted' = TRUE /\ dsg' = TRUE
     \/ ~Permitted /\ granted /\ granted' = FALSE /\ dsg' = FALSE
     \/ Permitted = granted /\ UNCHANGED <<granted, dsg>>
  /\ UNCHANGED <<sysStat, volt, workVars, booted, since>>

Next ==
  \/ \E b \in Bits : Latch(b)
  \/ Drift
  \/ Activate
  \/ Handler
  \/ Poll

(***************************************************************************)
(* The work queue runs what is due, and the main thread polls for ever.    *)
(***************************************************************************)
Spec == Init /\ [][Next]_vars
FairSpec == Spec /\ WF_vars(Activate) /\ WF_vars(Handler) /\ WF_vars(Poll)

--------------------------------------------------------------------------
(***************************************************************************)
(* Clearing an overcurrent or short circuit is attempted once a minute at  *)
(* most, whatever the other errors make of the common seconds counter.     *)
(***************************************************************************)
RetryPaced == [][\A b \in Slow : b \in sysStat \ sysStat' => since[b] = 60]_vars

(***************************************************************************)
(* As long as the work is rescheduled, every latched error but OV gets     *)
(* cleared, also when it is latched while the handler is already busy with *)
(* others, and when attempts to clear it fail.                             *)
(***************************************************************************)
LatchedIsCleared ==
  \A b \in Latching \ {"OV"} :
    b \in sysStat /\ work # "idle" ~> b \notin sysStat \/ work = "idle"

(***************************************************************************)
(* Once the main thread has noticed an error and opened the switch, it     *)
(* closes it again when the error is cleared.                              *)
(***************************************************************************)
NoticedIsUndone ==
  booted /\ ~granted ~> dsg \/ sysStat \intersect DisErrors # {}

(***************************************************************************)
(* bms_ic.h: the overvoltage error is reset below the reset threshold.     *)
(* (While the handler is rescheduled and the voltage stays below.)         *)
(***************************************************************************)
OvervoltageIsReset ==
  <>[](work # "idle" /\ volt < OvLimit) => <>[]("OV" \notin sysStat)
==========================================================================
