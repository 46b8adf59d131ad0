--------------------------- MODULE AlertsProofs ---------------------------
(***************************************************************************)
(* Proofs about the error handling of the bq769x0, for any set of bits the *)
(* IC can latch and any number of failing transfers.                       *)
(***************************************************************************)
EXTENDS Bq769x0Alerts, TLAPS

\* The values of error_seconds_counter for which a slow bit is due.
LEMMA SlowDue ==
  ASSUME NEW c \in -1 .. 59, c % 60 = 0
  PROVE  c = 0
BY SMTT(30)

LEMMA NextSecond ==
  ASSUME NEW n \in {3, 30, 60}, NEW c \in 0 .. n - 1
  PROVE  (c + 1) % n = IF c = n - 1 THEN 0 ELSE c + 1
BY SMTT(30)

LEMMA Cycles == /\ Cycle \in {3, 30, 60}
                /\ Slow \intersect Latching # {} => Cycle = 60
BY DEF Cycle

LEMMA SlowBits == Slow \subseteq Bits
BY DEF Slow, Bits, Rank

LEMMA StartCounterType ==
  ASSUME TypeOK, NEW stat
  PROVE  /\ StartCounter(stat) \in -1 .. Cycle - 1
         /\ counter >= 0 /\ stat # {} => StartCounter(stat) = counter
         /\ stat = {} => StartCounter(stat) = -1
BY Cycles DEF TypeOK, StartCounter

LEMMA TickType ==
  ASSUME since \in [Slow -> 0 .. 60]
  PROVE  /\ Tick \in [Slow -> 0 .. 60]
         /\ \A b \in Slow : Tick[b] = IF since[b] < 60 THEN since[b] + 1 ELSE 60
BY DEF Tick

\* What clearing a bit, or leaving it, does to the history of the slow bits.
LEMMA ClearType ==
  ASSUME TypeOK, NEW b \in Bits, Clear(b) \/ UNCHANGED <<sysStat, since>>
  PROVE  /\ sysStat' \in SUBSET sysStat
         /\ since' \in [Slow -> 0 .. 60]
         /\ \A s \in Slow : s # b => since'[s] = since[s] /\ (s \in sysStat <=> s \in sysStat')
BY DEF Clear, TypeOK

LEMMA FailuresType ==
  ASSUME ioErrors \in 0 .. MaxIoErrors, Succeeds \/ Fails
  PROVE  ioErrors' \in 0 .. MaxIoErrors
BY BoundAssumption DEF Succeeds, Fails

LEMMA HandlerEndCounter ==
  ASSUME TypeOK, HandlerEnd
  PROVE  /\ counter' \in -1 .. Cycle - 1
         /\ work' \in {"idle", "scheduled"}
         /\ work' = "scheduled" =>
              /\ counter >= 0
              /\ counter' = IF counter = Cycle - 1 THEN 0 ELSE counter + 1
<1>1. CASE counter >= 0
  <2>1. counter \in 0 .. Cycle - 1
      BY <1>1, Cycles DEF TypeOK
  <2>2. (counter + 1) % Cycle = IF counter = Cycle - 1 THEN 0 ELSE counter + 1
      BY <2>1, Cycles, NextSecond
  <2>3. counter' = (counter + 1) % Cycle /\ work' = "scheduled"
      BY <1>1, <2>1, Cycles DEF HandlerEnd
  <2> QED
      BY <1>1, <2>1, <2>2, <2>3, Cycles
<1>2. CASE ~ (counter >= 0)
  <2>1. counter' = counter /\ work' = "idle"
      BY <1>2 DEF HandlerEnd
  <2> QED
      BY <2>1 DEF TypeOK
<1> QED
    BY <1>1, <1>2

--------------------------------------------------------------------------
(***************************************************************************)
(* Types, which are inductive.                                             *)
(***************************************************************************)
LEMMA TypesInit == Init => TypeOK
<1> SUFFICES ASSUME Init PROVE TypeOK
    OBVIOUS
<1>1. sysStat \in SUBSET Bits /\ since \in [Slow -> 0 .. 60]
    BY LatchingAssumption DEF Init
<1>2. counter \in -1 .. Cycle - 1 /\ ioErrors \in 0 .. MaxIoErrors
  <2>1. counter = 0 /\ ioErrors = 0
      BY DEF Init
  <2> QED
      BY <2>1, BoundAssumption, Cycles
<1>3. volt \in Volts \ {0} /\ cell \in Volts
    BY DEF Init, Volts
<1>4. dsg \in BOOLEAN /\ booted \in BOOLEAN /\ granted \in BOOLEAN
    BY DEF Init
<1>5. work \in {"idle", "scheduled", "running"} /\ sys_stat \in SUBSET Bits
    BY DEF Init
<1> QED
    BY <1>1, <1>2, <1>3, <1>4, <1>5 DEF TypeOK

LEMMA TypesNext == TypeOK /\ [Next]_vars => TypeOK'
<1> SUFFICES ASSUME TypeOK, [Next]_vars PROVE TypeOK'
    OBVIOUS
<1>1. CASE \E b \in Bits : Latch(b)
  <2>1. PICK b \in Bits : Latch(b)
      BY <1>1
  <2>2. sysStat' \in SUBSET Bits /\ dsg' \in BOOLEAN
      BY <2>1 DEF Latch, TypeOK
  <2> QED
      BY <2>1, <2>2 DEF Latch, TypeOK, workVars, mainVars
<1>2. CASE Drift
    BY <1>2 DEF Drift, TypeOK, workVars, mainVars
<1>3. CASE Activate
  <2>1. ioErrors' \in 0 .. MaxIoErrors
      BY <1>3, FailuresType DEF Activate, TypeOK
  <2>2. work' \in {"idle", "scheduled", "running"} /\ booted' \in BOOLEAN
      BY <1>3 DEF Activate, TypeOK
  <2> QED
      BY <1>3, <2>1, <2>2 DEF Activate, TypeOK, icVars
<1>4. CASE HandlerStart
  <2>1. ioErrors' \in 0 .. MaxIoErrors
      BY <1>4, FailuresType DEF HandlerStart, TypeOK
  <2>2. /\ work' \in {"idle", "scheduled", "running"}
        /\ sys_stat' \in SUBSET Bits
        /\ counter' \in -1 .. Cycle - 1
        /\ since' \in [Slow -> 0 .. 60]
      BY <1>4, StartCounterType, TickType DEF HandlerStart, TypeOK
  <2> QED
      BY <1>4, <2>1, <2>2 DEF HandlerStart, TypeOK, icVars, mainVars
<1>5. CASE HandleBit
  <2>1. PICK b \in sys_stat :
          /\ sys_stat' = sys_stat \ {b}
          /\ cell' \in IF b \in {"UV", "OV"} THEN {volt, cell} ELSE {cell}
          /\ Succeeds \/ Fails
          /\ Clear(b) \/ UNCHANGED <<sysStat, since>>
      BY <1>5 DEF HandleBit
  <2>2. sysStat' \in SUBSET Bits /\ since' \in [Slow -> 0 .. 60]
      BY <2>1, ClearType DEF TypeOK
  <2>3. ioErrors' \in 0 .. MaxIoErrors
      BY <2>1, FailuresType DEF TypeOK
  <2>4. cell' \in Volts /\ sys_stat' \in SUBSET Bits
      BY <2>1 DEF TypeOK
  <2> QED
      BY <1>5, <2>2, <2>3, <2>4 DEF HandleBit, TypeOK, mainVars
<1>6. CASE HandlerEnd
    BY <1>6, HandlerEndCounter DEF HandlerEnd, TypeOK, icVars, mainVars
<1>7. CASE Poll
  <2>1. ioErrors' \in 0 .. MaxIoErrors /\ cell' \in Volts
      BY <1>7, FailuresType DEF Poll, ReadCells, TypeOK
  <2>2. granted' \in BOOLEAN /\ dsg' \in BOOLEAN
      BY <1>7 DEF Poll, TypeOK
  <2> QED
      BY <1>7, <2>1, <2>2 DEF Poll, TypeOK, workVars
<1>8. CASE UNCHANGED vars
    BY <1>8 DEF vars, icVars, workVars, mainVars, TypeOK
<1> QED
    BY <1>1, <1>2, <1>3, <1>4, <1>5, <1>6, <1>7, <1>8 DEF Next, Handler

\* Every state of the error handling is well-typed: the counter of
\* bq769x0_alert_handler() stays in its range for every mixture of errors.
THEOREM AlertTypes == Spec => []TypeOK
BY TypesInit, TypesNext, PTL DEF Spec

--------------------------------------------------------------------------
(***************************************************************************)
(* Retries of a slow error are a minute apart.                             *)
(*                                                                         *)
(* While the handler is being rescheduled its counter grows by one from    *)
(* run to run.  It is 0 when a slow bit is cleared, so the counter bounds  *)
(* the age of the last time from below, and is 0 again after 60 runs.      *)
(***************************************************************************)
OnlyLatching == sysStat \subseteq Latching /\ sys_stat \subseteq Latching

Paced(b) ==
  /\ ~ booted => work = "idle" /\ counter = 0 /\ since[b] = 60
  /\ work = "scheduled" => counter >= 0
  /\ work = "scheduled" /\ counter = 0 => since[b] >= 59
  /\ work = "scheduled" /\ counter > 0 => since[b] >= counter - 1
  /\ work = "running" /\ counter >= 0 => since[b] >= counter
  /\ work = "running" /\ counter = 0 /\ b \in sys_stat => since[b] = 60

PaceInv == OnlyLatching /\ \A b \in Slow \intersect Latching : Paced(b)

LEMMA LatchingNext == TypeOK /\ OnlyLatching /\ [Next]_vars => OnlyLatching'
<1> SUFFICES ASSUME TypeOK, OnlyLatching, [Next]_vars PROVE OnlyLatching'
    OBVIOUS
<1>1. CASE \E b \in Bits : Latch(b)
    BY <1>1 DEF Latch, OnlyLatching, workVars
<1>2. CASE Drift \/ Activate \/ HandlerEnd \/ Poll
    BY <1>2 DEF Drift, Activate, HandlerEnd, Poll, OnlyLatching, workVars, icVars
<1>3. CASE HandlerStart
    BY <1>3 DEF HandlerStart, OnlyLatching, icVars
<1>4. CASE HandleBit
    BY <1>4 DEF HandleBit, Clear, OnlyLatching
<1>5. CASE UNCHANGED vars
    BY <1>5 DEF vars, icVars, workVars, OnlyLatching
<1> QED
    BY <1>1, <1>2, <1>3, <1>4, <1>5 DEF Next, Handler

\* The handler clears a slow bit only when its counter is 0.
LEMMA SlowClears ==
  ASSUME TypeOK, HandleBit, NEW b \in Slow \intersect Latching
  PROVE  \/ since'[b] = since[b] /\ (b \in sysStat => b \in sysStat')
         \/ counter = 0 /\ b \in sys_stat /\ b \notin sys_stat' /\ since'[b] = 0
<1>1. PICK c \in sys_stat :
        /\ sys_stat' = sys_stat \ {c}
        /\ (Due(c) /\ Clear(c)) \/ UNCHANGED <<sysStat, since>>
    BY DEF HandleBit
<1>2. CASE c = b /\ Due(c) /\ Clear(c)
  <2>1. counter % 60 = 0
      BY <1>2 DEF Due, Slow
  <2>2. counter \in -1 .. 59
      BY Cycles DEF TypeOK
  <2>3. counter = 0
      BY <2>1, <2>2, SlowDue
  <2>4. since'[b] = 0
      BY <1>2 DEF Clear
  <2> QED
      BY <1>1, <1>2, <2>3, <2>4
<1>3. CASE c # b \/ UNCHANGED <<sysStat, since>>
  <2>1. c \in Bits /\ (Clear(c) \/ UNCHANGED <<sysStat, since>>)
      BY <1>1 DEF TypeOK
  <2>2. CASE c # b
      BY <2>1, <2>2, ClearType
  <2>3. CASE UNCHANGED <<sysStat, since>>
      BY <2>3
  <2> QED
      BY <1>3, <2>2, <2>3
<1> QED
    BY <1>1, <1>2, <1>3

LEMMA PacedNext ==
  ASSUME TypeOK, [Next]_vars, NEW b \in Slow \intersect Latching, Paced(b)
  PROVE  Paced(b)'
<1>0. /\ Cycle = 60 /\ counter \in -1 .. 59 /\ since[b] \in 0 .. 60
      /\ booted \in BOOLEAN /\ work \in {"idle", "scheduled", "running"}
      /\ b \in SYS_STAT_ERROR_MASK
    BY Cycles DEF TypeOK, SYS_STAT_ERROR_MASK, Slow, Bits, Rank
<1>1. CASE (\E c \in Bits : Latch(c)) \/ Drift \/ Poll \/ UNCHANGED vars
  <2>1. UNCHANGED <<work, sys_stat, counter, booted, since>>
      BY <1>1 DEF Latch, Drift, Poll, vars, workVars, mainVars
  <2> QED
      BY <2>1 DEF Paced
<1>2. CASE Activate
  <2>1. /\ work = "idle" /\ counter = 0 /\ since[b] = 60
        /\ counter' = counter /\ since' = since /\ booted' = TRUE
        /\ work' \in {"idle", "scheduled"}
      BY <1>2 DEF Activate, Paced
  <2> QED
      BY <2>1 DEF Paced
<1>3. CASE HandlerStart
  <2>1. booted /\ booted' = booted /\ counter >= 0
      BY <1>0, <1>3 DEF HandlerStart, Paced, mainVars
  <2>2. CASE work' = "idle"
      BY <2>1, <2>2 DEF Paced
  <2>3. CASE work' = "running"
    <3>1. /\ since' = Tick
          /\ sys_stat' = sysStat
          /\ counter' = StartCounter(sysStat \intersect SYS_STAT_ERROR_MASK)
          /\ work = "scheduled"
        BY <1>3, <2>3 DEF HandlerStart
    <3>2. since'[b] = IF since[b] < 60 THEN since[b] + 1 ELSE 60
        BY <3>1, TickType DEF TypeOK
    <3>3. counter' = counter \/ counter' = -1
        BY <1>0, <2>1, <3>1, StartCounterType
    <3>4. /\ counter = 0 => since[b] >= 59
          /\ counter > 0 => since[b] >= counter - 1
        BY <3>1 DEF Paced
    <3>5. /\ counter = 0 => since'[b] = 60
          /\ since'[b] >= counter
        BY <1>0, <2>1, <3>2, <3>4
    <3>6. /\ counter' >= 0 => since'[b] >= counter'
          /\ counter' = 0 => since'[b] = 60
        BY <3>3, <3>5
    <3> QED
        BY <2>1, <2>3, <3>6 DEF Paced
  <2> QED
      BY <1>3, <2>2, <2>3 DEF HandlerStart
<1>4. CASE HandleBit
  <2>1. /\ work = "running" /\ work' = work /\ counter' = counter
        /\ booted' = booted /\ sys_stat' \subseteq sys_stat
      BY <1>4 DEF HandleBit, mainVars
  <2>2. \/ since'[b] = since[b]
        \/ counter = 0 /\ b \notin sys_stat' /\ since'[b] = 0
      BY <1>4, SlowClears
  <2>3. booted
      BY <2>1 DEF Paced
  <2> QED
      BY <2>1, <2>2, <2>3 DEF Paced
<1>5. CASE HandlerEnd
  <2>1. /\ work' \in {"idle", "scheduled"} /\ booted' = booted /\ since' = since
        /\ work' = "scheduled" =>
             counter >= 0 /\ counter' = IF counter = 59 THEN 0 ELSE counter + 1
      BY <1>0, <1>5, HandlerEndCounter DEF HandlerEnd, mainVars
  <2>2. booted /\ (counter >= 0 => since[b] >= counter)
      BY <1>5 DEF HandlerEnd, Paced
  <2> QED
      BY <1>0, <2>1, <2>2 DEF Paced
<1> QED
    BY <1>1, <1>2, <1>3, <1>4, <1>5 DEF Next, Handler

LEMMA PaceInit == Init => PaceInv
<1> SUFFICES ASSUME Init PROVE PaceInv
    OBVIOUS
<1>1. OnlyLatching
    BY DEF Init, OnlyLatching
<1>2. \A b \in Slow \intersect Latching : Paced(b)
    BY DEF Init, Paced
<1> QED
    BY <1>1, <1>2 DEF PaceInv

LEMMA PaceNext == TypeOK /\ PaceInv /\ [Next]_vars => PaceInv'
<1> SUFFICES ASSUME TypeOK, PaceInv, [Next]_vars PROVE PaceInv'
    OBVIOUS
<1>1. OnlyLatching'
    BY LatchingNext DEF PaceInv
<1>2. \A b \in Slow \intersect Latching : Paced(b)'
    BY PacedNext DEF PaceInv
<1> QED
    BY <1>1, <1>2 DEF PaceInv

\* Clearing an overcurrent or short circuit is attempted once a minute at
\* most, whatever other errors and failing transfers the handler meets.
THEOREM RetriesPaced == Spec => RetryPaced
<1> DEFINE Paces == \A b \in Slow : b \in sysStat \ sysStat' => since[b] = 60
<1>1. TypeOK /\ PaceInv /\ [Next]_vars => [Paces]_vars
  <2> SUFFICES ASSUME TypeOK, PaceInv, Next,
                      NEW b \in Slow, b \in sysStat, b \notin sysStat'
               PROVE  since[b] = 60
      BY DEF vars
  <2>1. b \in Slow \intersect Latching /\ Paced(b)
      BY DEF PaceInv, OnlyLatching
  <2>2. HandleBit
      BY DEF Next, Handler, Latch, Drift, Activate, HandlerStart, HandlerEnd, Poll,
             icVars
  <2>3. counter = 0 /\ b \in sys_stat
      BY <2>1, <2>2, SlowClears
  <2> QED
      BY <2>1, <2>2, <2>3 DEF Paced, HandleBit
<1> QED
    BY <1>1, TypesInit, TypesNext, PaceInit, PaceNext, PTL DEF Spec, RetryPaced
=============================================================================
