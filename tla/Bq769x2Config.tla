--------------------------- MODULE Bq769x2Config ---------------------------
(***************************************************************************)
(* Two threads use the interface of the bq769x2 at once: the ThingSet      *)
(* thread configures the IC, for which it enters the config update mode,   *)
(* writes limits to the data memory and leaves the mode; meanwhile the     *)
(* main thread sets the switches and reads the balancing status.           *)
(* configure() is modelled with the undervoltage limit, the part that      *)
(* reads a register of the data memory and writes it back.                 *)
(***************************************************************************)
EXTENDS Bq769x2Interface

CONSTANTS
  Main, ThingSet,
  FET_CONTROL, ALL_FETS_ON, CB_ACTIVE_CELLS, CUV_THRESHOLD, PROT_ENABLED_A,
  SwitchBits,     \* values for FET_CONTROL
  Limits,         \* values for CUV_THRESHOLD
  MAX_POLLS,      \* attempts to see the mode of the IC change
  MaxConfigures,  \* bound: calls of configure()
  MaxUses         \* bound: calls of the main thread

ASSUME ConfigAssumption ==
  /\ Threads = {Main, ThingSet} /\ Main # ThingSet
  /\ {FET_CONTROL, CB_ACTIVE_CELLS, CUV_THRESHOLD, PROT_ENABLED_A}
       \subseteq Registers
  /\ ALL_FETS_ON \in Commands \ {SET_CFGUPDATE, EXIT_CFGUPDATE}
  /\ SwitchBits \subseteq Byte /\ Limits \subseteq Byte
  /\ MAX_POLLS \in Nat \ {0}
  /\ MaxConfigures \in Nat /\ MaxUses \in Nat

\* The registers each thread reads and writes.
Owned(t) == IF t = Main THEN {FET_CONTROL, CB_ACTIVE_CELLS}
            ELSE {CUV_THRESHOLD, PROT_ENABLED_A}

\* The sum of the bytes of an address that the checksum covers.
AddressSum(a) == (Low(a) + High(a)) % 256

\* Checksums tell the registers of the two threads apart.
ASSUME SumsAssumption ==
  \A a \in Owned(Main), b \in Owned(ThingSet) : AddressSum(a) # AddressSum(b)

VARIABLES
  \* configure() and config_update_mode()
  stage,       \* call it waits for
  limit,       \* threshold it is to write
  errors,      \* parts that failed
  polls,       \* attempts to read the mode
  config_update_mode_enabled,
  configured,  \* its result
  configures,  \* calls so far
  \* the main thread
  job,         \* call it waits for
  switched,    \* result of set_switches()
  uses         \* calls so far

configVars == <<stage, limit, errors, polls, config_update_mode_enabled,
                configured, configures>>
mainVars == <<job, switched, uses>>
vars == <<interfaceVars, configVars, mainVars>>

\* Types of the interface and of its two users.
TypeOK ==
  /\ InterfaceTypeOK
  /\ stage \in {"idle", "enter", "entering", "entered", "threshold",
                "enabled", "enable", "exit", "exiting", "left"}
  /\ limit \in Byte
  /\ errors \subseteq {"mode", "limit"}
  /\ polls \in 0 .. MAX_POLLS - 1
  /\ config_update_mode_enabled \in BOOLEAN
  /\ configured \in {"none"} \union Results
  /\ configures \in 0 .. MaxConfigures
  /\ job \in {"idle", "open", "close", "all_on", "read"}
  /\ switched \in {"none"} \union Results
  /\ uses \in 0 .. MaxUses

Init ==
  /\ InterfaceInit
  /\ stage = "idle"
  /\ limit = Contents[CUV_THRESHOLD]
  /\ errors = {}
  /\ polls = 0
  /\ config_update_mode_enabled = FALSE
  /\ configured = "none"
  /\ configures = 0
  /\ job = "idle"
  /\ switched = "none"
  /\ uses = 0

--------------------------------------------------------------------------
(***************************************************************************)
(* configure(): config_update_mode(true), the undervoltage limit,          *)
(* config_update_mode(false).  Errors are collected, the calls go on.      *)
(***************************************************************************)
Call(next, o) ==
  /\ stage' = next
  /\ Begin(ThingSet, o)

Returns(at) == stage = at /\ Idle(ThingSet)
Failed == pc[ThingSet] = "error"
Collect(part, bad) == errors' = errors \union (IF bad THEN {part} ELSE {})

Configure(v) ==
  /\ Returns("idle")
  /\ configures < MaxConfigures
  /\ configures' = configures + 1
  /\ limit' = v
  /\ errors' = {}
  /\ configured' = "none"
  /\ Call("enter", Command(SET_CFGUPDATE))
  /\ UNCHANGED <<polls, config_update_mode_enabled, mainVars>>

(***************************************************************************)
(* config_update_mode(): the command, then polls of the status.            *)
(***************************************************************************)
Entering == {"enter", "entering"}
Leaving == {"exit", "exiting"}
config_update == stage \in Entering
Reached == IF config_update THEN "entered" ELSE "left"

ModeFails ==
  /\ Returns("enter") \/ Returns("exit")
  /\ Failed
  /\ stage' = Reached
  /\ Collect("mode", TRUE)
  /\ UNCHANGED <<interfaceVars, limit, polls, config_update_mode_enabled,
                 configured, configures, mainVars>>

ModeCommanded ==
  /\ Returns("enter") \/ Returns("exit")
  /\ ~Failed
  /\ stage' = (IF config_update THEN "entering" ELSE "exiting")
  /\ UNCHANGED <<interfaceVars, limit, errors, polls, config_update_mode_enabled,
                 configured, configures, mainVars>>

Polling == stage \in {"entering", "exiting"}

ModeIsSet_Unread == TRUE                                  \* mutant
ModeIsSet == cfgupdate = config_update

ModeSeen ==
  /\ Polling
  /\ ModeIsSet
  /\ stage' = Reached
  /\ config_update_mode_enabled' = config_update
  /\ polls' = 0
  /\ UNCHANGED <<interfaceVars, limit, errors, configured, configures,
                 mainVars>>

\* The status shows the other mode, or could not be read.
ModeNotSeen ==
  /\ Polling
  /\ \/ ~ModeIsSet /\ UNCHANGED ioErrors
     \/ ioErrors < MaxIoErrors /\ ioErrors' = ioErrors + 1
  /\ UNCHANGED <<icVars, callVars, limit, config_update_mode_enabled,
                 configured, configures, mainVars>>

PollAgain ==
  /\ ModeNotSeen
  /\ polls + 1 < MAX_POLLS
  /\ polls' = polls + 1
  /\ UNCHANGED <<stage, errors>>

PollsUsedUp ==
  /\ ModeNotSeen
  /\ polls + 1 = MAX_POLLS
  /\ stage' = Reached
  /\ polls' = 0
  /\ Collect("mode", TRUE)

(***************************************************************************)
(* configure_cell_uvp(): the threshold, then the bit that enables the      *)
(* protection, if nothing has failed in this function.                     *)
(***************************************************************************)
WriteThreshold ==
  /\ stage = "entered"
  /\ Call("threshold", Write(CUV_THRESHOLD, limit))
  /\ UNCHANGED <<limit, errors, polls, config_update_mode_enabled,
                 configured, configures, mainVars>>

ReadEnabled ==
  /\ Returns("threshold")
  /\ Collect("limit", Failed)
  /\ Call("enabled", Read(PROT_ENABLED_A))
  /\ UNCHANGED <<limit, polls, config_update_mode_enabled,
                 configured, configures, mainVars>>

WithCUV(byte) == IF (byte \div 4) % 2 = 1 THEN byte ELSE byte + 4

Leave == Call("exit", Command(EXIT_CFGUPDATE))

Enable ==
  /\ Returns("enabled")
  /\ Collect("limit", Failed)
  /\ \/ "limit" \notin errors' /\
          Call("enable", Write(PROT_ENABLED_A, WithCUV(got[ThingSet])))
     \/ "limit" \in errors' /\ Leave
  /\ UNCHANGED <<limit, polls, config_update_mode_enabled,
                 configured, configures, mainVars>>

EnableReturns ==
  /\ Returns("enable")
  /\ Collect("limit", Failed)
  /\ Leave
  /\ UNCHANGED <<limit, polls, config_update_mode_enabled,
                 configured, configures, mainVars>>

ConfigureReturns ==
  /\ stage = "left"
  /\ stage' = "idle"
  /\ configured' = (IF errors = {} THEN "ok" ELSE "error")
  /\ UNCHANGED <<interfaceVars, limit, errors, polls,
                 config_update_mode_enabled, configures, mainVars>>

Configuring ==
  \/ Step(ThingSet) /\ UNCHANGED <<configVars, mainVars>>
  \/ ModeFails \/ ModeCommanded \/ ModeSeen \/ PollAgain \/ PollsUsedUp
  \/ WriteThreshold \/ ReadEnabled \/ Enable \/ EnableReturns
  \/ ConfigureReturns

--------------------------------------------------------------------------
(***************************************************************************)
(* The main thread: set_switches() and read_balancing().                   *)
(***************************************************************************)
Use(next, o) ==
  /\ job = "idle" /\ Idle(Main)
  /\ uses < MaxUses
  /\ uses' = uses + 1
  /\ job' = next
  /\ Begin(Main, o)
  /\ UNCHANGED configVars

\* set_switches() ends at once if it cannot read which switches are on.
StatusUnread ==
  /\ job = "idle" /\ uses < MaxUses
  /\ uses' = uses + 1
  /\ ioErrors < MaxIoErrors
  /\ ioErrors' = ioErrors + 1
  /\ switched' = "error"
  /\ UNCHANGED <<icVars, callVars, configVars, job>>

\* Switching off ("open") and on ("close"), which takes a second command.
SetSwitches(bits) ==
  /\ \/ Use("open", Write(FET_CONTROL, bits))
     \/ Use("close", Write(FET_CONTROL, bits))
  /\ switched' = "none"

ReadBalancing == Use("read", Read(CB_ACTIVE_CELLS)) /\ UNCHANGED switched

\* The command is given although the write before it failed.
AllFetsOn ==
  /\ job = "close" /\ Idle(Main)
  /\ job' = "all_on"
  /\ switched' = pc[Main]
  /\ Begin(Main, Command(ALL_FETS_ON))
  /\ UNCHANGED <<uses, configVars>>

Result ==
  IF job = "all_on" /\ switched = "error" THEN "error" ELSE pc[Main]

UseReturns ==
  /\ job \in {"open", "all_on", "read"} /\ Idle(Main)
  /\ job' = "idle"
  /\ switched' = (IF job = "read" THEN switched ELSE Result)
  /\ UNCHANGED <<interfaceVars, uses, configVars>>

Using ==
  \/ Step(Main) /\ UNCHANGED <<configVars, mainVars>>
  \/ AllFetsOn \/ UseReturns

--------------------------------------------------------------------------
Requests ==
  \/ \E v \in Limits : Configure(v)
  \/ \E bits \in SwitchBits : SetSwitches(bits)
  \/ StatusUnread
  \/ ReadBalancing

IcChangesMode == ModeChanges /\ UNCHANGED <<configVars, mainVars>>

Next == Requests \/ Configuring \/ Using \/ IcChangesMode

Spec == Init /\ [][Next]_vars

\* Both threads are scheduled, and their transfers end.
Fairness == WF_vars(Configuring) /\ WF_vars(Using)

FairSpec == Spec /\ Fairness

--------------------------------------------------------------------------
(***************************************************************************)
(* Data land in a register only if a thread wanted them there, although    *)
(* the transfers of two calls of bq769x2_data_write() may be mixed.        *)
(***************************************************************************)
NoMisdirectedWrite ==
  [][\A a \in Registers :
       memory'[a] # memory[a] => <<a, memory'[a]>> \in asked]_vars

(***************************************************************************)
(* configure_cell_uvp() changes one bit of the enabled protections, even   *)
(* when the byte it writes back was read while the other thread used the   *)
(* IC and the static buffer of bq769x2_data_read(), for registers whose    *)
(* contents and addresses do not have the same checksums by chance, as     *)
(* those of the run: one byte cannot tell all mixtures from data.          *)
(***************************************************************************)
ProtectionsKept ==
  [][memory'[PROT_ENABLED_A] \in
       {memory[PROT_ENABLED_A], WithCUV(memory[PROT_ENABLED_A])}]_vars

\* The end of a call that reports success.
SucceedsNow(t, kind) ==
  /\ op[t].kind = kind
  /\ ~Idle(t)
  /\ pc'[t] = "ok"

(***************************************************************************)
(* A read that reports success returns what the register contains, what-   *)
(* ever the other thread did: bq769x2_data_read() finds the mixture by     *)
(* address and checksum (again, but for checksums that agree by chance).   *)
(* A write that reports success has changed the register, unless another   *)
(* thread used the interface meanwhile: nobody looks whether the IC        *)
(* accepts what bq769x2_data_write() sends.                                *)
(***************************************************************************)
SuccessIsTrue ==
  [][\A t \in Threads :
       /\ SucceedsNow(t, "read") => got[t] = memory[op[t].addr]
       /\ SucceedsNow(t, "write") /\ alone'[t] =>
            memory'[op[t].addr] = op[t].value]_vars

(***************************************************************************)
(* configure() reports success only with the IC back in normal mode, and   *)
(* config_update_mode_enabled in accordance.                               *)
(***************************************************************************)
UpdateModeLeft ==
  stage = "idle" /\ configured = "ok" =>
    ~cfgupdate /\ ~config_update_mode_enabled

(***************************************************************************)
(* configure() and the calls of the main thread end: polls of the address  *)
(* and of the mode are limited, however the threads disturb one another.   *)
(***************************************************************************)
CallsEnd == /\ stage # "idle" ~> stage = "idle"
            /\ job # "idle" ~> job = "idle"
==========================================================================
