------------------------- MODULE Bq769x2Interface -------------------------
(***************************************************************************)
(* The subcommand interface of the bq769x2 (bq769x2_interface.c).  Reading *)
(* or writing a register takes several I2C transfers through the same few  *)
(* addresses of the IC: the subcommand, a data buffer and a checksum.      *)
(* Several threads call the driver, no lock keeps their transfers apart,   *)
(* and data_read() keeps its buffer in a static variable.                  *)
(*                                                                         *)
(* Registers of the model have one byte, so that the length the IC reports *)
(* is always the same and its transfer is part of the next one.  The IC is *)
(* modelled from how the driver uses it.                                   *)
(***************************************************************************)
EXTENDS Integers

CONSTANTS
  Threads,
  Registers,       \* addresses with data: data memory and subcommands
  Commands,        \* addresses of subcommands without data
  SET_CFGUPDATE,   \* the two of them that change the mode of the IC
  EXIT_CFGUPDATE,
  Contents,        \* memory of the IC at power-up: [Registers -> Byte]
  READ_MAX_ATTEMPTS,
  MaxIoErrors      \* bound: failed I2C transfers

Byte == 0 .. 255
Address == Registers \union Commands

ASSUME AddressAssumption ==
  /\ \A a \in Address : a \in Nat /\ 0 < a /\ a < 65536
  /\ Registers \intersect Commands = {}
  /\ {SET_CFGUPDATE, EXIT_CFGUPDATE} \subseteq Commands
  /\ SET_CFGUPDATE # EXIT_CFGUPDATE
  /\ Contents \in [Registers -> Byte]
ASSUME BoundAssumption ==
  /\ MaxIoErrors \in Nat
  /\ READ_MAX_ATTEMPTS \in Nat \ {0}

Op == [kind : {"read", "write"}, addr : Registers, value : Byte]
        \union [kind : {"command"}, addr : Commands, value : {0}]

Read(a) == [kind |-> "read", addr |-> a, value |-> 0]
Write(a, v) == [kind |-> "write", addr |-> a, value |-> v]
Command(c) == [kind |-> "command", addr |-> c, value |-> 0]

VARIABLES
  \* the IC
  subcmd,    \* address written last
  buffer,    \* data
  shown,     \* checksum of the data it provides
  memory,    \* contents of the registers
  ordered,   \* mode that was commanded: config update or not
  cfgupdate, \* mode it is in
  \* the driver
  pc,        \* next step of a call, or its result
  op,        \* what it is called for
  attempts,  \* how often the address was polled
  got,       \* byte read
  buf_data,  \* first two bytes of the static buffer
  \* history
  alone,     \* no other thread made a step since the call began
  asked,     \* what the threads wanted to write so far
  ioErrors

icVars == <<subcmd, buffer, shown, memory, ordered, cfgupdate>>
callVars == <<pc, op, attempts, got, buf_data, alone, asked>>
interfaceVars == <<icVars, callVars, ioErrors>>

Results == {"ok", "error"}
Transfers == {"address", "echo", "data", "checksum", "write", "commit"}
Computations == {"compare", "copy", "verify"}

\* Types of the interface.
InterfaceTypeOK ==
  /\ subcmd \in Address \union {0}
  /\ buffer \in Byte
  /\ shown \in Byte
  /\ memory \in [Registers -> Byte]
  /\ ordered \in BOOLEAN
  /\ cfgupdate \in BOOLEAN
  /\ pc \in [Threads -> Results \union Transfers \union Computations]
  /\ op \in [Threads -> Op]
  /\ attempts \in [Threads -> 0 .. READ_MAX_ATTEMPTS]
  /\ got \in [Threads -> Byte]
  /\ buf_data \in Byte \X Byte
  /\ alone \in [Threads -> BOOLEAN]
  /\ asked \subseteq Registers \X Byte
  /\ ioErrors \in 0 .. MaxIoErrors

InterfaceInit ==
  /\ subcmd = 0
  /\ buffer = 0
  /\ shown = 0
  /\ memory = Contents
  /\ ordered = FALSE
  /\ cfgupdate = FALSE
  /\ pc = [t \in Threads |-> "ok"]
  /\ op = [t \in Threads |-> Command(SET_CFGUPDATE)]
  /\ attempts = [t \in Threads |-> 0]
  /\ got = [t \in Threads |-> 0]
  /\ buf_data = <<0, 0>>
  /\ alone = [t \in Threads |-> FALSE]
  /\ asked = {}
  /\ ioErrors = 0

Low(a) == a % 256
High(a) == a \div 256

\* The complement of the sum of address and data.
Checksum_DataOnly(a, v) == 255 - v                        \* mutant
Checksum(a, v) == 255 - ((Low(a) + High(a) + v) % 256)

Idle(t) == pc[t] \in Results

Begin(t, o) ==
  /\ Idle(t)
  /\ pc' = [pc EXCEPT ![t] = "address"]
  /\ op' = [op EXCEPT ![t] = o]
  /\ attempts' = [attempts EXCEPT ![t] = 0]
  /\ alone' = [alone EXCEPT ![t] = TRUE]
  /\ asked' = asked \union
       (IF o.kind = "write" THEN {<<o.addr, o.value>>} ELSE {})
  /\ UNCHANGED <<icVars, got, buf_data, ioErrors>>

GoTo(t, step) ==
  /\ pc' = [pc EXCEPT ![t] = step]
  /\ alone' = [u \in Threads |-> u = t /\ alone[t]]
  /\ UNCHANGED <<op, asked>>

\* A transfer that fails ends the call with its error.
TransferFails(t) ==
  /\ pc[t] \in Transfers
  /\ ioErrors < MaxIoErrors
  /\ ioErrors' = ioErrors + 1
  /\ attempts' = [attempts EXCEPT ![t] = 0]
  /\ GoTo(t, "error")
  /\ UNCHANGED <<icVars, got, buf_data>>

--------------------------------------------------------------------------
(***************************************************************************)
(* Writing the address executes a command, or makes the IC provide the     *)
(* contents of the register and their checksum.                            *)
(***************************************************************************)
Execute(c) ==
  /\ c \in Commands
  /\ ordered' = (c = SET_CFGUPDATE \/ (c # EXIT_CFGUPDATE /\ ordered))
  /\ UNCHANGED <<buffer, shown>>

Provide(a) ==
  /\ a \in Registers
  /\ buffer' = memory[a]
  /\ shown' = Checksum(a, memory[a])
  /\ UNCHANGED ordered

AfterAddress_NoData ==                                    \* mutant
  [command |-> "ok", read |-> "echo", write |-> "commit"]
AfterAddress == [command |-> "ok", read |-> "echo", write |-> "write"]

WriteAddress(t) ==
  /\ pc[t] = "address"
  /\ subcmd' = op[t].addr
  /\ Execute(op[t].addr) \/ Provide(op[t].addr)
  /\ GoTo(t, AfterAddress[op[t].kind])
  /\ UNCHANGED <<memory, cfgupdate, attempts, got, buf_data, ioErrors>>

(***************************************************************************)
(* bq769x2_data_write(): the data, then checksum and length in one         *)
(* transfer.  The IC commits the data when the checksum is right.          *)
(***************************************************************************)
WriteData(t) ==
  /\ pc[t] = "write"
  /\ buffer' = op[t].value
  /\ GoTo(t, "commit")
  /\ UNCHANGED <<subcmd, shown, memory, ordered, cfgupdate,
                 attempts, got, buf_data, ioErrors>>

Commits(t) ==
  /\ subcmd \in Registers
  /\ Checksum(op[t].addr, op[t].value) = Checksum(subcmd, buffer)

WriteChecksum(t) ==
  /\ pc[t] = "commit"
  /\ shown' = Checksum(op[t].addr, op[t].value)
  /\ memory' = (IF Commits(t) THEN [memory EXCEPT ![subcmd] = buffer]
                ELSE memory)
  /\ GoTo(t, "ok")
  /\ UNCHANGED <<subcmd, buffer, ordered, cfgupdate,
                 attempts, got, buf_data, ioErrors>>

(***************************************************************************)
(* bq769x2_data_read(): poll the address until the IC shows it (0 stands   *)
(* for the IC being busy), give up after too many attempts, read the data, *)
(* and validate them with the checksum.                                    *)
(***************************************************************************)
Attempt_Uncounted(t) == attempts[t]                       \* mutant
Attempt(t) == attempts[t] + 1

ReadAddress(t) ==
  /\ pc[t] = "echo"
  /\ \E shows \in {subcmd, 0} : buf_data' = <<Low(shows), High(shows)>>
  /\ attempts' = [attempts EXCEPT ![t] = Attempt(t)]
  /\ GoTo(t, "compare")
  /\ UNCHANGED <<icVars, got, ioErrors>>

GivesUp_Later(t) == attempts[t] > READ_MAX_ATTEMPTS       \* mutant
GivesUp(t) == attempts[t] >= READ_MAX_ATTEMPTS

Compared(t) ==
  IF buf_data = <<Low(op[t].addr), High(op[t].addr)>> THEN "data"
  ELSE IF GivesUp(t) THEN "error" ELSE "echo"

CompareAddress(t) ==
  /\ pc[t] = "compare"
  /\ attempts' = [attempts EXCEPT ![t] = IF Compared(t) = "echo" THEN @ ELSE 0]
  /\ GoTo(t, Compared(t))
  /\ UNCHANGED <<icVars, got, buf_data, ioErrors>>

ReadData(t) ==
  /\ pc[t] = "data"
  /\ buf_data' = [buf_data EXCEPT ![1] = buffer]
  /\ GoTo(t, "copy")
  /\ UNCHANGED <<icVars, attempts, got, ioErrors>>

CopyData(t) ==
  /\ pc[t] = "copy"
  /\ got' = [got EXCEPT ![t] = buf_data[1]]
  /\ GoTo(t, "checksum")
  /\ UNCHANGED <<icVars, attempts, buf_data, ioErrors>>

ReadChecksum(t) ==
  /\ pc[t] = "checksum"
  /\ buf_data' = [buf_data EXCEPT ![1] = shown]
  /\ GoTo(t, "verify")
  /\ UNCHANGED <<icVars, attempts, got, ioErrors>>

Valid_Always(t) == TRUE                                   \* mutant
Valid(t) == buf_data[1] = Checksum(op[t].addr, got[t])

Verify(t) ==
  /\ pc[t] = "verify"
  /\ GoTo(t, IF Valid(t) THEN "ok" ELSE "error")
  /\ UNCHANGED <<icVars, attempts, got, buf_data, ioErrors>>

Step(t) ==
  \/ TransferFails(t)
  \/ WriteAddress(t) \/ WriteData(t) \/ WriteChecksum(t)
  \/ ReadAddress(t) \/ CompareAddress(t)
  \/ ReadData(t) \/ CopyData(t) \/ ReadChecksum(t) \/ Verify(t)

\* The IC changes its mode some time after the command.
ModeChanges ==
  /\ cfgupdate # ordered
  /\ cfgupdate' = ordered
  /\ UNCHANGED <<subcmd, buffer, shown, memory, ordered, callVars, ioErrors>>
==========================================================================
