------------------------------ MODULE BootLoad ------------------------------
(***************************************************************************)
(* Uploading a program over the serial line: the host script               *)
(* (bootloader.py), the hardware loader that listens to the UART beside    *)
(* the core and resets it (loader_wb), the reset handler that chooses      *)
(* between the boot ROM and the program, the boot ROM's interrupt handler  *)
(* that stores the bytes (bootloader.c), and the gate that lets the core   *)
(* write program memory only while a load is in progress.                  *)
(*                                                                         *)
(* Time passes in Ticks of one second, the unit of every wait involved;    *)
(* what takes microseconds (a byte, an interrupt) happens between Ticks.   *)
(***************************************************************************)
EXTENDS Integers, Sequences

CONSTANTS
    Images,      \* the programs a host may upload: [inst, data : Seq(Byte)]
    Byte,        \* the bytes told apart
    Scratch,     \* the byte a running program stores
    Typed,       \* what a person may type to the running program
    MemLen,      \* the bytes of each memory that are tracked, from its base
    Patient,     \* does the operator wait out the loader's two seconds before a new upload?
    MaxFaults    \* how many faults (kill, stall, reset) may strike

ASSUME ByteAssumption == Byte \subseteq 0 .. 255 /\ Scratch \in Byte /\ Typed \subseteq Byte
ASSUME ImagesAssumption == \A img \in Images : img.inst \in Seq(Byte) /\ img.data \in Seq(Byte)

VARIABLES
    lstate,       \* loader_wb.state
    counter,      \* loader_wb.counter, in seconds
    reset_cause,  \* loader_wb.reset_cause
    cpu,          \* reset | banner | wait | handler (the boot ROM) | user
    mip,          \* the core has latched the UART interrupt
    rx_st,        \* the UART's "byte received" status bit
    rx_byte,      \* the UART's receive register
    boot,         \* the boot ROM's globals: state, len_ctr, len, ptr, limit
    inst, data,   \* program and data memory, from INST_BASE_ADDR and DATA_BASE_ADDR
    hpc,          \* where the host script is
    hwait,        \* the seconds its sleep or readline may still take
    himg,         \* the program it uploads
    line,         \* a line of text waits in its input buffer
    wire,         \* bytes written by the host and not yet received
    faults        \* faults so far

loaderVars == <<lstate, counter, reset_cause>>
coreVars   == <<cpu, mip, rx_st, rx_byte, boot>>
memVars    == <<inst, data>>
hostVars   == <<hpc, hwait, himg>>
vars == <<lstate, counter, reset_cause, cpu, mip, rx_st, rx_byte, boot,
          inst, data, hpc, hwait, himg, line, wire, faults>>

Dash == 45     \* '-'
Pee  == 112    \* 'p'
Under == 95    \* '_'
Timeout == 2   \* 2*SYS_CLK_FREQ cycles

\* A length as the host sends it: file_size.to_bytes(4, "little")
LengthBytes(n) == <<n % 256, (n \div 256) % 256, (n \div 65536) % 256, n \div 16777216>>

LengthOf(b) == b[1] + 256 * b[2] + 65536 * b[3] + 16777216 * b[4]

Prefixes(s) == {SubSeq(s, 1, n) : n \in 0 .. Len(s)}

\* The boot ROM may write program memory: loader_wb.bootloader_en
BootloaderEn == lstate \in {"S3", "S4"}

\* What main sets: the first length is not complete, so limit does not matter yet.
BootStart == [state |-> "INST", len_ctr |-> 0, len |-> <<0, 0, 0, 0>>, ptr |-> 0, limit |-> 0]

-----------------------------------------------------------------------------
TypeOK ==
    /\ lstate \in {"S0", "S1", "S2", "S3", "S4"}
    /\ counter \in 0 .. Timeout /\ reset_cause \in {0, 1}
    /\ cpu \in {"reset", "banner", "wait", "handler", "user"}
    /\ mip \in BOOLEAN /\ rx_st \in BOOLEAN /\ rx_byte \in 0 .. 255
    /\ boot.state \in {"INST", "DATA", "DONE"} /\ boot.len_ctr \in 0 .. 4
    /\ inst \in [0 .. MemLen - 1 -> 0 .. 255] /\ data \in [0 .. MemLen - 1 -> 0 .. 255]
    /\ hpc \in {"idle", "sleep1", "sleep2", "readline", "final"}
    /\ hwait \in 0 .. 1 /\ line \in BOOLEAN /\ wire \in Seq(0 .. 255)
    /\ himg \in Images /\ faults \in 0 .. MaxFaults

\* Power-up with blank memories; the reset handler has jumped to the (empty) program.
Init ==
    /\ lstate = "S0" /\ counter = 0 /\ reset_cause = 0
    /\ cpu = "user" /\ mip = FALSE /\ rx_st = FALSE /\ rx_byte = 0
    /\ boot = BootStart
    /\ inst = [i \in 0 .. MemLen - 1 |-> 0] /\ data = [i \in 0 .. MemLen - 1 |-> 0]
    /\ hpc = "idle" /\ hwait = 0 /\ himg \in Images
    /\ line = FALSE /\ wire = << >> /\ faults = 0

-----------------------------------------------------------------------------
(* The loader and the UART *)

\* Wrong variant: the command opens the gate without the cycle that resets the core.
LoaderNext_NoReset(b) ==
    CASE lstate = "S0" -> IF b = Dash THEN "S1" ELSE "S0"
      [] lstate = "S1" -> IF b = Pee THEN "S3" ELSE IF b = Under THEN "S1" ELSE "S0"
      [] OTHER         -> "S4"

\* The state the loader moves to when byte b is received.
LoaderNext(b) ==
    CASE lstate = "S0" -> IF b = Dash THEN "S1" ELSE "S0"
      [] lstate = "S1" -> IF b = Pee THEN "S2" ELSE IF b = Under THEN "S1" ELSE "S0"
      [] OTHER         -> "S4"

CauseAfter(nxt) == IF nxt = "S2" THEN 1 ELSE IF nxt = "S0" THEN 0 ELSE reset_cause

\* The core and the UART's registers when loader_reset falls.
CoreReset == /\ cpu' = "reset" /\ mip' = FALSE /\ rx_st' = FALSE
             /\ UNCHANGED <<rx_byte, boot>>

\* A byte takes thousands of cycles: the reset handler and the interrupt handler are done
\* before the next one, but the boot ROM's banner lasts as long as 23 bytes.
ReadyForByte == /\ cpu # "reset"
                /\ cpu = "wait" => ~mip
                /\ cpu = "handler" => ~rx_st

\* A byte is received: the UART and the loader take it in the same cycle.
RxByte ==
    /\ wire # << >> /\ ReadyForByte
    /\ wire' = Tail(wire)
    /\ LET b == Head(wire)  nxt == LoaderNext(b) IN
         /\ lstate' = nxt /\ counter' = 0 /\ reset_cause' = CauseAfter(nxt)
         /\ IF nxt = "S2" THEN CoreReset
            ELSE /\ rx_byte' = b /\ rx_st' = TRUE /\ mip' = TRUE
                 /\ UNCHANGED <<cpu, boot>>
    /\ UNCHANGED <<inst, data, hpc, hwait, himg, line, faults>>

\* S2 lasts one cycle, the cycle in which the core is held in reset.
LoaderRelease ==
    /\ lstate = "S2" /\ lstate' = "S3"
    /\ UNCHANGED <<counter, reset_cause, coreVars, memVars, hostVars, line, wire, faults>>

\* Two seconds without a byte end the load, whatever the boot ROM has received.
LoaderTimeout ==
    /\ lstate = "S4" /\ counter = Timeout
    /\ lstate' = "S0" /\ counter' = 0 /\ reset_cause' = CauseAfter("S0")
    /\ CoreReset
    /\ UNCHANGED <<memVars, hostVars, line, wire, faults>>

-----------------------------------------------------------------------------
(* The core: reset handler, boot ROM, program *)

\* Wrong variant: the reset handler does not look at the cause.
ResetHandler_Boot ==
    /\ cpu = "reset" /\ lstate # "S2"
    /\ cpu' = "banner" /\ boot' = BootStart
    /\ UNCHANGED <<mip, rx_st, rx_byte, loaderVars, memVars, hostVars, line, wire, faults>>

\* _start, and the assignments main begins with
ResetHandler ==
    /\ cpu = "reset" /\ lstate # "S2"
    /\ IF reset_cause = 0 THEN cpu' = "user" /\ UNCHANGED boot
                          ELSE cpu' = "banner" /\ boot' = BootStart
    /\ UNCHANGED <<mip, rx_st, rx_byte, loaderVars, memVars, hostVars, line, wire, faults>>

\* While it prints, uart_transmit_byte polls the status register, and reading it clears rx_st.
BannerPoll ==
    /\ cpu = "banner" /\ rx_st
    /\ rx_st' = FALSE
    /\ UNCHANGED <<cpu, mip, rx_byte, boot, loaderVars, memVars, hostVars, line, wire, faults>>

\* "Waiting for opcodes...", then interrupts are enabled.
BannerDone ==
    /\ cpu = "banner"
    /\ cpu' = "wait" /\ line' = TRUE
    /\ UNCHANGED <<mip, rx_st, rx_byte, boot, loaderVars, memVars, hostVars, wire, faults>>

TakeIrq ==
    /\ cpu = "wait" /\ mip
    /\ cpu' = "handler" /\ mip' = FALSE
    /\ UNCHANGED <<rx_st, rx_byte, boot, loaderVars, memVars, hostVars, line, wire, faults>>

\* Wrong variant: the gate does not look at bootloader_en.
InstAfterStore_Open(off, b) ==
    IF off < MemLen THEN [inst EXCEPT ![off] = b] ELSE inst

\* A store of the core: program memory takes it only while bootloader_en.
InstAfterStore(off, b) ==
    IF BootloaderEn /\ off < MemLen THEN [inst EXCEPT ![off] = b] ELSE inst

DataAfterStore(off, b) == IF off < MemLen THEN [data EXCEPT ![off] = b] ELSE data

\* Bytes 1 .. 4 of a section: its length.
TakeLengthByte(b) ==
    LET len == [boot.len EXCEPT ![boot.len_ctr + 1] = b] IN
    /\ boot.state # "DONE" /\ boot.len_ctr < 4
    /\ boot' = [boot EXCEPT !.len = len, !.len_ctr = @ + 1,
                            !.limit = IF boot.len_ctr = 3 THEN LengthOf(len) ELSE @]
    /\ UNCHANGED <<memVars, line>>

\* Wrong variant: the length counter is not reset between the sections.
TakePayloadByte_KeepCtr(b) ==
    /\ boot.state # "DONE" /\ boot.len_ctr = 4
    /\ IF boot.state = "INST" THEN inst' = InstAfterStore(boot.ptr, b) /\ UNCHANGED data
                              ELSE data' = DataAfterStore(boot.ptr, b) /\ UNCHANGED inst
    /\ LET last == boot.ptr + 1 = boot.limit IN
       /\ boot' = IF ~last THEN [boot EXCEPT !.ptr = @ + 1]
                  ELSE IF boot.state = "INST" THEN [boot EXCEPT !.state = "DATA", !.ptr = 0]
                  ELSE [boot EXCEPT !.state = "DONE", !.ptr = @ + 1]
       /\ line' = (line \/ (last /\ boot.state = "DATA"))

\* Then its contents; the last byte of a section moves on to the next one.
TakePayloadByte(b) ==
    /\ boot.state # "DONE" /\ boot.len_ctr = 4
    /\ IF boot.state = "INST" THEN inst' = InstAfterStore(boot.ptr, b) /\ UNCHANGED data
                              ELSE data' = DataAfterStore(boot.ptr, b) /\ UNCHANGED inst
    /\ LET last == boot.ptr + 1 = boot.limit IN
       /\ boot' = IF ~last THEN [boot EXCEPT !.ptr = @ + 1]
                  ELSE IF boot.state = "INST"
                       THEN [boot EXCEPT !.state = "DATA", !.ptr = 0, !.len_ctr = 0]
                  ELSE [boot EXCEPT !.state = "DONE", !.ptr = @ + 1]
       /\ line' = (line \/ (last /\ boot.state = "DATA"))   \* "Program load complete."

\* fast_irq0_handler: uart_receive_byte spins until rx_st, and reading it clears it.
Fast_irq0_handler ==
    /\ cpu = "handler" /\ rx_st
    /\ cpu' = "wait" /\ rx_st' = FALSE
    /\ \/ boot.state = "DONE" /\ UNCHANGED <<boot, inst, data, line>>
       \/ TakeLengthByte(rx_byte)
       \/ TakePayloadByte(rx_byte)
    /\ UNCHANGED <<mip, rx_byte, loaderVars, hostVars, wire, faults>>

\* A running program overwrites its data, or tries to overwrite its instructions.
UserStore ==
    /\ cpu = "user"
    /\ \/ data' = DataAfterStore(0, Scratch) /\ UNCHANGED inst
       \/ inst' = InstAfterStore(0, Scratch) /\ UNCHANGED data
    /\ UNCHANGED <<coreVars, loaderVars, hostVars, line, wire, faults>>

UserPrints ==
    /\ cpu = "user" /\ line' = TRUE
    /\ UNCHANGED <<coreVars, loaderVars, memVars, hostVars, wire, faults>>

-----------------------------------------------------------------------------
(* The host *)

UserTypes(b) ==
    /\ hpc = "idle" /\ cpu = "user" /\ wire = << >>
    /\ wire' = <<b>>
    /\ UNCHANGED <<loaderVars, coreVars, memVars, hostVars, line, faults>>

\* Opening the port discards old input; then time.sleep(1).
HostStart(img) ==
    /\ hpc = "idle"
    /\ Patient => lstate # "S4"
    /\ hpc' = "sleep1" /\ hwait' = 1 /\ himg' = img /\ line' = FALSE
    /\ UNCHANGED <<loaderVars, coreVars, memVars, wire, faults>>

HostSendCommand ==
    /\ hpc = "sleep1" /\ hwait = 0
    /\ wire' = wire \o <<Dash, Pee>>
    /\ hpc' = "sleep2" /\ hwait' = 1
    /\ UNCHANGED <<loaderVars, coreVars, memVars, himg, line, faults>>

HostSleep2Done ==
    /\ hpc = "sleep2" /\ hwait = 0
    /\ hpc' = "readline" /\ hwait' = 1
    /\ UNCHANGED <<loaderVars, coreVars, memVars, himg, line, wire, faults>>

\* readline returns with a line or after its timeout; the files follow in either case.
HostSendFiles ==
    /\ hpc = "readline" /\ (line \/ hwait = 0)
    /\ line' = FALSE
    /\ wire' = wire \o LengthBytes(Len(himg.inst)) \o himg.inst
                    \o LengthBytes(Len(himg.data)) \o himg.data
    /\ hpc' = "final" /\ hwait' = 1
    /\ UNCHANGED <<loaderVars, coreVars, memVars, himg, faults>>

\* The last read_data of the upload; the script may then exit (-q).
HostFinish ==
    /\ hpc = "final" /\ wire = << >> /\ (line \/ hwait = 0)
    /\ hpc' = "idle" /\ hwait' = 0 /\ line' = FALSE
    /\ UNCHANGED <<loaderVars, coreVars, memVars, himg, wire, faults>>

-----------------------------------------------------------------------------
(* Time and faults *)

DeviceQuiet == /\ lstate # "S2" /\ ~(lstate = "S4" /\ counter = Timeout)
               /\ \/ cpu = "user"
                  \/ cpu = "wait" /\ ~mip
                  \/ cpu = "handler" /\ ~rx_st

HostQuiet == /\ wire = << >>
             /\ hpc # "idle" => hwait > 0
             /\ hpc \in {"readline", "final"} => ~line

SecondPasses ==
    /\ counter' = IF lstate = "S4" THEN counter + 1 ELSE counter
    /\ hwait' = IF hwait > 0 THEN hwait - 1 ELSE 0
    /\ UNCHANGED <<lstate, reset_cause, coreVars, memVars, hpc, himg, line, wire>>

Tick == DeviceQuiet /\ HostQuiet /\ SecondPasses /\ UNCHANGED faults

Fault == faults < MaxFaults /\ faults' = faults + 1

\* The host's process is not scheduled for a second in the middle of what it does.
HostStall == Fault /\ hpc # "idle" /\ DeviceQuiet /\ ~HostQuiet /\ SecondPasses

\* The script is killed; what it had written reaches the wire in part.
HostKill ==
    /\ Fault /\ hpc # "idle"
    /\ hpc' = "idle" /\ hwait' = 0 /\ line' = FALSE /\ wire' \in Prefixes(wire)
    /\ UNCHANGED <<loaderVars, coreVars, memVars, himg>>

\* The board's reset button: reset_i reaches the loader as well as the core.
ExternalReset ==
    /\ Fault
    /\ lstate' = "S0" /\ counter' = 0 /\ reset_cause' = 0
    /\ CoreReset
    /\ UNCHANGED <<memVars, hostVars, line, wire>>

-----------------------------------------------------------------------------
Device == \/ RxByte \/ LoaderRelease \/ LoaderTimeout
          \/ ResetHandler \/ BannerDone \/ TakeIrq \/ Fast_irq0_handler

Host == HostSendCommand \/ HostSleep2Done \/ HostSendFiles \/ HostFinish

Next == \/ Device \/ Host \/ Tick
        \/ BannerPoll \/ UserStore \/ UserPrints
        \/ \E b \in Typed : UserTypes(b)
        \/ \E img \in Images : HostStart(img)
        \/ HostStall \/ HostKill \/ ExternalReset

Spec == Init /\ [][Next]_vars

\* Hardware and firmware keep going, a started script goes on, and time passes.
FairSpec == Spec /\ WF_vars(Device) /\ WF_vars(Host) /\ WF_vars(Tick)

\* The operator runs the script again and again.
RetrySpec == FairSpec /\ WF_vars(\E img \in Images : HostStart(img))

-----------------------------------------------------------------------------
(* Properties *)

Installed(img) == /\ \A i \in 1 .. Len(img.inst) : inst[i - 1] = img.inst[i]
                  /\ \A i \in 1 .. Len(img.data) : data[i - 1] = img.data[i]

\* The boot ROM, whose stack and variables lie in the gated memory, only ever runs while
\* the gate is open, and a program only while it is shut: the loader's state machine and
\* the core, which share nothing but a reset line and a cause bit, never disagree.
GateFollowsCore ==
    /\ cpu \in {"banner", "wait", "handler"} => BootloaderEn
    /\ cpu = "user" => ~BootloaderEn

\* The loader's state fixes the cause the reset handler will read and what may run.
IInv ==
    /\ lstate \in {"S0", "S1"} => reset_cause = 0 /\ cpu \in {"reset", "user"}
    /\ lstate = "S2" => reset_cause = 1 /\ cpu = "reset"
    /\ lstate \in {"S3", "S4"} => reset_cause = 1 /\ cpu # "user"

\* Only the boot ROM's handler changes program memory: no program changes itself.
OnlyLoadsWriteProgram == [][inst' # inst => cpu = "handler"]_vars

\* As long as nothing has failed, a program the core enters is complete: the memories hold
\* one of the images, both sections, whatever an earlier and longer one left behind.
EntersCompleteImages ==
    [][cpu = "reset" /\ cpu' = "user" /\ faults' = 0 => \E img \in Images : Installed(img)]_vars

\* An upload that was started ends with its program in memory and running, or with a fault.
UploadInstalls ==
    \A img \in Images : (hpc = "sleep1" /\ himg = img /\ faults = 0)
                            ~> ((cpu = "user" /\ Installed(img)) \/ faults > 0)

\* However the faults fall, repeating the upload brings the program up in the end.
RetriesInstall == <>(\E img \in Images : cpu = "user" /\ Installed(img))
=============================================================================
