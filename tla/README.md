# Formal models of RISQrypt

RISQrypt is a RISC-V system on chip for masked post-quantum cryptography: a
five-stage core, memories with a DMA port, accelerators and peripherals on a
Wishbone bus, a boot loader and its host script, C drivers and firmware (Kyber,
Dilithium, PASTA), and a ChipWhisperer CW305 bridge for side-channel
measurements. This directory holds TLA+ models of it, the TLC configurations that
check them on small instances, and TLAPS proofs for every instance.

Contents: [Inventory](#inventory) · [Modules](#modules) · [Runs](#runs) ·
[Proofs](#proofs) · [What the checks found](#what-the-checks-found) ·
[What is not modelled](#what-is-not-modelled) · [Plan](#plan) · [Use](#use)

## Inventory

| Part | State | Operations | Talks to |
|---|---|---|---|
| Core (`core/`) | program counter, four pipeline registers, register file, CSRs, trap FSM, multiplier/divider FSM | one clock edge: fetch, decode, execute, memory, write back; stall, flush, trap, return | instruction and data bus; interrupt lines |
| Memories and bus (`processor/risqrypt_top.sv`, `peripherals/memory_2rw*`, `core/core_wb.v`) | two dual-port memories, registered strobes and acknowledges, the arbiter's registered requests | core load/store, DMA read/write, answer selection, write gate | core, accelerators' DMA, loader (`bootloader_en`) |
| UART (`peripherals/uart_wb.v`, `sdk/lib/uart.c`) | transmitter and receiver FSMs, status bits | write a byte, poll, receive, raise the fast interrupt for a cycle | line, core, loader |
| Loader and boot chain (`peripherals/loader_wb.v`, `sdk/rom/`, `sdk/toolchain/bootloader.py`) | FSM, seconds counter, reset cause; the ROM's globals; the script's place | recognise `-p`, reset the core, open and shut the gate, store a section, time out | UART, core's reset, program memory |
| CW305 bridge (`sca/rtl/`) | two dual-clock FIFOs, DONE register across clocks, trigger | USB register read/write, bus register read/write | host, firmware |
| SimpleSerial link (`sca/fw/simpleserial`, `sca/fw/driver`, `sca/host/CW305_rq.py`) | the command being received or executed; the host's wait | get a command, run it, put the response, set DONE; write, wait, read | bridge |
| Machine timer, timer, GPIO | 64-bit count and compare; a counter with start and reset; pins | register access, count | core |
| X2X accelerator (`peripherals/x2x_wb/acc`, `sdk/lib/x2x.c`) | register file, FSM with five counters, burst registers, two DMA ports, conversion pipeline, LFSR-based RNG | set a modulus, seed, convert or share or refresh a vector, read random words | data memory, driver |
| NTT and Keccak accelerators (`sdk/lib/ntt_lite.c`, `keccak.c`) | RTL in git submodules that are not in the tree; registers `mu`, `inv2`, `bound`, polynomial and twiddle memory, sponge | transform, arithmetic, rounding, hints, packing, sampling; sponge calls | DMA bus, driver |
| Dilithium (`fw/src/dilithium`) | keys, vectors of a signing call and their shares, signature | key generation, signing with rejection, plain and on shares, verification | accelerators, caller |
| Kyber (`fw/src/kyber`) | keys, ciphertext, shares of a decapsulation | key generation, encapsulation, decapsulation, plain and on shares | accelerators, caller |
| PASTA (`fw/src/pasta`) | the two halves of the cipher's state, a row buffer | encryption, plain and on shares | accelerators, caller |
| Side-channel victims (`sca/fw/victims`) | seeds, shares of them, shares of a dummy | turn the generator of shares on or off, make keys, run one masked function | SimpleSerial link, accelerators |

### What is hard, and what makes each part correct

- **Core.** Instructions in flight overlap; a multiplication, a misaligned access or a CSR
  dependency stops some stages and not others, while a branch, an exception or an interrupt
  empties some. Correct means: a program cannot tell the core from a machine that runs one
  instruction after another, interrupts come between instructions, each request leads to one
  trap, traps record where to go on.
- **Memories and bus.** The core looks at no acknowledge: an answer has to be on the bus in the
  very next cycle, selected by registers that say what was asked a cycle ago. Correct means: a
  load returns its word, an acknowledge to a DMA master means that master was served, and
  program memory is written only during a load.
- **UART.** Two clocks with different rates and one alignment per frame; a program that polls a
  status bit which is low a cycle before the transmitter listens again. Correct means: bytes
  arrive unchanged, in order, and none is lost.
- **Boot chain.** Four actors (script, loader, ROM code, gate) share a serial line, a reset line
  and a cause bit; waits of one and two seconds race. Correct means: the loader and the core
  never disagree about who runs; an upload installs its image; a failed upload can be repeated.
- **CW305 bridge.** Two unrelated clocks; pointers and flags cross them through flip-flop pairs.
  Correct means: the FIFO is a FIFO, its flags err on the safe side, and a flag set once is
  seen once.
- **SimpleSerial link.** DONE and the response travel on different paths. Correct means: DONE
  seen is the DONE of this command, and then the whole response is there.
- **X2X accelerator.** Words are fetched, converted and written back in bursts, and these overlap:
  results are written while others are still in the pipeline, dummies that hide what is converted
  travel behind the data, a random word may be missing in any cycle, and nothing looks at the bus'
  acknowledge. Correct means: each word of the result is made of its own two source shares and is
  written to its own place, the two DMA ports never meet, and a call returns with its buffer complete.
- **NTT, Keccak drivers.** Clear-on-read status, polling, a sponge's state between calls.
  Correct means: one operation at a time, DONE of this operation, buffers complete at DONE.
- **Dilithium.** Hundreds of calls on one accelerator whose registers mean something else to every
  operation and are reset by nobody; a loop that may be left in the middle on four grounds and
  starts over with what it left. Correct means: verification accepts the valid signatures and no
  others, and what signing returns is valid.
- **Kyber, PASTA.** The same registers, and a decapsulation that must reveal nothing of an invalid
  ciphertext but return something. Correct means: encapsulation and decapsulation agree, an invalid
  ciphertext gives the secret drawn from `z`, PASTA's ciphertext is the plaintext plus the key stream.
- **Masked variants.** A third accelerator with a modulus of its own; conversions between two kinds of
  shares, each for one modulus; floors of shares that do not add up to the floor of their sum. Correct means: for
  all shares, a masked function returns what the plain one returns.
- **Side-channel victims.** Masked functions outside their context: on inputs they would never be given, after a
  dummy, with the generator of shares on or off. Correct means: what is measured is the function that
  is deployed, which nobody sees, as most of them return nothing.

`PROJECT.json` lists the components with their source files and the hazards with their lines.

## Modules

| Module | Models | Composes |
|---|---|---|
| `FifoQueue` | what a FIFO promises: a bounded queue | |
| `AsyncFifo` | the dual-clock FIFO on pointer positions | implements `FifoQueue` |
| `AsyncFifoGray` | the same on Gray-coded bits, each caught by itself | implements `AsyncFifo` |
| `DoneFlag` | the flag register between two clocks (`async_reg.v`) | |
| `Cw305Link` | host, bridge and firmware | two `AsyncFifo`s, `DoneFlag` |
| `UartSerial` | transmitter, receiver, polling program | |
| `BootLoad` | script, loader, reset handler, boot ROM, gate | |
| `MemBus` | data bus, memories, DMA arbiter | |
| `Hart` | what a core promises: a sequential machine | |
| `Pipeline` | the five-stage core | implements `Hart` |
| `MulDivUnit` | the core's multiplier and divider | |
| `X2xAccelerator` | the share conversion accelerator and its driver | |
| `X2xInvariant` | what holds in each state of that accelerator, for its proof | `X2xAccelerator` |
| `NttLite` | the NTT-Lite and Keccak accelerators as their drivers show them | |
| `Masking` | the conversion accelerator as its driver shows it to the schemes | `NttLite` |
| `Kyber`, `MaskedKyber` | key generation, encapsulation, decapsulation; decapsulation on shares | `Masking` |
| `Pasta` | encryption, plain and on shares | `Masking` |
| `Dilithium`, `MaskedDilithium` | key generation, signing, verification; signing on shares; what a valid signature is | `NttLite`, `Masking` |
| `KyberVictims`, `DilithiumVictim` | the measured programs | `MaskedKyber`, `MaskedDilithium` |
| `Firmware` | the programs, loaded one after another onto the same accelerators | `KyberVictims`, `DilithiumVictim`, `Pasta` |
| `LoadStoreUnit` | the byte lanes of loads and stores | |
| `MCAsyncFifoGray`, `MCBootLoad`, `MCMemBus`, `MCCoreUnits`, `MCPipeline`, `MCFirmware` | the instances TLC checks | |
| `AsyncFifoProofs`, `AsyncFifoGrayProofs`, `BootLoadProofs`, `CoreUnitsProofs`, `Cw305LinkProofs`, `PipelineProofs`, `UartProofs`, `X2xProofs` | the proofs | `Cw305LinkProofs`: two `AsyncFifoProofs`; `CoreUnitsProofs`: `LoadStoreUnit`, `MulDivUnit`, `MemBus`; `X2xProofs`: `X2xInvariant` |

Definitions whose name ends in `_Something` and whose comment begins with *Wrong variant* are
not part of a model: each replaces a definition by what a plausible bug would make of it, and
`PROJECT.json` ("mutants") names the property that must then fail.

### AsyncFifo, AsyncFifoGray

One action per clock edge: `WClk`, `RClk`, and `BothClk` for edges that coincide, where a
pointer that changes is caught as its old or its new value; `Reset` resets both sides, as
`cw305_wb.v` does. `WriteSide` is `wptr_full`, the write port of `fifomem` and the first stage
of the other side's synchroniser; `ReadSide` is the other half. Pointers count positions
modulo twice the depth, and memory addresses are positions modulo the depth (`AddrOf`).
`AsyncFifoGray` has the same actions on Gray-coded pointers, of which each bit is caught by
itself when edges coincide; it implements `AsyncFifo`, which is where the claim "one bit
changes at a time" earns its place. Powers of two are a function (`Pow`) that an assumption describes, so that
the module can be proved about; `MCAsyncFifoGray` gives it its values. The almost-full and almost-empty outputs are unconnected
in the bridge and left out.

### DoneFlag, Cw305Link

`DoneFlag` is `async_reg.v` by itself. `Cw305Link` puts it between two FIFOs. The firmware is a
program counter that makes one bus access per edge of the bus clock (`poll_rx`, `rx`, `tx`, the
read and the write of the trigger and DONE register); the host makes one register access per edge of
the USB clock and rests `Gap` rounds of both clocks in between, because a USB transaction takes
far longer than a clock cycle. Both may pause at any edge. Bytes are marked with the command
they belong to, so that a property can tell whose response was read.

### UartSerial

`TxNext` and `RxNext` are the two FSMs of `uart_wb.v`, a step per edge of their own clock; the
clocks may drift apart by `MaxSlip` cycles within a frame. `TxCycle` adds the polling program of
`uart.c`, and `RxCycle` the reset that the loader gives to the UART when a command is complete.

### BootLoad

`lstate`, `counter`, `reset_cause` are `loader_wb`; `cpu` is what the core is running; `boot`
are the boot ROM's globals (`state`, `len_ctr`, `len`, `ptr`, `limit`, of which the handler resets
only some between sections); `mip` and `rx_st` are the interrupt and the status bit, which differ
when the banner's polling has cleared one of them (`BannerPoll`). `RxByte` takes a byte off the
wire and moves loader, UART and core together. Time is a `Tick` of one second, taken when
nothing that takes microseconds is left to do. `HostKill`, `HostStall` and `ExternalReset` are the
faults. The host script waits in `readline` for whatever text comes. `Patient` says whether the operator lets the loader time out before the next
upload.

### MemBus

One step is one clock cycle (`Cycle`): the requests of the core and of every DMA master go in
and the answers of the cycle before come out. `Strobe`, `ToInst`, `ToData` are the
interconnect's decoding, `Granted` and `Answered` the arbiter's two priority selections,
`Answers` and `Put` a memory port. The two ports of a memory may meet at one word: a read then
returns either value. Words are whole; their lanes are `LoadStoreUnit`'s. `CoreLoads` says which memory a
program loads from: the linker scripts put all read-only data of programs into data memory.

### LoadStoreUnit

What a load or a store moves: the masks and shifts of the access at the address, of the second one when the bytes
do not fit in a word, and the joining of the halves in `MEMWB`. One step is one instruction (`Store`, `Load`): the order of
its accesses is `Pipeline`'s and their fate `MemBus`'. `AccessIsBytewise` states that the result is that of a memory of
bytes, for every length, offset and sign extension, and around the end of the address space. `MCCoreUnits` checks the unit
together with `MulDivUnit`; an instruction uses one of them and they share nothing, so the run lets one rest, as after reset, while the other works.

### Hart, Pipeline

`Hart` runs one instruction per step, or enters an interrupt; a clock cycle is at most two such
steps. `Pipeline` has a variable per pipeline register and one step per clock edge (`Clock`),
with an input: the fast interrupt's line. The operators carry the names of the signals:
`HazardStall`, `CsrStall`, `MdStall`, `Forward`, `IfFlush` ... `MemFlush`, `Misaligned`,
`TakeBranch`, `FsmStep`, `MipNext`. The refinement mapping `Bar` says where the sequential
machine is: its next instruction is the oldest one in MEM, EX or ID that is not a bubble
(`PcBar`); registers and CSRs are as write-back leaves them; a misaligned store is complete when
its first half is (the second follows whatever happens, which is what `Refines` checks).

Arithmetic is abstracted to functions on three values that show any exchange of operands:
what is checked is which values meet. `data_stall_i` and the access faults are tied off in the
SoC and left out. External, software and timer interrupts enter the FSM as the fast interrupt
does and are left out.

The module ends with its invariant. `StagesAgree` says what the stage registers hold: instructions fetched from their
addresses (`Fetched`) in program order (`Ordered`), operands and their producers (`Operands`), the halves of a split
access (`Halves`), what CSR instructions have read and what is in front of them (`CsrReads`), the result and the successor
of the instruction that completes (`Results`), and what a trap finds under way (`Entering`). `Benign` says, on the signals
of one cycle, what the core relies on its programs and the times of requests for. `MCPipeline` EXTENDS the module by programs.

### MulDivUnit

The unit on which `Pipeline`'s abstract `mul` and `div` rest, with numbers. One step is one clock cycle
(`Clock`). `Prepare` and `Status` are `MULDIV_in`, `FastMul` and `FastDiv` the table of `MULDIV_ctrl`,
`Partial` and `P` the two stages of `multiplier_32`, `DivStep` and `DivNext` datapath and control of
`divider_32`, `MulOut` and `DivOut` the sign corrections, which look at the operands as they
stand at the end. The core is the environment: it holds a request until `muldiv_done` and may have the
next one ready at once. A word has four limbs of `Limb` bits, 8 in the code. Powers of two are a
function (`Pow`) that an assumption describes, so that the module can be proved about.

### X2xAccelerator

One step is one clock cycle (`Cycle`): an action of the state machine (`Idle`, `Prng`, `FetchData0`
... `Done`, named after the states of `x2x_acc_fsm.sv`) and one bus access of the driver, or none.
`fsm` holds the state and the counters, which wrap at twice the burst as the code's do; `shares` are
the burst registers, `bits` the ones that hold the source of a one-bit conversion; `dma` are the
flip-flops of the two ports, a read's word arriving two cycles after its strobe and a write
strobing one cycle late; `pipe` is what travels through `x2x_acc_op_core`, whose length `Latency`
depends on the operation. `OneBitIndex`, `OneBitAddr` and `OneBitOff` are the address arithmetic of
the one-bit mode (with the stride as a number, where the register holds its logarithm), `EarlyDue` and `EarlyWrite` the writes that overlap with the results, `Refill` and
`AfterBurst` the end of a burst. The driver is `x2x.c` access by access, from `CoreRead` to `Check`,
with the read-modify-write of the control register as it is: fields that cannot be read back are lost.

Data are tags that say where a half word comes from: half `h` of word `k` of a share, what the core
makes of two halves, a bit of the source, a random number. `Conv` yields a result only of the two shares of one
and the same half and `Junk` of everything else, so that any mix-up of words, bits, bursts or shares
ends in the wrong tag. The conversion core is a submodule that is not in the tree: it is external, a
pipeline of `ConvCycles` cycles that is always ready. The random number generator appears as a
choice: where the rejection sampling can reject, a word is ready or late in any cycle.

The accelerator drives the highest two masters of `MemBus`' arbiter. `PortsTakeTurns` says what that arbiter
needs of it: at most one of them strobes, so as long as no other accelerator works, `MemBus!OneIsServed`
serves it and `X2xAccelerator` may model memory as answering at once.

### NttLite, Masking

`NttLite` has an operator for each driver call the programs make, from an accelerator to an accelerator:
a record of the registers and the memories. Its RTL is not in the tree; what an operation computes, and of which
registers, is what the firmware must have of it to work at all: `Backward` halves with `inv2`, `Decompose` divides by `mu` and wraps
at `inv2`, `MakeHint` takes `bound` and `inv2` as limits, `Rejsamp` takes a block's words from
`inv2`. A call with `NTT_LITE_INPUT_DIS` works on what is there. The twiddle memory has two parts that the
programs use differently: `tw` is also an operand, `zeta` holds the factors of Kyber's products.
`Each` is a loop over a vector that may be left early, `Loop` any other.

`Masking` adds the conversion accelerator to the record: the modulus, whether it works on two values at once, and the generator of
shares. A conversion with the modulus set for another one yields `NoShares`. The shares are drawn from a generator
that is seeded with one of `PrngSeeds` or is off, where all of them are zero.

### Kyber, Pasta, Dilithium and the masked variants

Each is its C files function by function, with the accelerator as argument and result, so that no register is
reset but where the code does it. All ring arithmetic is done, in small rings. A hash is the record of what was
hashed; a seed is the function from nonces to what its stream holds; packed coefficients keep their value modulo the power of two.
The two shares of a value are a pair, and a masked hash returns shares made by the sponge.

- `Kyber`: `KemKeypair`, `KemEnc`, `KemDec`, of the ciphertext that was sent or of one changed on its way
  (`Received` is the bound on what can be changed). `MaskedKyber` adds `MaskedKemDec`: decryption with roundings of shares (`CompressShares`), encryption with
  masked noise, the comparison of shares with a public ciphertext by sums in a larger prime (`Compared`) and the test of the sum for zero.
- `Pasta`: `EncryptBegin`, a step for each round, `EncryptEnd`, and the same on shares. The rows of a matrix lie
  in one buffer of `2 * N` coefficients, overlapping, as in `pasta_poly_matmul` (`RowAt`).
- `Dilithium`: `Keypair`, `SignBegin` (up to the label), `SignAttempt` (from
  the label to a `goto rej` or the end) and `Verify`, of the signature in memory or of one that was changed on its
  way: any encoding of hints, other messages, other coefficients. `MaskedDilithium` adds `MaskedSignBegin` and `MaskedSignAttempt`.

Each module ends with a reference: the scheme in plain polynomial arithmetic, without transforms, registers, buffers
or shares (`Encryption`, `Decryption`; `KeyStream`; `Valid`, `Attempt`), and its properties compare the two.
For a masked call the reference is the same: this is how masked and plain functions are shown equal.

### KyberVictims, DilithiumVictim, Firmware

The measured programs, command by command: make shares of the host's seed, make and use shares of a seed of zeros, run one
function of the modules above. They are modelled as built with `TTEST` where the function measured would leave early:
the comparison of a decapsulation succeeds and a signing attempt is not rejected.

`Firmware` composes the programs. `Load` replaces the program in memory at any time, also in the middle of a
call: the loader resets the core and the accelerators' registers, but not the memories of the accelerators (`AfterLoad`),
which the next program finds as the last one left them. The measured programs run on the board of
the capture and replace only each other (`Measured`).

## Runs

All parameters are in the `.cfg` files. States are distinct states; the longest runs, `pipeline` and `firmware`,
take two to three minutes each with two workers.

| Run | Question | Bounds | States |
|---|---|---|---|
| `fifo` | Does the dual-clock FIFO implement the queue, are its flags conservative and up to date in the end? | depth 4, two data | 49 k |
| `fifo_gray` | Do Gray-coded pointers behave as positions? | 3 address bits | 21 k |
| `boot` | Do loader and core stay in step; does an undisturbed upload install its image; does repeating help after a fault? | three images, one fault at any point | 279 k |
| `uart_serial` | Does every byte arrive, in order, with drifting clocks? | 3 data bits, 8 cycles per bit, drift 1 | 12 k |
| `membus` | Do loads return their words, do acknowledges mean what they say, is program memory guarded? | a ROM word, a RAM word, two data words, two masters | 10 k |
| `link` | Does a host that waits for DONE read its own whole response? | FIFO depth 4, lines and responses of 4 | 12 k |
| `pipeline` | Do programs run sequentially, whatever their operands, stalls and flushes; with interrupts at any cycle; with exceptions, handlers that change `mepc`, and changes of `mstatus`; do the stages agree, do these programs keep to what the core relies on? | three suites of programs: four instructions of 10 kinds; three of 8 kinds with two interrupts; four of 9 kinds with traps | 1.07 M |
| `x2x` | Is every word of a conversion its own, and does every call return? | bursts of 4 words, calls of 1 and 4 bursts, one call of each kind of opcode, a power of two and a pair of primes, in place or not | 274 k |
| `core_units` | Does every multiplication and division on every pair of operands give what the instruction set says, is each round of the divider exact; does every load and store move what it would in a memory of bytes? | words of 4 bits, the second and later operations on 0, 3 and 13; two words with bytes of one bit, all contents | 168 k |
| `firmware` | Does every call of Kyber, PASTA and Dilithium, plain or on shares, and every function measured, compute what its scheme says, whatever ran on the accelerators before? | Kyber: Z_97[x]/(x⁴+1), rank 3; Dilithium: Z_97[x]/(x²+1), two by two; PASTA: Z_17, halves of four, three rounds; two keys of each, two seeds of the generator; ten programs | 49 k |
| `x2x_prng` | Does a random read write only the words of its burst? *violated* | two bursts, a prime modulus | |
| `dilithium_hints` | Is every signature made valid? *violated* | as `firmware`, Dilithium alone | |

### Why the bounds are enough

- **FIFO.** The pointers are two clock edges behind; depth 4 is more than the two positions a
  side can move meanwhile plus one, so full, empty and every stale combination in between occur,
  and the ring wraps. The proofs hold for every depth. Two data values are enough to tell a lost or
  repeated byte apart, since the queue does not depend on its contents.
- **UART.** Eight cycles per bit leave the receiver's middle at 3, more than the drift: the code's
  520 (60 MHz) and 347 (40 MHz) leave far more, and the proofs hold for them. Three data bits make a first, a middle and a last.
- **Boot.** One section of two bytes, one empty, one that contains the loader's own command:
  lengths 0, 1 and 2 exercise the limit comparison. Both memories are tracked for three bytes so that one
  past the end is seen. One fault may strike at any step of any upload, so that each kind meets each state of
  script, loader and boot ROM; that loader and core stay in step is proved for any number.
- **MemBus.** Words and addresses are compared and never computed with. Two masters make the
  arbiter choose; the proofs hold for any number.
- **Link.** The FIFO is filled exactly by the response and by the line. The depth of the code is
  128; what matters is the number of synchroniser stages and the order in which flag and bytes
  are sent, and these are the code's. The safety properties are proved for every depth and length.
- **Pipeline.** Five stages hold five instructions: the programs of four are followed by a loop, preceded
  by the jump that enters them and interrupted by handlers, so that all stages are filled with
  chosen instructions. A CSR hazard reaches three instructions back, a forward two. A division takes
  `DivCycles` = 4 cycles instead of more than 32: enough for the producers of its operands to leave the
  forwarding paths. Two interrupts let the second request arrive while the first is being served.
  The line is raised only while `mip` is clear: the code's bit is already set otherwise and
  the request has no effect of its own.

- **LoadStoreUnit.** Lanes move bytes and never look into them but at the last one's sign, so two bytes are enough. With two words, every
  split access meets the end of the address space; that all words but two are left alone says something only of three words, and
  the theorem holds for any number.
- **Firmware.** Parameters stand in the relations the code needs of them (`KyberParams`, `CarrierParams`, `DilithiumParams`, `PastaParams`): `PSI`
  is a root of -1, 2 `GAMMA2` divides `Q` - 1, two roundings wrap, sums of differences fit the larger prime.
  Kyber has rank 3 because the code is right for no other (below). With `K` = `L` = 2, every loop of Dilithium has a first
  and a last polynomial, the one that loads a factor and the one that finds it loaded. PASTA's last three rounds differ (S-box of one kind, of the other, none),
  and three are all of these and a first one. Dilithium's keys were found by a search: with them, signing meets success and
  the rejections for `z`, `w0` and `t0` (one of them for the second key alone). More than two hints do not occur in `firmware`, so `SignedIsValid`'s
  exception stays idle; they occur in `dilithium_hints`. Hint encodings received have counters up to one too many. Kyber's noise is small enough to decrypt, as in the scheme.
  The generator of shares has two seeds, and is off in the captures: each function is checked with shares that differ
  and with shares of which one is zero. It is taken back after a call or capture, and what a call returned is forgotten at the next, so the states are
  those of the accelerators.
- **Multiplier and divider.** Four limbs of one bit: each product of limbs has its own place, all signs,
  the least number and the trivial operands occur, and a division has a first, a last and middle rounds.
  All 2048 requests come first after reset; three operands are enough for what an operation
  leaves to the next (a quotient to be cleared, products in the registers). `RoundsAreExact` is proved for every width.
- **X2X.** Bursts of 4 words (the code's: 16) are more than the pipeline is longer than a state, and
  one-bit conversions take four bursts to use up the bits of a pair of words; a fifth would start the same
  again. The code's condition on the latency, that all dummies leave the pipeline before the next burst's
  results, holds for the configuration as for the code (`Latency` at most `BurstLen` + 1: 5 here,
  against a burst of 16). One function of each opcode runs with every mode that differs for it; the
  others differ in which half of the core is used and in fields that are not looked at. The
  same module has passed with all twelve functions, both other kinds of modulus, strides of 1, 2, 4 and 8 and eight bursts,
  in larger runs without liveness (3.3 million states) that take too long to repeat at every change.
  `LenMod` = 32 exceeds the longest operation, as 2^LOGL does; `PrngInit` only has to be longer than
  a call's first accesses, so that a start can meet a seed being loaded.

### What the pipeline run leaves out, and why

The core has sequences that it does not execute as a sequential machine would (below). A run that
contained them would stop at the first of them, so `MCPipeline` leaves them out by named
predicates, and everything else is checked: `NoGhost` (a CSR instruction that waits behind a branch
which was not taken), `NoLostEcall` (an `ecall` directly behind an instruction that is held),
`Gap` (a write of `mepc` shortly before `mret`) and `Lead` (instructions that depend on `mstatus` at
the place `mret` returns to). In `Suites`, interrupted programs have no division and those with traps no interrupts,
for the same reason. Setting `Quiet` to FALSE, adding kinds to a suite or raising its `irqs` shows each of them.

`Benign` is the exact form of these conditions, and does not depend on how the programs were chosen; the run checks that the
programs keep to it, and the proofs assume it. No part of it can be spared: on wider suites,
under `Benign` as a constraint, TLC finds `StagesAgree`, `Refines` and `TrapIsRecorded` to hold,
and `Refines` or `TrapIsRecorded` violated without any one of its parts:

| Part of `Benign` | What happens otherwise |
|---|---|
| a branch is decided by an instruction, not a bubble | a bubble jumps on stale operands (`NoGhost`) |
| an exception finds no multiplication, division or split access in front of it | the `ecall` is lost (`NoLostEcall`) |
| an exception finds no CSR access in front of it that writes what the trap writes | the trap's mark is overwritten |
| an `mret` finds nothing in front of it that stalls | it jumps without restoring `mstatus` |
| an `mret` finds no write of `mepc` in front of it | it jumps to the old address (`Gap`) |
| no request while a trap is being entered | the request, and an instruction, are lost |
| a request finds interrupts enabled in the write-back stage too | a trap right after interrupts were disabled |
| `csrsi` and `csrci` do not follow an `mret` at once | they see the handler's `mstatus` (`Lead`) |
| no multiplication starts while a flushed one runs | it gets the flushed one's result |

### What the X2X run leaves out

`Lawful` names what a program may ask: operations of whole bursts (`x2x_core` does not check), one-bit
conversions of whole source words, and no one-bit conversion of two values at once by a power of
two, which the hardware decodes but no program uses: its results are counted twice as
fast as its words and run past the burst. `Quiet` leaves out random reads of more than one burst when words can be late,
which `x2x_prng` shows to fail.

### Fairness

- `AsyncFifo!FairSpec`: each clock keeps ticking (also without a transfer); no fairness of
  requests. A byte becomes visible, space becomes visible.
- `Cw305Link!FairSpec`: both clocks tick and the program on each side makes its next access in
  the end; neither the firmware nor the host sleeps for ever.
- `UartSerial!FairSpec`: both clocks tick, and not every cycle is a bus access.
- `BootLoad!FairSpec`: the loader, ROM code and a started script go on, and time passes.
  `RetrySpec` adds an operator who uploads again: only `RetriesInstall` and nothing else needs him,
  and the other properties hold with him too.
- `Pipeline!FairSpec`: the clock ticks without a request; a program with interrupts enabled
  gets out of its stalls.

- `X2xAccelerator!FairSpec`: the clock ticks, a program that may go on does so in the end, and a
  random word comes in the end: an LFSR that was seeded leaves every rejected value. (One that was
  never seeded is all zero, see below.)

No fairness is assumed of data, of faults or of one side's being faster than the other.

### Deadlock

Checked in every run; nothing in the system ever stops for good.

## Proofs

Checked by TLAPS, with Z3, Zenon and LS4, for every value of the constants that satisfies the
modules' named assumptions.

**AsyncFifoProofs** (assumes a depth of at least one and a non-empty set of data).
`FifoInvariant` proves `IInv` inductive: besides the types, the six copies of the pointers lie in
order around the ring (`PointersOrdered`: from the read pointer seen by the writer, through its first
flop, the read pointer, the write pointer seen by the reader and its first flop, to the write
pointer, at most a depth in all), and a low flag agrees with the synchronised pointer it was
computed from. The order is what makes it inductive: a stale pointer may be replaced by a newer
one only because it lies behind it. `FlagsSafe` (a low full flag means room, a low empty
flag means a byte) follows. `FifoImplementsQueue` is the refinement: `ContentsPush` and
`ContentsPop` say what a write and a read do to the sequence between the pointers, `CellsDiffer`
that a write hits no unread cell, `StepRefines` puts together every combination of transfers in a
cycle. The lemmas on positions (`RingTypes`, `WriterMoves`, `ReaderMoves`, `FlagTests`) hold the
modular arithmetic. `Stored` says that a FIFO holds the elements of a sequence from a place on; `StepStored` is what a step
with whatever both sides ask for makes of that, for the modules that have a FIFO inside.

**AsyncFifoGrayProofs** (assumes what `Pow` is, and `AsyncFifo`'s assumptions). `GrayImplementsFifo` is the refinement of
`AsyncFifo` by the Gray-coded FIFO, for every width of the pointers. A Gray code is taken bit by bit (`GrayBit`: bit `k` is the parity of the sum of the number's quotients by
`2^k` and by `2^(k+1)`). `GrayInjective` gets the number back from the top bit downwards; `OneBitChanges` and `GrayWraps` say that one step of a counter, also
past the end, changes one bit: the one at which the carry stops (`Carry`, `CarryStops`). So bits caught one by one at coincident edges
are the old code or the new (`CaughtIsOldOrNew`), which is what `AsyncFifo` chooses between. `LapCode` and `GrayLap` are
the full test, which compares codes with two bits inverted.

**Cw305LinkProofs** (assumes `Regular`: a line fits into the FIFO, `Gap >= 2`, the host waits for DONE and
sends commands that exist). `LinkInvHolds` proves `LinkInv` inductive for every length of a command
and of a response, every FIFO and every phase of the two clocks; `IsDoneHolds`, `TriggerHolds`, `ResponseHolds`
and `NothingDroppedHolds`, the safety properties of `link`, follow. The argument has three parts.
`Command` and `Reply` say where each byte of a command and of its response is; they are kept by `StepStored`, taken
from `AsyncFifoProofs` by INSTANCE for each FIFO. `Visible` says that DONE does not overtake the pointers: whoever sees it
behind its two flip-flops sees the pointers, behind theirs, as they are. So a full flag is low before the host writes and an
empty flag low before it reads, which neither looks at. `Clearing` says what is left of the last DONE: `Left(e)` is how far the request to clear it
has come after `e` edges of the bus clock, and after the rounds of two transactions and the first byte of a command it has gone from both clocks.
That is where `Gap` is needed. `NextIsEdge` first brings the three actions, and the choices of
coincident edges, to one form (`Edge`), about which everything else is proved. No part of `Regular` can be spared: TLC finds
`ResponseIsMine` violated with `Gap = 1`, `IsDoneMeansDone` with `Gap = 0`, and `NothingIsDropped` with
`DataLen + 2 = Depth + 1`. (The response may be longer than the FIFO: then the link stops, and what
is proved stays true.)

**UartProofs** (assumes `DriftAssumption`: twice the drift within a frame and one cycle fit into half a bit).
`OneFrameHolds` and `DeliversHolds` follow from `UInv` for bytes of any size, any rate and any drift. `UInv` is a case distinction over
where a frame is: no frame (`Quiet`), a start bit not yet seen (`Waiting`), both ends in it (`Receiving`), the receiver
ahead (`Delivered`), the transmitter ahead (`Over`). In `Receiving` the distance of the two ends is what the receiver was late
at the start bit and what the clocks have drifted since, so the receiver looks at the line only while it shows the
bit that the receiver takes it for (`Samples`). The bound is tight: at one cycle of drift more, TLC finds a byte corrupted. A configuration that
breaks the assumption is refused before it is checked.

**BootLoadProofs** (assumes bytes below 256). `Strong` adds to `IInv` the set of
the loader's states, the cause bit's values and what `cpu` can be. `LoaderInvariant`, `GateIsSafe` and `ProgramIsSafe` follow for
all images, memory sizes, operators and numbers of faults. Most actions do not touch the three
variables concerned (`OthersFrame`).
`CompleteImagesHold`, of the run's `EntersCompleteImages`, needs more: `Careful` (sections that fit into the memories, with
at least one instruction; an operator who waits; no dash typed to a program) and the invariant `Phases`, which says in which of four situations an upload is as long
as nothing has failed. In `Loading` the number of bytes still on the wire says how many the UART has taken and, by what is pending, the handler:
`Progress` gives the boot ROM's globals and both memories after that many bytes, and `HandlerStep` takes it from each byte to the next, through
lengths, contents and the change of section. Whoever goes on before the end (host, loader) would need a line or a second that cannot have come.
`FilesAre` and `LengthIsRead` say that what the boot ROM puts together from four bytes is the length the host took apart.
No part of `Careful` can be spared: TLC finds `EntersCompleteImages` violated with `Patient = FALSE`, with a dash in `Typed` and with
a program without instructions.

**CoreUnitsProofs**, on `LoadStoreUnit` (assumes at least two words). `StoresAreBytewise` and `LoadsAreBytewise` go through lengths and
offsets; `AccessesAreBytewise` is the run's property for every size of memory and of byte.

On `MemBus` (assumes that the address ranges are disjoint and that there is a DMA master).
`CoreInv` relates the registered strobe and the two acknowledges to the address of the last
request: that program memory's acknowledge is stale only when its data are not selected is the
strengthening `LoadsAreRight` needs. `DmaInv` does the same for the arbiter; `LeastMaster`
shows that its two priority selections agree (`AcksAreRight`, `OneMasterIsServed`).
`GateHolds` is an action property and needs no invariant.

On `MulDivUnit` (assumes what `Pow` is, and that operands are words). `DivInv` says what the divider
holds in each of its states; `RoundsAreExactHolds` follows for every width and every sequence of operations.
The strengthening is in `First` (a clear quotient before the first round, whatever was asked before) and
`Nonzero` (the fast results keep a divisor of 0 away). `DivisionUnique`, `NextBit` and `Round` are the
arithmetic: a round takes the next bit of the dividend and leaves a remainder below the divisor, so nothing is lost
when it is shifted within a word (`StepIsRound`). `ResultIsIsaHolds` goes on to the answer: for every width of a word and
any history, the unit gives what the instruction set says except for the operands in `Misjudged`, and errs for each of those.
`Limbs`, `Cross` and `Product` are the multiplier (sixteen partial products of limbs, added in two stages, are the product);
`PowSum` is the one fact that needs induction, made from the library's theorem that `<` on the naturals is well founded (`Least`,
`SetInduction`). `SignedProduct` and `SignedDivision` are the sign corrections, `FastMulIsIsa` and `FastDivIsIsa` the table.
`UnitInv` adds to `DivInv` that the core holds its request and that the multiplier's stages belong to it.

**PipelineProofs** (assumes types of the constants, and that programs are entered by a jump). All statements about the core have the form
`Spec /\ []Benign => ...`: the code leaves what `Benign` says to its programs, so nothing can be proved without it, and the part that each theorem cannot do
without is shown above. `PipelineInvariant` proves `StagesAgree` inductive under it, for all programs, numbers of registers,
addresses of handlers and lengths of divisions. The cycle is taken apart first, by what happens to each stage (`IdMoves`, `ExMoves`, `MemMoves`, `WbMoves`, `CsrMoves`,
`MdMoves`), which hides the nested conditions of the code; then each part of the invariant has a lemma of its own. The strengthening is mutual:
operands in EX are right (`Operands`) because the two instructions in front of it are the ones in front of it in the program (`Ordered`) and their results are their own (`Results`).
`ResultsAreOwn` and `TrapsAreRecorded` follow. `PipelineRefines` is the refinement of `Hart`: when an instruction leaves MEM, the sequential machine
executes it (`Executes`); when a store or the first half of one is issued, it executes that (`IssuesStore`); when the trap FSM leaves
`STAND_BY`, it enters the trap (`EntersTrap`); otherwise it stands still (`SeesNothing`). Two of these may come in one clock cycle; `Mid` is the state
between them. `PlainProgramsRun` needs no `Benign`: programs of arithmetic, branches, multiplications,
divisions, loads and stores, without interrupts, keep to it by themselves (`CalmIsBenign`), and so always see the sequential machine. Of other
programs, that they keep to `Benign` is checked by TLC for those of `MCPipeline`.

**X2xProofs**, the ports (no assumption but the module's own). `Apart` says that a word waits at no more than one DMA
port and at none in a state that reads. Its strength is that it forgets the counters: what keeps the
ports apart is only the order of the states, and the proof shows it for every burst length, latency,
mode and sequence of calls. The step `PutData1` is where `ST_DELAY` is needed. `PortsTakeTurnsHolds` follows.

**X2xProofs**, the result (assumes `Regular` of `X2xInvariant`, which `X2x.cfg` satisfies, and the code with any core of at most 14 cycles: the longest
operation fits `LenMod`, a stride divides the bits of two words, `Latency` is at most `BurstLen` + 1, and random reads are `Quiet`: without that
the result is wrong, as `x2x_prng` shows). `ResultIsOwnHolds` is for every length of a burst and of the core, every set of operation lengths and strides, every
sequence of calls with every modulus, and every choice of late random words. Its invariant `IInv` was first an invariant of a TLC run of the `x2x`
configuration. It has these parts:
`Place` says where word `o` of a result goes. In one-bit mode that is an exchange of the digits of `o`, which the hardware follows with a counter and
an offset (`OffAt`); `PlaceInjective` and `PlaceOnto` show that no two words go to one place and that none is left out.
`MemHolds` says that the first words of each share are in memory, the last perhaps still waiting at its port, and that nothing else was written.
`Numbered` numbers the stages of the core from its end: what is in flight
is the operand of exactly the number under which it will be stored, whatever gaps late random words leave, and
dummies have numbers before the first or behind the last. A random read by which no word is late has no such order, because its
core is never emptied; there everything in flight is random (`AllRandom`), and nothing more is asked of it. There
is one predicate for each state of `x2x_acc_fsm`, and one lemma that a cycle in that state keeps it or
establishes the next one's. `InPut1` is where the length of the core counts: putting out the second share lasts a burst,
so the dummies have left before the first result of the next burst is due. `Protocol`, `Settings` and `Contents` are the driver's side: it
writes no register while the accelerator works, each register holds what was asked for by the time the start bit is written,
and what it polls was not left by the call before.

**Only model-checked:** every liveness property, because fairness and ENABLED are out of the prover's
reach: `FlagsCatchUp`, `EveryCommandIsAnswered`, `Arrives`, `UploadInstalls`, `RetriesInstall`, `RequestIsServed`, `CallsReturn`.
That the programs of `MCPipeline` keep to `Benign`. The properties of `Firmware`: what its loops
compute on polynomials is induction over data.

## What the checks found

Two runs show a disagreement between the code and what it says of itself:

- **`x2x_prng`.** `x2x_acc_fsm.sv:592`: the loop that writes early results "can't iterate more than the
  above loop ... some more data to write for share 0 will be left"; `:575`: the "comment applies here as
  well" for random words. After a random burst `PUT_DATA_1` may last one cycle, so that dummies of
  `MASK_WAIT` are still in the pipeline when the next `MASK_SEND` begins, and are counted as results
  of it. If the last random word of that burst is then late, the count passes its limit in `MASK_SEND`,
  where it is not tested; `MASK_WAIT` goes on until the counter has wrapped and writes words behind the burst.
  A dummy made while no word was ready is 0 and counts as a random word. It takes a prime modulus
  (or `prng_read_nonzero`) and more than one burst, as in `fw/src/pasta/masked_poly.c:129`.

- **`dilithium_hints`.** `fw/test/dilithium_test/main.c:182` verifies a signature just made and expects 0. `polyveck_add_make_hint`
  (`polyvec.c:478`) compares `OMEGA` with each polynomial's number of hints and returns the last one's, although `OMEGA`
  bounds all of them together. An attempt with more is not rejected, and `pack_sig` writes positions over the counters behind
  them. The test would have to meet such an attempt, and the one that signs 128 messages
  (`dilithium_mean_sign`) does not verify. `SignedIsValid` says that everything else about a signature made is right.

Further observations, each shown by a change of constants or, for the fast results, by the property itself:

- *Uploads.* With `Patient = FALSE`, `UploadInstalls` fails: an upload within two seconds of the last
  one is swallowed by the load still in progress, and the script prints that it completed. The
  loader does not recognise `--p` (`loader_wb.v:97`): after an image that ends in `-`, a
  repeated upload is missed for ever (such an image is not in `MCImages`).
- *The link without waiting.* `CheckDone = FALSE` is the default of `CW305_rq` and the repository never
  sets it; then `IsDoneMeansDone` fails, and the script relies on its sleeps. An unknown command
  (`Unknown = TRUE`) leaves the rest of its line in the FIFO, each byte of which is an unknown command
  of its own that sets DONE. A response of one byte more than the FIFO (`RespLen = Depth + 1`) waits for a reader
  who waits for DONE.
- *The flag by itself.* `async_reg.v:7`: "The flag remains high until cleared." The request that
  clears a flag stays in the synchroniser for some edges; a flag set in that time is cleared by it,
  unread (`DoneFlag` by itself with `Spec` and the property `RemainsHighUntilCleared`). The link is safe
  from it, because a command takes longer than the request lives (`Gap`), which `link` shows.
- *The X2X driver.* `x2x_set_modulus` sets `REJ_SAMP` when asked not to reject, but `x2x_core` or-s its bits to the
  control word it has read, and a read does not show that bit (`x2x_acc_ctrl.sv:286`), so every operation rejects.
  The `RESET` bit it writes exists nowhere in the accelerator. A one-bit conversion with the result on the place of its source
  would overwrite bits still to be converted; no function offers it.
- *Fast results.* `MULDIV_ctrl.v:43` answers for operands 0, 1 and -1 without computing. It takes the high word of a
  product with 1 or -1 to follow from that operand alone: `mulh` of 1 and -5 gives 0, of -1 and -5 gives -1,
  `mulhsu` of -5 and 1 gives 0; and `div` and `divu` of 0 by 0 give 0. The instruction set has -1, 0, -1 and all ones, and
  programs are compiled for it (`-march=rv32im`, `sdk/toolchain/makefile:27`). `Misjudged` is exactly the set of these
  operands: `ResultIsIsa` says that the result is wrong for them and right for all others.
- *Bubbles.* `core.v:82`: a dummy in EX is "a flushed instruction, nop". When a CSR
  instruction waits in ID, EX holds the branch before it with its control bits; the
  branch is decided again on whatever the operand registers hold (`Quiet = FALSE` in `pipeline`
  violates `Refines`).
- *The core.* `irq.h:2` says that the macro "disables interrupts globally"; an interrupt that meets
  `csrci mstatus` in write-back is still taken, after the instruction is complete
  (`csr_unit.v:114`; `Refines` with `csrci` among the interrupted kinds). A division that an interrupt
  flushed runs on, and the next one takes its result (`MULDIV_ctrl.v:270`; `ResultIsOwn` with a `mul` in the handler). A request that
  arrives while an exception is being entered is lost, and with it the instruction in MEM (the suite with
  traps and `irqs |-> 1`). An `mret` behind a `mul` jumps without restoring `mstatus`. A CSR write in
  write-back beats the trap that is being recorded (`csr_unit.v:281`). The two instructions
  after an `mret` see the handler's `mstatus`. A misaligned jump target never traps
  (`csr_unit.v:72` masks it by the branch itself). A load flushed by an interrupt is executed
  twice, which shows for registers that a read clears.
- *The machine timer* (by reading, it is not modelled). `mtime_registers_wb.v:145` compares the address with the
  contents of `mtimecmp`, where the other branches compare it with a register's address, so the low half of `mtimecmp` reads
  as its high half. A write to any of its registers takes the place of that cycle's count.
- *Kyber's rank.* `params.h:5` leaves `KYBER_K` to the build, but `polyvec.c:24`, `:27`, `:47`, `:50`, `:104` and `masked_polyvec.c:68` place the polynomials of a compressed
  vector at its length divided by 3. With `KyberK` other than 3 the offsets are wrong; the model has the vector's coefficients in
  place, and only 3 is faithful.
- *The generator of shares.* After a reset, and where it is turned off, its register is all zero and every number it
  draws is zero (`x2x_acc_rng.sv:123`). `x2x_prng_read_nonzero` then polls for ever (`x2x.c:100`), and with it masked decapsulation: the
  tests' main programs seed it first (`fw/test/kyber_test/main.c:366`). Of the measured programs, only `kyber_indcca_dec_ttest` can be built
  (`TTEST_PRNG_OFF`) without the polling; it is modelled without that, and `IndccaDecGetKey` needs the generator on.
- *Measured programs*, by reading. `kyber_zerotest_mul_ttest.c:34` assigns through `*a[i][1]`, which clears the second share's value where the dummy elements (`masked.h:21`)
  are meant, and its second iteration writes behind the share; with the generator off, which is how its notebook begins, it polls for ever as above.
  `kyber_indcpa_enc_cmp_ttest.c:123` registers the command that seeds the generator with no data, while `ttest_trace_collector.py` sends eight bytes: the generator is never
  seeded. In `kyber_poly_compress`, the result's address is the null pointer, which the driver takes as `NTT_LITE_OUTPUT_DIS`.
  `kyber_get_noise` calls a function that does not exist (`masked_poly_getnoise_eta2`), and `dilithium_poly_decompose` one that is commented out.
- *The bus.* A program that loaded from program memory and then from data memory could get the
  wrong word (`memory_2rw_wb_dma.sv:239`): only the linker scripts keep programs from it.

## What is not modelled

- Physical effects: metastability beyond "old or new", glitches, setup times, power.
- Timing side channels and masking quality: statements about distributions, not about steps.
- The NTT and Keccak accelerators' RTL (not in the tree), their status polling, and the inside of masked sponges.
- Of the schemes: byte layouts, collisions of hashes, how a challenge is drawn, the framing of `crypto_sign` and `crypto_sign_open`, PASTA streams of
  which more than four blocks would be needed.
- Five of the measured programs, for the reasons above: a model of them would have to invent what they are meant to do.
- The machine timer, the timer and its driver.
- Fetch port, access faults, external and software interrupts (tied off).
- Debug port, GPIO, tests, benchmarks, notebooks, generated Vivado projects, the Unity framework.
- The SimpleSerial 2.1 framing, which is not compiled in.

## Plan

Done, in this order, the behaviour on which everything else rests first:

1. `FifoQueue`, `AsyncFifo`, `AsyncFifoGray`, with proofs.
2. `BootLoad`, with proofs.
3. `UartSerial`, with proofs.
4. `MemBus`, with proofs.
5. `DoneFlag`, `Cw305Link`, with proofs.
6. `Hart`, `Pipeline`, with proofs.
7. `X2xAccelerator`, `X2xInvariant`, with proofs.
8. `MulDivUnit`, with proofs.
9. `NttLite`, `Dilithium`.
10. `Masking`, `Kyber`, `MaskedKyber`, `Pasta`, `MaskedDilithium`, `Firmware`.
11. `KyberVictims`, `DilithiumVictim`.
12. `LoadStoreUnit`, with a proof.

To do:

13. `MachineTimer`: 64-bit compare written in halves against a counting register, of which the low half cannot be read back
    (`mtime_registers_wb.v:145` compares the address with the contents of `mtimecmp`); the timer and its driver.
14. The SimpleSerial parser byte by byte, with unknown commands and lines cut short.
15. Proofs: that the programs of `MCPipeline` keep to `Benign`.

## Use

    tlc -workers 2 -config AsyncFifo.cfg AsyncFifo.tla
    tlapm AsyncFifoProofs.tla

`PROJECT.json` names, for each run, its module and configuration, and for each definition the
lines of the source it models.
