--------------------------- MODULE X2xAccelerator ---------------------------
(***************************************************************************)
(* The share conversion accelerator (peripherals/x2x_wb/acc) and its       *)
(* driver (sdk/lib/x2x.c), clock cycle by clock cycle: the control         *)
(* register, the state machine with its counters and its burst registers,  *)
(* the two DMA ports, the pipeline of the conversion core and the random   *)
(* words that may be missing in any cycle, and a program that sets a       *)
(* modulus, seeds, and calls one conversion after another.                 *)
(*                                                                         *)
(* Words are pairs of 16-bit halves.  A half is a tag: half h of word k of *)
(* a share of the source, what the core makes of the two shares' halves, a *)
(* bit of the source made into a share, a random number.  What the core    *)
(* computes is another project's (X2X_32b_2SHARE_HALFCYCLE_STREAM); what   *)
(* is said here is which operands meet in it, and where its results go.    *)
(***************************************************************************)
EXTENDS Integers, Sequences, FiniteSets

CONSTANTS BurstLen,    \* BURST_LEN, words of a share that are held in registers
          LenMod,      \* 2 ^ LOGL, the width of ctr_array
          PrngInit,    \* PRNG_INIT_CC
          ConvCycles,  \* cycles from a datum's entry into the conversion core to its result
          Calls,       \* the functions of x2x.c that the program uses
          Moduli,      \* the kinds of modulus the program sets
          Bursts,      \* lengths of the operations, in bursts
          Strides,     \* of the one-bit conversions: 2 ^ log_stride
          Quiet        \* are the operations left out in which random words of a burst may be late?

ASSUME X2xAssumption ==
    /\ BurstLen \in Nat /\ BurstLen >= 2 /\ PrngInit \in Nat /\ ConvCycles \in Nat \ {0}
    /\ Bursts \subseteq Nat \ {0} /\ Strides \subseteq Nat \ {0}
    /\ Moduli \subseteq {"pow2", "pow2_dual", "prime", "prime_dual"}

VARIABLES fsm,     \* state and counters of x2x_acc_fsm
          init_q,  \* its flag that the next result is a dummy's
          shares,  \* its burst registers
          bits,    \* and the registers that hold the source of one-bit conversions
          dma,     \* the two x2x_acc_dma
          pipe,    \* what is on its way through x2x_acc_op_core
          mem,     \* data memory: a region for each buffer
          ctl,     \* the register file, x2x_acc_ctrl
          done_q,  \* its DONE flag
          pulse,   \* its self-clearing bits
          rdata,   \* its read register, the bits of CTRL
          drv      \* the program: where it is, and the call it makes

hwVars == <<fsm, init_q, shares, bits, dma, pipe, mem>>
vars   == <<hwVars, ctl, done_q, pulse, rdata, drv>>

Shares == {0, 1}
None   == <<"none">>
Zero   == <<"zero">>
Junk   == <<"junk">>
Blank  == <<"blank">>
Random == <<"random">>
Src(i, k, h) == <<"src", i, k, h>>
Out(i, k, h) == <<"out", i, k, h>>
Bit(i, c)    == <<"bit", i, c>>
Both(x)      == <<x, x>>

MaxOf(S) == CHOOSE n \in S : \A m \in S : m <= n

\* The buffers: two for the sources, two for the results, each with room for one burst more
\* than the longest operation; a pointer that was never set points to none of them.
Regions == {"a", "b", "c", "d"}
Words   == 0 .. (MaxOf(Bursts) + 1) * BurstLen - 1
Fresh   == [r \in Regions |-> [k \in Words |->
              CASE r = "a" -> <<Src(0, k, 0), Src(0, k, 1)>>
                [] r = "b" -> <<Src(1, k, 0), Src(1, k, 1)>>
                [] OTHER   -> Both(Blank)]]

\* Cycles from x2x_valid_data to x2x_valid_result: a register before and one after, and
\* between them x2x_acc_randgen, x2x_acc_refresh, the conversion core, or the last two.
Latency == CASE ctl.op = "X2X"    -> 2 + ConvCycles
             [] ctl.op = "REFX2X" -> 3 + ConvCycles
             [] OTHER             -> 3
MaxLatency == 3 + ConvCycles

-----------------------------------------------------------------------------
\* x2x_acc_fsm: what depends on the mode.
dualprime == ctl.dual /\ ctl.prime
HalfWise  == ctl.dual /\ (ctl.onebit \/ ctl.prime)
Items     == IF HalfWise THEN 2 * BurstLen ELSE BurstLen   \* conversions in a burst
Fetched   == IF ctl.onebit THEN 2 ELSE BurstLen            \* words fetched for it

ctr_array  == (fsm.iter * BurstLen) % LenMod
Inc(n)     == (n + 1) % (2 * BurstLen)

Valid  == pipe[Latency] # None /\ ~init_q
Result == pipe[Latency]

\* Can the rejection sampling find no random word in a cycle?  x2x_acc_rng.
RefLate == ~(ctl.dual /\ ~ctl.prime)
           /\ ((ctl.prime /\ ~ctl.rej) \/ (ctl.op = "PRNG" /\ ctl.share))
X2xLate == ctl.b2a /\ ctl.prime /\ ~ctl.rej
CanBeLate == CASE ctl.op = "X2X"    -> X2xLate
               [] ctl.op = "REFX2X" -> RefLate \/ X2xLate
               [] OTHER             -> RefLate
Ready == IF CanBeLate /\ fsm.st \in {"MASK_SEND", "MASK_WAIT"} THEN BOOLEAN ELSE {TRUE}

\* Where word n of a burst is written.  In one-bit mode the bits are converted in the order
\* in which the words of the result are written: those whose numbers leave the same remainder
\* by the stride follow each other, and off counts the remainders done.
OneBitGroup  == IF ctl.dual THEN 2 * BurstLen ELSE 4 * BurstLen
OneBitRun    == OneBitGroup \div ctl.stride
OneBitAddr(n, off) == LET o == ctr_array + n IN
    (o \div OneBitGroup) * OneBitRun + (o % OneBitRun) + off
OneBitOff(n, off) == LET o == ctr_array + n IN
    IF (o % OneBitRun) # OneBitRun - 1 THEN off
    ELSE IF (o % OneBitGroup) \div OneBitRun = ctl.stride - 1 THEN 0
    ELSE off + ctl.len \div (IF ctl.dual THEN 2 * ctl.stride ELSE ctl.stride)
OutAddr(n, off) == IF ctl.onebit THEN OneBitAddr(n, off) ELSE ctr_array + n
NextOff(n, off) == IF ctl.onebit THEN OneBitOff(n, off) ELSE off

\* Which bit of the fetched words is converted as number n of the burst.
OneBitIndex(n) ==
    LET first == ctr_array * (IF ctl.dual THEN 2 ELSE 1)
        scaled == ((first + n) % (4 * BurstLen)) * ctl.stride
    IN ((scaled % (4 * BurstLen)) + scaled \div (4 * BurstLen)) % (4 * BurstLen)

\* Word n of a share's burst registers; the counter is wider than the burst.
Held(i, n) == IF n < BurstLen THEN shares[i][n] ELSE Both(Junk)

-----------------------------------------------------------------------------
\* x2x_acc_op_core and the core behind it: what becomes of the halves x and y of the two shares.
Conv(i, x, y) ==
    IF x[1] = "src" /\ x[2] = 0 /\ y = (IF ctl.share THEN Zero ELSE <<"src", 1, x[3], x[4]>>)
    THEN Out(i, x[3], x[4]) ELSE Junk
Convert(v, w) == [i \in Shares |-> <<Conv(i, v[1], w[1]), Conv(i, v[2], w[2])>>]

\* Bit n of a group, when the registers of both shares hold words of the same number.
ConvertBit(n) ==
    LET half == 2 * BurstLen
        v == bits[0][n \div half][1]
        w == bits[1][n \div half][1]
    IN [i \in Shares |-> Both(IF v[1] = "src" /\ v[2] = 0 /\ w = <<"src", 1, v[3], v[4]>>
                              THEN Bit(i, v[3] * half + (n % half)) ELSE Junk)]

\* What MASK_SEND puts into the core for number n of the burst.
Operand(n) ==
    CASE ctl.op = "PRNG" -> [i \in Shares |-> Both(Random)]
      [] ctl.op # "PRNG" /\ ctl.onebit -> ConvertBit(OneBitIndex(n))
      [] ctl.op # "PRNG" /\ ~ctl.onebit /\ dualprime ->
            LET h == (n % 2) + 1 IN
            [i \in Shares |-> Both(Conv(i, shares[0][n \div 2][h], shares[1][n \div 2][h]))]
      [] OTHER -> Convert(shares[0][n], shares[1][n])

\* The dummies of FETCH_DATA_1 and MASK_WAIT are made of the random word, which is 0 when
\* there is none.  They have a meaning only for PRNG.
Dummy(rdy) == [i \in Shares |-> Both(IF ctl.op = "PRNG" THEN IF rdy THEN Random ELSE Zero ELSE Junk)]

\* A result goes into the burst registers under its number, of both shares.
Stored ==
    LET w == fsm.w_reg
        j == IF HalfWise THEN w \div 2 ELSE w
        old(i) == shares[i][j]
        new(i) == IF ~HalfWise THEN Result[i]
                  ELSE IF w % 2 = 0 THEN <<Result[i][1], old(i)[2]>>
                  ELSE <<old(i)[1], Result[i][1]>>
    IN IF Valid /\ j < BurstLen THEN [i \in Shares |-> [shares[i] EXCEPT ![j] = new(i)]]
       ELSE shares

-----------------------------------------------------------------------------
\* x2x_acc_dma.  A read strobes at once and its word is valid two cycles later; a write
\* strobes a cycle later unless a read does.
Reading(i, reads) == i \in DOMAIN reads
Writing(i, reads) == dma[i].wr # None /\ ~Reading(i, reads)
Write(m, i, reads) ==
    IF Writing(i, reads) THEN [m EXCEPT ![dma[i].wr[1]][dma[i].wr[2]] = dma[i].wr[3]] ELSE m

\* The program refills its buffers between two calls.
Memory(reads) == Write(Write(IF drv.pc = "idle" THEN Fresh ELSE mem, 0, reads), 1, reads)

\* One cycle of the DMA ports and of the core.  reads: the addresses of the ports that read;
\* writes: those and the words of the ports that write; datum: what enters the core; first:
\* is it the dummy whose result is to be dropped?
Datapath(reads, writes, datum, first) ==
    /\ dma' = [i \in Shares |->
                 [re   |-> IF Reading(i, reads) THEN mem[reads[i][1]][reads[i][2]] ELSE None,
                  data |-> dma[i].re,
                  wr   |-> IF i \in DOMAIN writes THEN writes[i] ELSE None]]
    /\ mem' = Memory(reads)
    /\ pipe' = [n \in 1 .. MaxLatency |->
                  IF n = 1 THEN datum ELSE IF n <= Latency THEN pipe[n - 1] ELSE None]
    /\ init_q' = (first \/ (init_q /\ pipe[Latency] = None))

NoAccess   == [j \in {} |-> None]
Only(i, x) == [j \in {i} |-> x]

-----------------------------------------------------------------------------
\* x2x_acc_fsm, one action per state.
Idle ==
    /\ fsm.st = "IDLE"
    /\ fsm' = [fsm EXCEPT !.st = IF pulse.start
                                 THEN IF ctl.op = "PRNG" THEN "MASK_SEND" ELSE "FETCH_DATA_0"
                                 ELSE IF pulse.load_seed THEN "PRNG" ELSE "IDLE"]
    /\ Datapath(NoAccess, NoAccess, None, FALSE)
    /\ UNCHANGED <<shares, bits>>

Prng ==
    /\ fsm.st = "PRNG"
    /\ fsm' = IF fsm.prng = PrngInit THEN [fsm EXCEPT !.st = "IDLE", !.prng = 0]
              ELSE [fsm EXCEPT !.prng = @ + 1]
    /\ Datapath(NoAccess, NoAccess, None, FALSE)
    /\ UNCHANGED <<shares, bits>>

\* Both FETCH states ask for the words of a share in turn and take them as they come.
FetchAddr == IF ctl.onebit THEN fsm.iter \div (IF ctl.dual THEN 1 ELSE 2) + fsm.r_mem
             ELSE ctr_array + fsm.r_mem
Request(i) == IF fsm.r_mem < Fetched THEN Only(i, <<ctl.din[i], FetchAddr>>) ELSE NoAccess
Requested  == IF fsm.r_mem < Fetched THEN Inc(fsm.r_mem) ELSE fsm.r_mem
Loaded(i, word) ==
    IF ctl.onebit THEN UNCHANGED shares /\ bits' = [bits EXCEPT ![i][fsm.w_mem] = word]
    ELSE UNCHANGED bits /\ shares' = [shares EXCEPT ![i][fsm.w_mem] = word]

FetchData0 ==
    LET valid == dma[0].data # None
        last  == valid /\ fsm.w_mem = Fetched - 1
    IN /\ fsm.st = "FETCH_DATA_0"
       /\ fsm' = IF last THEN [fsm EXCEPT !.st = "FETCH_DATA_1", !.r_mem = 0, !.w_mem = 0]
                 ELSE [fsm EXCEPT !.r_mem = Requested, !.w_mem = IF valid THEN Inc(@) ELSE @]
       /\ IF valid THEN Loaded(0, dma[0].data) ELSE UNCHANGED <<shares, bits>>
       /\ Datapath(Request(0), NoAccess, None, FALSE)

\* With a single source the second share is 0.
FetchData1 ==
    LET valid == ctl.share \/ dma[1].data # None
        last  == valid /\ fsm.w_mem = (IF ctl.share THEN BurstLen ELSE Fetched) - 1
    IN /\ fsm.st = "FETCH_DATA_1"
       /\ fsm' = IF last THEN [fsm EXCEPT !.st = "MASK_SEND", !.r_mem = 0, !.w_mem = 0]
                 ELSE [fsm EXCEPT !.r_mem = IF ctl.share THEN @ ELSE Requested,
                                  !.w_mem = IF valid THEN Inc(@) ELSE @]
       /\ IF valid THEN Loaded(1, IF ctl.share THEN Both(Zero) ELSE dma[1].data)
          ELSE UNCHANGED <<shares, bits>>
       /\ Datapath(IF ctl.share THEN NoAccess ELSE Request(1), NoAccess,
                   IF last THEN Dummy(TRUE) ELSE None, last)

\* While results come, the words of share 0 that are complete are written already; for PRNG,
\* which has no share 0, those of share 1.
Early      == IF ctl.op = "PRNG" THEN 1 ELSE 0
\* Wrong variant: a word that is half complete.
EarlyDue_Halves == Valid /\ fsm.w_reg # 0
EarlyDue   == Valid /\ fsm.w_reg # 0 /\ (dualprime => fsm.w_reg % 2 = 0)
EarlyWrite ==
    IF EarlyDue
    THEN Only(Early, <<ctl.dout[Early], OutAddr(fsm.r_mem, fsm.off[Early]), Held(Early, fsm.r_mem)>>)
    ELSE NoAccess
EarlyCount == IF EarlyDue THEN Inc(fsm.r_mem) ELSE fsm.r_mem
EarlyOff   == IF EarlyDue THEN [fsm.off EXCEPT ![Early] = NextOff(fsm.r_mem, @)] ELSE fsm.off

MaskSend(rdy) ==
    LET last == rdy /\ fsm.r_reg = Items - 1
    IN /\ fsm.st = "MASK_SEND"
       /\ fsm' = [fsm EXCEPT !.st = IF last THEN "MASK_WAIT" ELSE @,
                             !.r_reg = IF last THEN 0 ELSE IF rdy THEN Inc(@) ELSE @,
                             !.w_reg = IF Valid THEN Inc(@) ELSE @,
                             !.r_mem = EarlyCount, !.off = EarlyOff]
       /\ shares' = Stored
       /\ Datapath(NoAccess, EarlyWrite, IF rdy THEN Operand(fsm.r_reg) ELSE None, FALSE)
       /\ UNCHANGED bits

MaskWait(rdy) ==
    LET last == Valid /\ fsm.w_reg = Items - 1
    IN /\ fsm.st = "MASK_WAIT"
       /\ fsm' = [fsm EXCEPT !.st = IF ~last THEN @
                                    ELSE IF ctl.op = "PRNG" THEN "PUT_DATA_1" ELSE "PUT_DATA_0",
                             !.w_reg = IF last THEN 0 ELSE IF Valid THEN Inc(@) ELSE @,
                             !.r_mem = EarlyCount, !.off = EarlyOff]
       /\ shares' = Stored
       /\ Datapath(NoAccess, EarlyWrite, Dummy(rdy), FALSE)
       /\ UNCHANGED bits

\* The rest of share 0, then share 1.
Put(i) == Only(i, <<ctl.dout[i], OutAddr(fsm.r_mem, fsm.off[i]), Held(i, fsm.r_mem)>>)
PutOff(i) == [fsm.off EXCEPT ![i] = NextOff(fsm.r_mem, @)]

PutData0 ==
    /\ fsm.st = "PUT_DATA_0"
    /\ fsm' = IF fsm.r_mem = BurstLen - 1
              THEN [fsm EXCEPT !.st = "PUT_DATA_1", !.r_mem = 0, !.off = PutOff(0)]
              ELSE [fsm EXCEPT !.r_mem = Inc(@), !.off = PutOff(0)]
    /\ Datapath(NoAccess, Put(0), None, FALSE)
    /\ UNCHANGED <<shares, bits>>

\* After a burst: the next one, which needs no fetch for PRNG nor in one-bit mode while bits
\* are left.
Length == IF ctl.onebit /\ ctl.dual THEN ctl.len \div 2 ELSE ctl.len
Refill == IF ctl.onebit THEN fsm.iter % (IF ctl.dual THEN 2 ELSE 4) = (IF ctl.dual THEN 1 ELSE 3)
          ELSE ctl.op # "PRNG"
\* Wrong variant: no state in between.
AfterBurst_NoDelay == IF ctr_array = Length - BurstLen THEN "DONE"
                      ELSE IF Refill THEN "FETCH_DATA_0" ELSE "MASK_SEND"
AfterBurst == IF ctr_array = Length - BurstLen THEN "DONE"
              ELSE IF Refill THEN "DELAY" ELSE "MASK_SEND"

PutData1 ==
    /\ fsm.st = "PUT_DATA_1"
    /\ fsm' = IF fsm.r_mem = BurstLen - 1
              THEN [fsm EXCEPT !.st = AfterBurst, !.r_mem = 0, !.iter = (@ + 1) % LenMod,
                               !.off = PutOff(1)]
              ELSE [fsm EXCEPT !.r_mem = Inc(@), !.off = PutOff(1)]
    /\ Datapath(NoAccess, Put(1), None, FALSE)
    /\ UNCHANGED <<shares, bits>>

\* The cycle in which DMA 1 writes the last word, so that DMA 0 does not read in it.
Delay ==
    /\ fsm.st = "DELAY"
    /\ fsm' = [fsm EXCEPT !.st = "FETCH_DATA_0"]
    /\ Datapath(NoAccess, NoAccess, None, FALSE)
    /\ UNCHANGED <<shares, bits>>

FsmStart == [st |-> "IDLE", r_mem |-> 0, r_reg |-> 0, w_mem |-> 0, w_reg |-> 0, iter |-> 0,
             off |-> [i \in Shares |-> 0], prng |-> 0]

Done ==
    /\ fsm.st = "DONE"
    /\ fsm' = FsmStart
    /\ Datapath(NoAccess, NoAccess, None, FALSE)
    /\ UNCHANGED <<shares, bits>>

Fsm(rdy) ==
    \/ Idle \/ Prng \/ FetchData0 \/ FetchData1 \/ MaskSend(rdy) \/ MaskWait(rdy)
    \/ PutData0 \/ PutData1 \/ Delay \/ Done

ctrl_busy    == fsm.st \notin {"IDLE", "PRNG"}
ctrl_seed_ip == fsm.st = "PRNG"
ctrl_done    == fsm.st = "DONE"

-----------------------------------------------------------------------------
\* x2x_acc_ctrl: one access of the bus, or none, in a cycle.
NoPulse == [start |-> FALSE, load_seed |-> FALSE]
Unread  == UNCHANGED rdata /\ done_q' = (done_q \/ ctrl_done)

NoBus == UNCHANGED ctl /\ pulse' = NoPulse /\ Unread

\* A read of CTRL shows some of its fields and clears the flag unless it is being set.
ReadCtrl ==
    /\ rdata' = [prime |-> ctl.prime, dual |-> ctl.dual, busy |-> ctrl_busy,
                 seed_ip |-> ctrl_seed_ip, done |-> done_q \/ ctrl_done]
    /\ done_q' = ctrl_done
    /\ pulse' = NoPulse
    /\ UNCHANGED ctl

WriteCtrl(fields, start) ==
    /\ ctl' = [ctl EXCEPT !.op = fields.op, !.b2a = fields.b2a, !.prime = fields.prime,
                          !.dual = fields.dual, !.share = fields.share, !.rej = fields.rej,
                          !.onebit = fields.onebit, !.stride = fields.stride]
    /\ pulse' = [start |-> start, load_seed |-> FALSE]
    /\ Unread

WriteReg(regs) == ctl' = regs /\ pulse' = NoPulse /\ Unread
WriteSeedHigh  == UNCHANGED ctl /\ pulse' = [start |-> FALSE, load_seed |-> TRUE] /\ Unread

-----------------------------------------------------------------------------
\* x2x.c.  The functions that call x2x_core, and what they ask of it.
Call(op, b2a, share, onebit) == [op |-> op, b2a |-> b2a, share |-> share, onebit |-> onebit]
Wrapper == [a2b          |-> Call("X2X", FALSE, FALSE, FALSE),
            b2a          |-> Call("X2X", TRUE, FALSE, FALSE),
            b2a_1bit     |-> Call("X2X", TRUE, FALSE, TRUE),
            b_share      |-> Call("REF", TRUE, TRUE, FALSE),
            a_share      |-> Call("REF", FALSE, TRUE, FALSE),
            b_ref        |-> Call("REF", TRUE, FALSE, FALSE),
            ref_b2a      |-> Call("REFX2X", TRUE, FALSE, FALSE),
            ref_b2a_1bit |-> Call("REFX2X", TRUE, FALSE, TRUE),
            ref_a2b      |-> Call("REFX2X", FALSE, FALSE, FALSE),
            a_ref        |-> Call("REF", FALSE, FALSE, FALSE),
            prng_read         |-> Call("PRNG", FALSE, FALSE, FALSE),
            prng_read_nonzero |-> Call("PRNG", FALSE, TRUE, FALSE)]

\* What a program asks for: whole bursts, in one-bit mode whole pairs of words of bits, and no
\* one-bit conversion of two values at once but by a prime.
Lawful(c, n) ==
    /\ c.onebit => /\ n % (IF ctl.dual THEN 2 ELSE 4) = 0
                   /\ ctl.dual => ctl.prime
    /\ Quiet /\ c.op = "PRNG" /\ n > 1 =>
           ~(~(ctl.dual /\ ~ctl.prime) /\ (ctl.prime \/ c.share))

Idling == [pc |-> "idle", call |-> "none", bursts |-> 1, stride |-> 1, inplace |-> FALSE]
At(pc) == drv.pc = pc
Goto(pc) == drv' = [drv EXCEPT !.pc = pc]
This == Wrapper[drv.call]

\* x2x_core
CoreRead == At("core_read") /\ ReadCtrl /\ Goto("core_check")
\* Wrong variant: as with BUSY_CHECK_DIS.
CoreCheck_Disabled == At("core_check") /\ NoBus /\ Goto("data_len")
CoreCheck ==
    /\ At("core_check") /\ NoBus
    /\ Goto(IF rdata.busy THEN "failed" ELSE IF rdata.seed_ip THEN "core_read" ELSE "data_len")
SetLen ==
    /\ At("data_len") /\ Goto("din_0")
    /\ WriteReg([ctl EXCEPT !.len = BurstLen * drv.bursts
                                    * (IF This.onebit /\ ctl.dual THEN 2 ELSE 1)])
SetDin0 ==
    /\ At("din_0") /\ Goto(IF This.share THEN "dout_0" ELSE "din_1")
    /\ WriteReg([ctl EXCEPT !.din[0] = IF This.op = "PRNG" THEN "null" ELSE "a"])
SetDin1 ==
    /\ At("din_1") /\ Goto("dout_0")
    /\ WriteReg([ctl EXCEPT !.din[1] = IF This.op = "PRNG" THEN "null" ELSE "b"])
Dst(i) == IF i = 0 THEN IF This.op = "PRNG" THEN "null" ELSE IF drv.inplace THEN "a" ELSE "c"
          ELSE IF drv.inplace THEN "b" ELSE "d"
SetDout0 == At("dout_0") /\ Goto("dout_1") /\ WriteReg([ctl EXCEPT !.dout[0] = Dst(0)])
SetDout1 == At("dout_1") /\ Goto("start")  /\ WriteReg([ctl EXCEPT !.dout[1] = Dst(1)])
\* The mode bits are or-ed to the CTRL that was read, which shows no REJ_SAMP.
Start ==
    /\ At("start") /\ Goto("poll")
    /\ WriteCtrl([op |-> This.op, b2a |-> This.b2a, prime |-> rdata.prime, dual |-> rdata.dual,
                  share |-> This.share, rej |-> FALSE, onebit |-> This.onebit,
                  stride |-> drv.stride], TRUE)
Poll == At("poll") /\ ReadCtrl /\ Goto("check")
Check == At("check") /\ NoBus /\ Goto(IF rdata.done THEN "returned" ELSE "poll")

\* x2x_set_modulus: the RESET bit that is or-ed to CTRL does not exist in x2x_acc_ctrl, but the
\* write clears every field that cannot be read.
ModRead == At("mod_read") /\ ReadCtrl /\ Goto("mod_reset")
Mode(prime, dual, rej) ==
    [op |-> "PRNG", b2a |-> FALSE, share |-> FALSE, onebit |-> FALSE, stride |-> 1,
     prime |-> prime, dual |-> dual, rej |-> rej]
ModReset == At("mod_reset") /\ Goto("mod_write") /\ WriteCtrl(Mode(rdata.prime, rdata.dual, FALSE), FALSE)
ModWrite ==
    /\ At("mod_write") /\ Goto("modulus")
    /\ \E m \in Moduli, rej \in BOOLEAN :
         WriteCtrl(Mode(m \in {"prime", "prime_dual"}, m \in {"pow2_dual", "prime_dual"}, rej), FALSE)
Modulus == At("modulus") /\ Goto("mod_done") /\ WriteReg(ctl)

\* x2x_seed
SeedRead  == At("seed_read") /\ ReadCtrl /\ Goto("seed_check")
SeedCheck == At("seed_check") /\ NoBus /\ Goto(IF rdata.busy THEN "failed" ELSE "seed_0")
SeedLow   == At("seed_0") /\ WriteReg(ctl) /\ Goto("seed_1")
SeedHigh  == At("seed_1") /\ WriteSeedHigh /\ Goto("idle")

\* The program between two calls.
CallCore ==
    /\ At("idle") /\ NoBus
    /\ \E c \in Calls, n \in Bursts, inplace \in BOOLEAN :
         \E s \in IF Wrapper[c].onebit THEN Strides ELSE {1} :
            /\ Lawful(Wrapper[c], n)
            /\ Wrapper[c].onebit \/ Wrapper[c].op = "PRNG" => ~inplace
            /\ drv' = [pc |-> "core_read", call |-> c, bursts |-> n, stride |-> s, inplace |-> inplace]
CallOther == At("idle") /\ NoBus /\ \E pc \in {"mod_read", "seed_read"} : Goto(pc)
Return    == drv.pc \in {"returned", "mod_done"} /\ NoBus /\ drv' = Idling

Driver ==
    \/ CoreRead \/ CoreCheck \/ SetLen \/ SetDin0 \/ SetDin1 \/ SetDout0 \/ SetDout1 \/ Start
    \/ Poll \/ Check \/ ModRead \/ ModReset \/ ModWrite \/ Modulus
    \/ SeedRead \/ SeedCheck \/ SeedLow \/ SeedHigh \/ CallCore \/ CallOther \/ Return

\* The program may take its time wherever that matters: before a call and between two polls.
Pause == drv.pc \in {"idle", "core_read", "poll"} /\ NoBus /\ UNCHANGED drv

-----------------------------------------------------------------------------
Init ==
    /\ fsm = FsmStart /\ init_q = FALSE
    /\ shares = [i \in Shares |-> [n \in 0 .. BurstLen - 1 |-> Both(Zero)]]
    /\ bits = [i \in Shares |-> [n \in {0, 1} |-> Both(Zero)]]
    /\ dma = [i \in Shares |-> [re |-> None, data |-> None, wr |-> None]]
    /\ pipe = [n \in 1 .. MaxLatency |-> None]
    /\ mem = Fresh
    /\ ctl = [op |-> "X2X", b2a |-> FALSE, prime |-> FALSE, dual |-> FALSE, share |-> FALSE,
              onebit |-> FALSE, rej |-> FALSE, stride |-> 1, len |-> 0,
              din |-> [i \in Shares |-> "null"], dout |-> [i \in Shares |-> "null"]]
    /\ done_q = FALSE /\ pulse = NoPulse
    /\ rdata = [prime |-> FALSE, dual |-> FALSE, busy |-> FALSE, seed_ip |-> FALSE, done |-> FALSE]
    /\ drv = Idling

\* A clock cycle: a random word is ready or late, the program goes on or pauses.
Cycle(rdy) == rdy \in Ready /\ Fsm(rdy) /\ (Driver \/ Pause)
Next == \E rdy \in BOOLEAN : Cycle(rdy)
Spec == Init /\ [][Next]_vars

\* The program goes on, and a random word comes in the end.
Going == \E rdy \in BOOLEAN : rdy \in Ready /\ Fsm(rdy) /\ Driver
FairSpec == Spec /\ WF_vars(Cycle(TRUE)) /\ WF_vars(Going)

-----------------------------------------------------------------------------
Halves == {Zero, Junk, Blank, Random}
          \cup {Src(i, k, h) : i \in Shares, k \in Words, h \in {0, 1}}
          \cup {Out(i, k, h) : i \in Shares, k \in Words, h \in {0, 1}}
          \cup {Bit(i, c) : i \in Shares, c \in 0 .. 2 * BurstLen * (MaxOf(Words) + 1)}
Word   == Halves \X Halves
Counts == 0 .. 2 * BurstLen - 1

\* Every register of the accelerator and every word of the buffers holds what it may: the
\* counters of x2x_acc_fsm.sv:81-105 stay in their widths.
TypeOK ==
    /\ fsm.st \in {"IDLE", "PRNG", "FETCH_DATA_0", "FETCH_DATA_1", "MASK_SEND", "MASK_WAIT",
                   "PUT_DATA_0", "PUT_DATA_1", "DELAY", "DONE"}
    /\ {fsm.r_mem, fsm.r_reg, fsm.w_mem, fsm.w_reg} \subseteq Counts
    /\ fsm.iter \in 0 .. LenMod - 1 /\ fsm.prng \in 0 .. PrngInit /\ init_q \in BOOLEAN
    /\ \A i \in Shares : /\ fsm.off[i] \in 0 .. ctl.len
                         /\ \A n \in 0 .. BurstLen - 1 : shares[i][n] \in Word
                         /\ bits[i][0] \in Word /\ bits[i][1] \in Word
                         /\ dma[i].re \in Word \cup {None} /\ dma[i].data \in Word \cup {None}
    /\ \A r \in Regions, k \in Words : mem[r][k] \in Word
    /\ \A n \in 1 .. MaxLatency : pipe[n] = None \/ (pipe[n][0] \in Word /\ pipe[n][1] \in Word)
    /\ done_q \in BOOLEAN /\ pulse \in [start : BOOLEAN, load_seed : BOOLEAN]

\* The source of word p of a one-bit conversion's result: the program gets the bits with
\* equal remainders by the stride together.
SourceBit(p) == LET run == ctl.len \div ctl.stride IN (p % run) * ctl.stride + (p \div run)

Wanted(i, k) ==
    CASE This.op = "PRNG" -> Both(Random)
      [] This.op # "PRNG" /\ This.onebit ->
            IF ctl.dual THEN <<Bit(i, SourceBit(2 * k)), Bit(i, SourceBit(2 * k + 1))>>
            ELSE Both(Bit(i, SourceBit(k)))
      [] OTHER -> <<Out(i, k, 0), Out(i, k, 1)>>

\* When a function of x2x.c returns, both shares of every word of the result are made of that
\* word's own two source shares (or of a random word that was there), and no other word of
\* memory was written, also when the result replaces the source; and no call is refused.
ResultIsOwn ==
    /\ drv.pc # "failed"
    /\ At("returned") =>
         \A r \in Regions, k \in Words :
            LET ours == {i \in Shares : Dst(i) = r /\ k < drv.bursts * BurstLen}
            IN mem[r][k] = IF ours = {} THEN Fresh[r][k] ELSE Wanted(CHOOSE i \in ours : TRUE, k)

\* No cycle in which both DMA ports strobe, of which the memory would serve one, and none in
\* which a port reads while it has a word to write, which would be lost (x2x_acc_dma.v:55-74):
\* the state machine separates them by the length of its states.
Reads(i) == fsm.st = (IF i = 0 THEN "FETCH_DATA_0" ELSE "FETCH_DATA_1")
            /\ (i = 1 => ~ctl.share) /\ fsm.r_mem < Fetched
PortsTakeTurns ==
    /\ ~((Reads(0) \/ dma[0].wr # None) /\ (Reads(1) \/ dma[1].wr # None))
    /\ \A i \in Shares : ~(Reads(i) /\ dma[i].wr # None)

\* x2x_acc_fsm.sv:575 and :592: the words written while the results are awaited are never the last
\* ones of the burst: "some more data to write for share 0 will be left", "below comment
\* applies here as well" for PRNG.
SomeDataIsLeft == fsm.st = "MASK_WAIT" /\ EarlyDue => fsm.r_mem < BurstLen - 1

\* A conversion that is called returns: the start is not lost to a seed that is still being
\* loaded, the state machine finishes, and the poll finds DONE.
CallsReturn == At("core_read") ~> At("returned")
=============================================================================
