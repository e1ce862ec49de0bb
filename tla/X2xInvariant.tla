---------------------------- MODULE X2xInvariant ----------------------------
(***************************************************************************)
(* What the accelerator and its driver hold in every cycle, so that the    *)
(* result of a conversion is its own: where each word of the result is     *)
(* put, how many words of each share have been, what is on its way through *)
(* the core and under which number it will be stored, and what the program *)
(* has written into the registers.                                         *)
(***************************************************************************)
EXTENDS X2xAccelerator

\* What the core, the memory and the programs must have of each other.  The pipeline is not longer
\* than it takes to put out a share's burst, so that it is empty when the next burst begins; an
\* operation fits into the counter of bursts; the stride of a one-bit conversion divides
\* a pair of words' bits; and the random reads in which x2x_acc_fsm goes wrong are left out.
Regular ==
    /\ Quiet /\ Calls \subseteq DOMAIN Wrapper
    /\ LenMod \in Nat /\ MaxLatency <= BurstLen + 1
    /\ \E n \in Bursts : \A m \in Bursts : m <= n /\ m * BurstLen <= LenMod
    /\ \A s \in Strides : (2 * BurstLen) % s = 0

-----------------------------------------------------------------------------
\* The order in which the words of a result are put out, and the place of each.  o counts them.
Total == drv.bursts * BurstLen
Step == ctl.len \div (IF ctl.dual THEN 2 * ctl.stride ELSE ctl.stride)
OffAt(o) == IF ctl.onebit THEN ((o % OneBitGroup) \div OneBitRun) * Step ELSE 0
Place(o) == IF ctl.onebit THEN (o \div OneBitGroup) * OneBitRun + (o % OneBitRun) + OffAt(o) ELSE o
Product(i, o) == Wanted(i, Place(o))

\* The registers hold what the function that is running asks for.
Opcodes == {"PRNG", "X2X", "REF", "REFX2X"}
Asked ==
    /\ drv.call \in Calls /\ drv.bursts \in Bursts /\ Lawful(This, drv.bursts)
    /\ drv.inplace => ~This.onebit /\ This.op # "PRNG"
    /\ ctl.op = This.op /\ ctl.share = This.share /\ ctl.onebit = This.onebit /\ ~ctl.rej
    /\ ctl.b2a \in BOOLEAN /\ ctl.prime \in BOOLEAN /\ ctl.dual \in BOOLEAN
    /\ ctl.onebit => ctl.stride \in Strides
    /\ ctl.len = Total * (IF ctl.onebit /\ ctl.dual THEN 2 ELSE 1)
    /\ ctl.op # "PRNG" => ctl.din[0] = "a" /\ (~ctl.share => ctl.din[1] = "b")
    /\ \A i \in Shares : ctl.dout[i] = Dst(i)

\* The first word of the burst; word k of the source; what the core makes of number m of the burst
\* that begins at b; and the first of the fetched words of bits.
Burst == fsm.iter * BurstLen
Source(i, k) == IF i = 1 /\ ctl.share THEN Both(Zero) ELSE <<Src(i, k, 0), Src(i, k, 1)>>
Item(b, m) == [i \in Shares |-> IF HalfWise THEN Both(Product(i, b + (m \div 2))[(m % 2) + 1])
                                ELSE Product(i, b + m)]
BitBase == 2 * (fsm.iter \div (IF ctl.dual THEN 2 ELSE 4))

\* The burst registers hold what number n of the burst is made of.
Sendable(n) ==
    /\ ctl.onebit => \A i \in Shares, k \in {0, 1} : bits[i][k] = Source(i, BitBase + k)
    /\ ctl.op # "PRNG" /\ ~ctl.onebit => \A i \in Shares :
         IF HalfWise THEN shares[i][n \div 2][(n % 2) + 1] = Source(i, Burst + (n \div 2))[(n % 2) + 1]
         ELSE shares[i][n] = Source(i, Burst + n)

-----------------------------------------------------------------------------
(* Types *)
FsmStates == {"IDLE", "PRNG", "FETCH_DATA_0", "FETCH_DATA_1", "MASK_SEND", "MASK_WAIT",
              "PUT_DATA_0", "PUT_DATA_1", "DELAY", "DONE"}
Pcs == {"idle", "core_read", "core_check", "data_len", "din_0", "din_1", "dout_0", "dout_1", "start",
        "poll", "check", "returned", "failed", "mod_read", "mod_reset", "mod_write", "modulus", "mod_done",
        "seed_read", "seed_check", "seed_0", "seed_1"}
Pointers == Regions \cup {"null"}

FsmType == fsm \in [st : FsmStates, r_mem : Nat, r_reg : Nat, w_mem : Nat, w_reg : Nat, iter : Nat,
                    off : [Shares -> Nat], prng : Nat]
CtlType == ctl \in [op : Opcodes, b2a : BOOLEAN, prime : BOOLEAN, dual : BOOLEAN, share : BOOLEAN,
                    onebit : BOOLEAN, rej : BOOLEAN, stride : Nat, len : Nat,
                    din : [Shares -> Pointers], dout : [Shares -> Pointers]]
DrvType == drv \in [pc : Pcs, call : Calls \cup {"none"}, bursts : Nat \ {0}, stride : Nat \ {0},
                    inplace : BOOLEAN]
FlagType ==
    /\ init_q \in BOOLEAN /\ done_q \in BOOLEAN
    /\ pulse \in [start : BOOLEAN, load_seed : BOOLEAN]
    /\ rdata \in [prime : BOOLEAN, dual : BOOLEAN, busy : BOOLEAN, seed_ip : BOOLEAN, done : BOOLEAN]
StoreType ==
    /\ DOMAIN shares = Shares /\ \A i \in Shares : DOMAIN shares[i] = 0 .. BurstLen - 1
    /\ DOMAIN bits = Shares /\ \A i \in Shares : DOMAIN bits[i] = {0, 1}
    /\ DOMAIN mem = Regions /\ \A r \in Regions : DOMAIN mem[r] = Words
Types == FsmType /\ CtlType /\ DrvType /\ FlagType /\ StoreType

-----------------------------------------------------------------------------
(* The ports, the core and the memory *)
Active == fsm.st \notin {"IDLE", "PRNG"}
Pending(i) == dma[i].wr # None
NoData(i) == dma[i].re = None /\ dma[i].data = None
Clear == \A n \in 1 .. MaxLatency : pipe[n] = None
Beyond == \A n \in 1 .. MaxLatency : n > Latency => pipe[n] = None

\* n says how many words of each share have been put out: all are in memory but the last one, which
\* may wait at its port, and no other word was written.
Put2(x, y) == [i \in Shares |-> IF i = 0 THEN x ELSE y]
MemHolds(n) ==
    /\ \A i \in Shares : n[i] \in 0 .. Total
    /\ \A i \in Shares : Pending(i) => /\ n[i] > 0
                                       /\ dma[i].wr = <<ctl.dout[i], Place(n[i] - 1), Product(i, n[i] - 1)>>
    /\ \A i \in Shares, o \in 0 .. Total - 1 :
          o < n[i] /\ (Pending(i) => o # n[i] - 1) => mem[ctl.dout[i]][Place(o)] = Product(i, o)
    /\ \A r \in Regions, k \in Words :
          (\A i \in Shares, o \in 0 .. Total - 1 : ~(o < n[i] /\ ctl.dout[i] = r /\ Place(o) = k))
             => mem[r][k] = Fresh[r][k]
Progress(n) == MemHolds(n) /\ \A i \in Shares : fsm.off[i] = OffAt(n[i])

-----------------------------------------------------------------------------
(* One predicate for each state of x2x_acc_fsm *)
\* One-bit mode fetches when a group of bursts begins.
Batch == IF ctl.dual THEN 2 ELSE 4
GroupStarts == ctl.onebit => fsm.iter % Batch = 0
Running == fsm.iter < drv.bursts
NotPut == \A i \in Shares : ~Pending(i)

\* Words of a source arrive in the order in which they were asked for.
FetchBase == IF ctl.onebit THEN fsm.iter \div (IF ctl.dual THEN 1 ELSE 2) ELSE Burst
One(x) == IF x = None THEN 0 ELSE 1
Coming(i) ==
    /\ fsm.w_mem + One(dma[i].data) + One(dma[i].re) = fsm.r_mem
    /\ dma[i].data # None => dma[i].data = Source(i, FetchBase + fsm.w_mem)
    /\ dma[i].re # None => dma[i].re = Source(i, FetchBase + fsm.r_mem - 1)
Took(i, n) == \A k \in 0 .. n - 1 : (IF ctl.onebit THEN bits ELSE shares)[i][k] = Source(i, FetchBase + k)

InFetch0 ==
    /\ ctl.op # "PRNG" /\ Running /\ GroupStarts /\ Progress(Put2(Burst, Burst)) /\ NotPut
    /\ fsm.r_reg = 0 /\ fsm.w_reg = 0 /\ fsm.r_mem <= Fetched /\ fsm.w_mem < Fetched
    /\ Coming(0) /\ Took(0, fsm.w_mem) /\ NoData(1) /\ ~init_q /\ Clear
InFetch1 ==
    /\ ctl.op # "PRNG" /\ Running /\ GroupStarts /\ Progress(Put2(Burst, Burst)) /\ NotPut
    /\ fsm.r_reg = 0 /\ fsm.w_reg = 0 /\ fsm.r_mem <= Fetched
    /\ fsm.w_mem < (IF ctl.share THEN BurstLen ELSE Fetched)
    /\ IF ctl.share THEN fsm.r_mem = 0 /\ NoData(1) ELSE Coming(1)
    /\ Took(0, Fetched) /\ Took(1, fsm.w_mem) /\ NoData(0) /\ ~init_q /\ Clear

\* While operands are sent and results come: how many words were put out early, what the registers of
\* both hold, and that a random word is never late.
EarlyDone == IF fsm.w_reg = 0 THEN 0 ELSE IF HalfWise THEN (fsm.w_reg - 1) \div 2 ELSE fsm.w_reg - 1
NeverLate == ctl.op = "PRNG" /\ ~RefLate
BitsHeld == ctl.onebit => \A i \in Shares, k \in {0, 1} : bits[i][k] = Source(i, BitBase + k)
\* What the burst registers hold while results come in.
HeldResults == \A i \in Shares, j \in 0 .. BurstLen - 1 :
    IF HalfWise
    THEN /\ 2 * j + 2 <= fsm.w_reg => shares[i][j] = Product(i, Burst + j)
         /\ 2 * j + 1 = fsm.w_reg => shares[i][j][1] = Product(i, Burst + j)[1]
    ELSE j < fsm.w_reg => shares[i][j] = Product(i, Burst + j)
HeldSources == \A m \in 0 .. Items - 1 : fsm.r_reg <= m => Sendable(m)

\* g numbers the stages of the core from its end: what stage n holds will be number g[n + 1] of the
\* burst.  The dummy that is dropped has number -1, those behind the last operand have numbers past it.
Numbered(g) ==
    /\ g \in [1 .. Latency + 1 -> Int]
    /\ g[Latency + 1] = IF init_q THEN -1 ELSE fsm.w_reg
    /\ \A n \in 1 .. Latency : g[n] = g[n + 1] + One(pipe[n])
    /\ \A m, n \in 1 .. Latency + 1 : m <= n => g[n] <= g[m]
    /\ \A n \in 1 .. Latency : pipe[n] # None /\ g[n + 1] \in 0 .. Items - 1 => pipe[n] = Item(Burst, g[n + 1])

Randoms == [i \in Shares |-> Both(Random)]
AllRandom == \A n \in 1 .. Latency : pipe[n] # None => pipe[n] = Randoms

Putting == IF ctl.op = "PRNG" THEN Put2(0, Burst + fsm.r_mem) ELSE Put2(Burst + fsm.r_mem, Burst)
Masking ==
    /\ Running /\ Progress(Putting) /\ NoData(0) /\ NoData(1)
    /\ fsm.w_mem = 0 /\ fsm.w_reg < Items /\ fsm.r_mem = EarlyDone
    /\ BitsHeld /\ HeldResults /\ Beyond
    /\ init_q => ctl.op # "PRNG" /\ fsm.w_reg = 0
InSend ==
    /\ Masking /\ fsm.r_reg < Items /\ HeldSources
    /\ ~NeverLate => \E g : Numbered(g) /\ g[1] = fsm.r_reg
    /\ NeverLate => /\ AllRandom /\ fsm.w_reg <= fsm.r_reg
                    /\ fsm.r_reg < Latency => pipe[fsm.r_reg + 1] = None
                    /\ fsm.r_reg >= Latency => fsm.w_reg < fsm.r_reg
InWait ==
    /\ Masking /\ fsm.r_reg = 0
    /\ ~NeverLate => \E g : Numbered(g) /\ g[1] >= Items
    /\ NeverLate => AllRandom

Counted == fsm.r_reg = 0 /\ fsm.w_mem = 0 /\ fsm.w_reg = 0
HeldProducts(i) == \A j \in 0 .. BurstLen - 1 : shares[i][j] = Product(i, Burst + j)
InPut0 ==
    /\ ctl.op # "PRNG" /\ Running /\ Progress(Put2(Burst + fsm.r_mem, Burst)) /\ NoData(0) /\ NoData(1)
    /\ Counted /\ fsm.r_mem = BurstLen - 1 /\ BitsHeld /\ HeldProducts(0) /\ HeldProducts(1)
    /\ Beyond /\ ~init_q
InPut1 ==
    /\ Running /\ NoData(0) /\ NoData(1)
    /\ Progress(Put2(IF ctl.op = "PRNG" THEN 0 ELSE Burst + BurstLen, Burst + fsm.r_mem))
    /\ Counted /\ fsm.r_mem < BurstLen /\ (ctl.op = "PRNG" => fsm.r_mem = BurstLen - 1)
    /\ BitsHeld /\ HeldProducts(1) /\ Beyond /\ ~init_q
    /\ IF ctl.op = "PRNG" THEN ~NeverLate \/ AllRandom
       ELSE \A n \in 1 .. MaxLatency : n <= 1 + fsm.r_mem => pipe[n] = None
InDelay ==
    /\ ctl.op # "PRNG" /\ Running /\ GroupStarts /\ Progress(Put2(Burst, Burst)) /\ NoData(0) /\ NoData(1)
    /\ Counted /\ fsm.r_mem = 0 /\ ~init_q /\ Clear
InDone ==
    /\ fsm.iter = drv.bursts /\ Progress(Put2(IF ctl.op = "PRNG" THEN 0 ELSE Total, Total)) /\ NoData(0) /\ NoData(1)
    /\ Counted /\ fsm.r_mem = 0 /\ ~init_q /\ Beyond
    /\ pipe[1] = None /\ (ctl.op # "PRNG" => Clear)

-----------------------------------------------------------------------------
Working ==
    /\ Asked
    /\ fsm.st = "FETCH_DATA_0" => InFetch0
    /\ fsm.st = "FETCH_DATA_1" => InFetch1
    /\ fsm.st = "MASK_SEND" => InSend
    /\ fsm.st = "MASK_WAIT" => InWait
    /\ fsm.st = "PUT_DATA_0" => InPut0
    /\ fsm.st = "PUT_DATA_1" => InPut1
    /\ fsm.st = "DELAY" => InDelay
    /\ fsm.st = "DONE" => InDone

\* Between two calls nothing is on its way.  Of a random read, a dummy may still leave the core.
Resting ==
    /\ Counted /\ fsm.r_mem = 0 /\ fsm.iter = 0 /\ \A i \in Shares : fsm.off[i] = 0
    /\ NotPut /\ NoData(0) /\ NoData(1) /\ ~init_q
    /\ \A n \in 1 .. MaxLatency : n # 3 => pipe[n] = None
    /\ drv.pc \notin {"poll", "check"} \/ pulse.start => pipe[3] = None
    /\ pipe[3] # None => ctl.op = "PRNG"

\* The result is in memory.
Finished == Asked /\ MemHolds(Put2(IF ctl.op = "PRNG" THEN 0 ELSE Total, Total))

-----------------------------------------------------------------------------
(* The program *)
Polling  == drv.pc \in {"poll", "check"}
CorePcs  == {"core_read", "core_check", "data_len", "din_0", "din_1", "dout_0", "dout_1", "start",
             "poll", "check", "returned"}

\* Where the program is while the accelerator works, and what it has read of it.
Protocol ==
    /\ Active => Polling
    /\ pulse.start => drv.pc = "poll" /\ fsm.st = "IDLE"
    /\ pulse.load_seed => drv.pc = "idle"
    /\ drv.pc = "core_check" => ~rdata.busy /\ (~rdata.seed_ip => fsm.st = "IDLE")
    /\ drv.pc \in CorePcs \ {"core_read", "core_check"} => fsm.st # "PRNG"
    /\ drv.pc \in CorePcs \ {"core_read", "returned"} /\ (Active \/ pulse.start \/ ~Polling) => ~done_q
    /\ drv.pc = "check" /\ Active => ~rdata.done
    /\ drv.pc # "failed"
    /\ drv.pc = "seed_check" => ~rdata.busy

\* The registers are written one by one.
Settings ==
    /\ drv.pc \in CorePcs => /\ drv.call \in Calls /\ drv.bursts \in Bursts /\ Lawful(This, drv.bursts)
                             /\ This.onebit => drv.stride \in Strides
                             /\ drv.inplace => ~This.onebit /\ This.op # "PRNG"
    /\ drv.pc \in {"core_check", "data_len", "din_0", "din_1", "dout_0", "dout_1", "start"} =>
          rdata.prime = ctl.prime /\ rdata.dual = ctl.dual
    /\ drv.pc \in {"din_0", "din_1", "dout_0", "dout_1", "start"} =>
          ctl.len = Total * (IF This.onebit /\ ctl.dual THEN 2 ELSE 1)
    /\ drv.pc \in {"din_1", "dout_0", "dout_1", "start"} /\ This.op # "PRNG" => ctl.din[0] = "a"
    /\ drv.pc \in {"dout_0", "dout_1", "start"} /\ This.op # "PRNG" /\ ~This.share => ctl.din[1] = "b"
    /\ drv.pc \in {"dout_1", "start"} => ctl.dout[0] = Dst(0)
    /\ drv.pc = "start" => ctl.dout[1] = Dst(1)

Contents ==
    /\ drv.pc \in CorePcs /\ (drv.pc \notin {"poll", "check", "returned"} \/ pulse.start) => mem = Fresh
    /\ drv.pc \in {"poll", "check", "returned"} => Asked
    /\ drv.pc \in {"poll", "check", "returned"} /\ ~Active /\ ~pulse.start => Finished

IInv ==
    /\ Types /\ Protocol /\ Settings /\ Contents
    /\ Active => Working
    /\ ~Active => Resting
=============================================================================
