------------------------------- MODULE MemBus -------------------------------
(***************************************************************************)
(* The memory behind the data bus: the program memory (with the ROM at its *)
(* start) and the data memory, the port of the core's loads and stores,    *)
(* which is routed to one of them by address, and the second port of the   *)
(* data memory, which the accelerators' DMA masters share.  One step is    *)
(* one clock cycle: requests go in, and the answers of the requests of the *)
(* cycle before come out.                                                  *)
(*                                                                         *)
(* Words are whole: byte lanes are the matter of LoadStoreUnit.            *)
(***************************************************************************)
EXTENDS Integers, FiniteSets

CONSTANTS InstAddr,   \* words below RAM_DATA_START
          RomAddr,    \* those of them up to ROM_END
          DataAddr,   \* words of the data memory
          PerAddr,    \* words of the peripherals, above the memories
          BusWord,
          NumMasters  \* NUM_DMA_ACCS

ASSUME AddrAssumption ==
    /\ RomAddr \subseteq InstAddr
    /\ InstAddr \cap DataAddr = {} /\ PerAddr \cap (InstAddr \cup DataAddr) = {}
ASSUME MastersAssumption == NumMasters \in Nat \ {0}

Masters == 0 .. NumMasters - 1
Addr    == InstAddr \cup DataAddr \cup PerAddr

VARIABLES mode,      \* what runs: the boot ROM ("boot", the gate is open) or a program ("user")
          imem, dmem,
          cyc,       \* core_wb.data_cyc
          stb_q,     \* the interconnect's registered strobe: which slave, if any
          inst, dat, dma,  \* the ports inst_p1, data_p0 and data_dma: ack and data register
          dma_stb_q,
          want,      \* what the load of the last cycle must return: {} if there was none
          dmaWant    \* the same for each master's read

portVars == <<cyc, stb_q, inst, dat, dma, dma_stb_q>>
busVars == <<mode, imem, dmem, cyc, stb_q, inst, dat, dma, dma_stb_q, want, dmaWant>>


\* A request of the core: load, store, or an idle cycle, in which the address is whatever
\* the ALU computed and the write enable is off.
Idle(a)     == [req |-> FALSE, we |-> FALSE, adr |-> a]
LoadAt(a)     == [req |-> TRUE, we |-> FALSE, adr |-> a]
StoreAt(a, v) == [req |-> TRUE, we |-> TRUE, adr |-> a, dat |-> v]

\* A request of a DMA master: stb and cyc rise and fall together.
NoReq      == [stb |-> FALSE]
Read(a)    == [stb |-> TRUE, we |-> FALSE, adr |-> a]
Write(a, v) == [stb |-> TRUE, we |-> TRUE, adr |-> a, dat |-> v]
DmaRequests == {NoReq} \cup {Read(a) : a \in DataAddr}
                       \cup {Write(a, v) : a \in DataAddr, v \in BusWord}

BusInit == /\ mode \in {"boot", "user"}
           /\ imem \in [InstAddr -> BusWord] /\ dmem \in [DataAddr -> BusWord]
           /\ cyc = FALSE /\ stb_q = "none" /\ dma_stb_q = {}
           /\ \E w \in BusWord : LET p == [ack |-> FALSE, out |-> w] IN inst = p /\ dat = p /\ dma = p
           /\ want = {} /\ dmaWant = [m \in Masters |-> {}]

-----------------------------------------------------------------------------
(* Routing *)

\* Wrong variant: a program whose constants stay beside its code, in program memory.
CoreLoads_RodataInRom == IF mode = "boot" THEN InstAddr ELSE InstAddr \cup DataAddr

\* Where the two linker scripts put what is loaded: the boot ROM's stack and variables are
\* in program memory, everything a program loads is in data memory.
CoreLoads == IF mode = "boot" THEN InstAddr ELSE DataAddr

Strobe(c) == c.req /\ c.adr \notin PerAddr

\* Wrong variant: the gate opens the ROM too.
ToInst_Rom(c)    == c.adr \in InstAddr /\ (mode = "boot" \/ ~c.we)

\* Program memory sees every read below RAM_DATA_START, and writes above ROM_END while
\* the loader holds the gate open; everything else looks to it like an idle bus.
ToInst(c) == /\ c.adr \in InstAddr
             /\ (mode = "boot" /\ c.adr \notin RomAddr) \/ ~c.we

ToData(c) == c.adr \notin InstAddr

\* Wrong variant: the highest strobing master is served.
Granted_Highest(s) == IF s = {} THEN 0 ELSE CHOOSE m \in s : \A k \in s : k <= m

\* The lowest strobing master is served; the others' requests are dropped.
Granted(s) == IF s = {} THEN 0 ELSE CHOOSE m \in s : \A k \in s : m <= k

\* The lowest master that strobed in the last cycle is answered.
Answered(s) == IF s = {} THEN 0 ELSE CHOOSE m \in s : \A k \in s : m <= k

Strobing(d) == {m \in Masters : d[m].stb}

-----------------------------------------------------------------------------
(* One cycle *)

\* Wrong variant: a request that follows the one before at once is not acknowledged.
Ack_OneShot(p, busy, stb) == stb /\ ~p.ack

\* A port keeps its acknowledge while no cycle is open on it.
Ack(p, busy, stb) == IF busy THEN stb ELSE p.ack

\* What a port may show next; words is what its memory may yield: a read and a write of
\* one word in one cycle may bring out either value.
Answers(p, busy, stb, we, words) ==
    [ack : {Ack(p, busy, stb)}, out : IF stb /\ ~we THEN words ELSE {p.out}]

Put(held, stb, r) == IF stb /\ r.we THEN [held EXCEPT ![r.adr] = r.dat] ELSE held

\* The interconnect passes the answer of the slave strobed in the last cycle, and the two
\* memories share one answer: program memory's, while it acknowledges.
CoreData == IF inst.ack THEN inst.out ELSE dat.out

CoreAck  == CASE stb_q = "memory"     -> inst.ack \/ dat.ack
              [] stb_q = "peripheral" -> TRUE
              [] OTHER                -> FALSE

\* Acknowledge and data go to the lowest master that strobed in the last cycle.
DmaAck(m)  == dma_stb_q # {} /\ m = Answered(dma_stb_q) /\ dma.ack
DmaData(m) == dma.out

\* A cycle with the core's request c and the masters' requests d.  When the core and a
\* master write one word in one cycle, either may win.
Cycle(c, d) ==
    LET busy    == c.req \/ cyc
        toInst  == ToInst(c)
        instStb == toInst /\ Strobe(c)
        datStb  == ToData(c) /\ Strobe(c)
        s       == Strobing(d)
        g       == d[Granted(s)]
        loaded  == IF instStb THEN {imem[c.adr], imem'[c.adr]} ELSE {dmem[c.adr], dmem'[c.adr]}
    IN  /\ c.req /\ ~c.we => c.adr \in CoreLoads \cup PerAddr
        /\ imem' = Put(imem, instStb, c)
        /\ dmem' \in {Put(Put(dmem, datStb, c), g.stb, g), Put(Put(dmem, g.stb, g), datStb, c)}
        /\ inst' \in Answers(inst, toInst /\ busy, instStb, c.we, loaded)
        /\ dat'  \in Answers(dat, ToData(c) /\ busy, datStb, c.we, loaded)
        /\ dma'  \in Answers(dma, g.stb, g.stb, g.stb /\ g.we, {dmem[g.adr], dmem'[g.adr]})
        /\ cyc' = (c.req \/ (cyc /\ ~CoreAck))
        /\ stb_q' = (IF Strobe(c) THEN "memory" ELSE IF c.req THEN "peripheral" ELSE "none")
        /\ dma_stb_q' = s
        /\ want' = IF Strobe(c) /\ ~c.we THEN loaded ELSE {}
        /\ dmaWant' = [m \in Masters |->
                         IF d[m].stb /\ ~d[m].we THEN {dmem[d[m].adr], dmem'[d[m].adr]} ELSE {}]
        /\ UNCHANGED mode

\* The loader resets the core and the bus: from the boot ROM to the program, or back.
Reset(m) ==
    /\ mode' = m
    /\ cyc' = FALSE /\ stb_q' = "none" /\ dma_stb_q' = {}
    /\ inst' = [ack |-> FALSE, out |-> inst.out]
    /\ dat'  = [ack |-> FALSE, out |-> dat.out]
    /\ dma'  = [ack |-> FALSE, out |-> dma.out]
    /\ want' = {} /\ dmaWant' = [k \in Masters |-> {}]
    /\ UNCHANGED <<imem, dmem>>

CoreRequests == {Idle(a) : a \in Addr} \cup {LoadAt(a) : a \in Addr}
                                        \cup {StoreAt(a, v) : a \in Addr, v \in BusWord}

BusNext == \/ \E c \in CoreRequests, d \in [Masters -> DmaRequests] : Cycle(c, d)
           \/ \E m \in {"boot", "user"} : Reset(m)

BusSpec == BusInit /\ [][BusNext]_busVars

-----------------------------------------------------------------------------
(* Properties *)

\* A load returns the word it asked for: the core takes what is on the bus one cycle
\* after its request and looks at no acknowledge.
LoadReturnsItsWord == want # {} => stb_q = "memory" /\ CoreData \in want

\* The master that is acknowledged is one whose request was served: a read brings its own
\* word, not that of another master.
AckMeansServed ==
    \A m \in Masters : DmaAck(m) => m \in dma_stb_q /\ (dmaWant[m] # {} => DmaData(m) \in dmaWant[m])

\* Whoever strobes, one master is served and told so; a master alone on the bus always is.
OneIsServed == dma_stb_q # {} => \E m \in dma_stb_q : DmaAck(m)

\* The ROM never changes, and program memory changes only while the boot ROM runs.
CodeIsGuarded ==
    [][ /\ \A a \in RomAddr : imem'[a] = imem[a]
        /\ imem' # imem => mode = "boot" ]_busVars
=============================================================================
