------------------------------ MODULE Pipeline ------------------------------
(***************************************************************************)
(* The core (core.v with its hazard, forwarding, load-store, multiplier    *)
(* and CSR units): five stages, a register per stage boundary, one step    *)
(* per rising clock edge.  The register file is written at the falling     *)
(* edge between two steps (Bank).                                          *)
(*                                                                         *)
(* What an instruction is, is decided by the values that meet in it; see   *)
(* Hart for the data, and for what the pipeline has to look like to        *)
(* programs.                                                               *)
(***************************************************************************)
EXTENDS Integers

CONSTANTS NumRegs, ExcVec, IrqVec,
          Suites,      \* sets of programs, each with the interrupt pulses their runs get (at most 2)
          Banks, Dmems,  \* register and memory contents a program may start from
          Boot,        \* the address of the jump that enters them
          DivCycles    \* cycles of a division

VARIABLES prog,
          pc,           \* pc_o: the address being fetched
          id,           \* IFID_preg: instruction, pc, dummy
          ex,           \* IDEX_preg: the same, operands, live (wb and mem fields), misaligned
          mem,          \* EXMEM_preg
          wb,           \* MEMWB_preg
          bank, dmem,   \* the registers and the data memory
          addr_reg,     \* load_store_unit.addr_i_reg
          md,           \* MULDIV_ctrl: cycles left, and the operands it has latched
          csr, csr_reg, \* the CSRs, and csr_reg_o: what was read of them for the instruction in EX
          mcause, state, saved,  \* csr_unit's cause, state and pc_i
          mip,          \* the fast interrupt's bit in mip
          irqs,         \* pulses still to come, at most
          stores        \* stores issued on the bus, modulo 4

vars == <<prog, pc, id, ex, mem, wb, bank, dmem, addr_reg, md, csr, csr_reg, mcause, state,
          saved, mip, irqs, stores>>

H == INSTANCE Hart WITH hart <- [pc |-> 0]

Val == H!Val
Reg == H!Reg
Nop == H!Nop

ASSUME RegAssumption == NumRegs \in Nat \ {0} /\ Banks \subseteq [Reg -> Val] /\ Dmems \subseteq [Val -> Val]
ASSUME AddrAssumption == ExcVec \in Int /\ IrqVec \in Int /\ Boot \in Int /\ DivCycles \in Nat
ASSUME ProgramAssumption ==
    \A s \in Suites : s.irqs \in 0 .. 2 /\ \A p \in s.programs :
        /\ \A k \in DOMAIN p : p[k] \in H!Instr
        /\ Boot \in DOMAIN p /\ p[Boot].op = "beq" /\ p[Boot].rs1 = p[Boot].rs2

\* The CSR an instruction's number names, if it is a CSR instruction at all.
CsrName(op) == CASE op \in {"csrsi", "csrci"} -> "mstatus"
                 [] op \in {"scratch", "epc", "mret"} -> op
                 [] OTHER -> "none"

WritesReg(op) == op \in {"op", "scratch"} \cup H!MulDivs \cup H!Loads

CsrNames == {"none", "mstatus", "scratch", "epc", "mret"}
CsrFile  == [scratch : Val, mie : BOOLEAN, mpie : BOOLEAN, mepc : Int]

TypeOK ==
    /\ pc \in Int
    /\ id \in [i : H!Instr, pc : Int, dummy : BOOLEAN]
    /\ ex \in [i : H!Instr, pc : Int, dummy : BOOLEAN, live : BOOLEAN, mis : BOOLEAN, d1 : Val, d2 : Val]
    /\ mem \in [op : H!Ops, rd : Reg, wen : BOOLEAN, csr : CsrNames, a : Val, mpie : BOOLEAN,
                out : Val, data : Val, store : BOOLEAN, pc : Int, dummy : BOOLEAN, mis : BOOLEAN]
    /\ wb \in [op : H!Ops, rd : Reg, wen : BOOLEAN, csr : CsrNames, a : Val, mpie : BOOLEAN,
               val : Val, memout : Val]
    /\ bank \in [Reg -> Val] /\ dmem \in [Val -> Val] /\ addr_reg \in Val
    /\ md \in [left : Nat, a : Val, b : Val]
    /\ csr \in CsrFile /\ csr_reg \in CsrFile
    /\ mcause \in {ExcVec, IrqVec} /\ state \in {"STAND_BY", "S1"} /\ saved \in Int
    /\ mip \in BOOLEAN /\ irqs \in 0 .. 2 /\ stores \in 0 .. 3

\* What a flush leaves in a stage register.
NoId  == [i |-> Nop, pc |-> 0, dummy |-> TRUE]
NoEx  == [i |-> Nop, pc |-> 0, dummy |-> TRUE, live |-> FALSE, mis |-> FALSE, d1 |-> 0, d2 |-> 0]
NoMem == [op |-> "op", rd |-> 0, wen |-> FALSE, csr |-> "none", a |-> 0, mpie |-> FALSE,
          out |-> 0, data |-> 0, store |-> FALSE, pc |-> 0, dummy |-> TRUE, mis |-> FALSE]
NoWb  == [op |-> "op", rd |-> 0, wen |-> FALSE, csr |-> "none", a |-> 0, mpie |-> FALSE,
          val |-> 0, memout |-> 0]

\* The jump to the program has just been taken: it is in MEM, and nothing is behind it.
Init ==
    /\ \E s \in Suites : prog \in s.programs /\ irqs = s.irqs
    /\ pc = prog[Boot].to
    /\ id = NoId /\ ex = NoEx /\ mem = [NoMem EXCEPT !.op = "beq", !.pc = Boot, !.dummy = FALSE]
    /\ wb = NoWb
    /\ bank \in Banks /\ dmem \in Dmems /\ addr_reg = 0
    /\ md = [left |-> 0, a |-> 0, b |-> 0]
    /\ csr = [scratch |-> 0, mie |-> TRUE, mpie |-> FALSE, mepc |-> 0]
    /\ csr_reg = csr /\ mcause = ExcVec /\ state = "STAND_BY" /\ saved = 0
    /\ mip = FALSE /\ stores = 0

-----------------------------------------------------------------------------
(* Forwarding and hazards *)

\* The registers after the falling edge of this cycle; x0 is masked where it is read.
Bank        == IF wb.wen THEN [bank EXCEPT ![wb.rd] = wb.val] ELSE bank
ReadBank(r) == IF r = 0 THEN 0 ELSE Bank[r]

Forward(r, d) == CASE r # 0 /\ mem.wen /\ r = mem.rd -> mem.out
                   [] r # 0 /\ ~(mem.wen /\ r = mem.rd) /\ wb.wen /\ r = wb.rd -> wb.val
                   [] OTHER -> d

Src1 == Forward(ex.i.rs1, ex.d1)
Src2 == Forward(ex.i.rs2, ex.d2)

\* A load in EX, and the instruction in ID uses what it loads.
L == ex.live /\ ex.i.op \in H!Loads
UsesRs1(op) == op # "csrsi" /\ op # "csrci"
UsesRs2(op) == op \in {"op", "beq"} \cup H!MulDivs \cup H!Stores
HazardStall == L /\ \/ UsesRs1(id.i.op) /\ id.i.rs1 = ex.i.rd
                    \/ UsesRs2(id.i.op) /\ id.i.rs2 = ex.i.rd

\* Wrong variant: a CSR instruction does not wait for the one that is in WB.
CsrStall_Short == LET c == CsrName(id.i.op) IN
    c # "none" /\ ((ex.live /\ c = CsrName(ex.i.op)) \/ c = mem.csr)

\* The CSR named in ID is about to be written by an instruction ahead.
CsrStall == LET c == CsrName(id.i.op) IN
    c # "none" /\ ((ex.live /\ c = CsrName(ex.i.op)) \/ c = mem.csr \/ c = wb.csr)

\* MULDIV_ctrl: start comes from EX's control bits; a trivial operand pair is done at once.
MdStart == ex.i.op \in H!MulDivs
MdDone  == IF md.left = 0 THEN MdStart /\ ex.i.op = "fast" ELSE md.left = 1
MdStall == MdStart /\ ~MdDone
MdResult == IF ex.i.op = "fast" THEN H!MulDiv(Src1, Src2) ELSE H!MulDiv(md.a, md.b)

MdNext == CASE md.left > 0 -> [md EXCEPT !.left = @ - 1]
            [] md.left = 0 /\ MdStall ->
                   [left |-> IF ex.i.op = "mul" THEN 3 ELSE DivCycles, a |-> Src1, b |-> Src2]
            [] OTHER -> md

-----------------------------------------------------------------------------
(* Branches and traps *)

TakeBranch == ex.i.op = "beq" /\ Src1 = Src2

Irq       == csr.mie /\ mip

Exception == id.i.op = "ecall" /\ ~TakeBranch
Mret      == id.i.op = "mret" /\ ~TakeBranch

\* Wrong variant: an interrupt flushes stores that are on the bus.
MemFlush_Stores == Irq /\ ~mem.dummy

MemFlush == Irq /\ ~mem.store /\ ~mem.dummy
ExFlush  == MemFlush \/ (Irq /\ ~ex.dummy /\ ~ex.mis)
IdFlush  == ExFlush \/ Irq \/ Exception
IfFlush  == Irq \/ state = "S1" \/ Mret \/ Exception

\* csr_pc_input: where the interrupted program goes on.
Resume == IF MemFlush THEN mem.pc ELSE IF ExFlush THEN ex.pc ELSE id.pc

Trapping == state = "STAND_BY" /\ (Irq \/ Exception)

FsmStep == /\ state' = IF Trapping THEN "S1" ELSE "STAND_BY"
           /\ mcause' = IF Trapping THEN IF Irq THEN IrqVec ELSE ExcVec ELSE mcause
           /\ saved' = Resume

\* Wrong variants: mret forgets to enable interrupts; a trap forgets that they were enabled.
CsrNext_MretDisabled == IF wb.csr = "mret" THEN csr
                        ELSE IF wb.csr # "none" THEN H!CsrWrite(csr, wb.op, wb.mpie, wb.a)
                        ELSE IF state = "S1" THEN H!TrapWrite(csr, saved) ELSE csr
CsrNext_MpieKept == IF wb.csr = "mret" THEN H!MretWrite(csr)
                    ELSE IF wb.csr # "none" THEN H!CsrWrite(csr, wb.op, wb.mpie, wb.a)
                    ELSE IF state = "S1" THEN [H!TrapWrite(csr, saved) EXCEPT !.mpie = csr.mpie] ELSE csr

\* A CSR instruction in WB keeps the trap from being entered in the CSRs.
CsrNext == CASE wb.csr = "mret" -> H!MretWrite(csr)
             [] wb.csr \notin {"none", "mret"} -> H!CsrWrite(csr, wb.op, wb.mpie, wb.a)
             [] wb.csr = "none" /\ state = "S1" -> H!TrapWrite(csr, saved)
             [] OTHER -> csr

\* Wrong variant: a request that has been taken stays.
MipNext_Kept(line) == mip \/ line

\* The pulse of a fast interrupt is kept in mip until it is taken.
MipNext(line) == IF Irq THEN line ELSE mip \/ line

-----------------------------------------------------------------------------
(* The stages *)

IsStore    == ex.live /\ ex.i.op \in H!Stores /\ ~ExFlush
Misaligned == (L \/ IsStore) /\ ~ex.mis /\ ex.i.op \in {"lwmis", "swmis"}
BusAddr    == IF ex.mis THEN H!Word2(addr_reg) ELSE Src1

StallId == HazardStall \/ MdStall \/ Misaligned \/ CsrStall

PcNext == CASE Mret                    -> csr.mepc
            [] ~Mret /\ state = "S1"   -> mcause
            [] ~Mret /\ state # "S1" /\ TakeBranch -> ex.i.to
            [] OTHER                   -> IF StallId THEN pc ELSE pc + 1

IdNext == IF TakeBranch \/ IfFlush THEN NoId
          ELSE IF StallId THEN id
          ELSE [i |-> H!Fetch(pc), pc |-> pc, dummy |-> FALSE]

\* A stall behind EX leaves a bubble there: only its writes are disarmed.
Bubble == [ex EXCEPT !.live = FALSE, !.dummy = TRUE, !.mis = FALSE, !.i.rd = 0]

\* Wrong variant: the operands of a held instruction stay as they were read first.
Held_Frozen == [ex EXCEPT !.mis = @ \/ Misaligned]

\* While EX is held, its operands are read again: their producers pass by.
Held == [ex EXCEPT !.d1 = ReadBank(ex.i.rs1), !.d2 = ReadBank(ex.i.rs2),
                   !.mis = @ \/ Misaligned]

ExNext == IF TakeBranch \/ IdFlush THEN NoEx
          ELSE IF MdStall \/ Misaligned THEN Held
          ELSE IF StallId THEN Bubble
          ELSE [i |-> id.i, pc |-> id.pc, dummy |-> id.dummy, live |-> TRUE, mis |-> FALSE,
                d1 |-> ReadBank(id.i.rs1), d2 |-> ReadBank(id.i.rs2)]

ExOut == CASE MdStart                -> MdResult
           [] ex.i.op \in H!Csrs     -> csr_reg.scratch
           [] ex.i.op \in H!Loads \cup H!Stores -> Src1
           [] OTHER                  -> H!Alu(Src1, Src2)

MemNext == IF MdStall \/ ExFlush THEN NoMem
           ELSE [op |-> ex.i.op, rd |-> ex.i.rd,
                 wen |-> ex.live /\ WritesReg(ex.i.op) /\ ~Misaligned,
                 csr |-> IF ex.live THEN CsrName(ex.i.op) ELSE "none",
                 a |-> Src1, mpie |-> csr_reg.mpie, out |-> ExOut, data |-> dmem[BusAddr],
                 store |-> IsStore, pc |-> ex.pc, dummy |-> ex.dummy, mis |-> ex.mis]

Memout == IF mem.mis THEN H!Join(wb.memout, mem.data) ELSE mem.data

WbNext == IF MemFlush THEN NoWb
          ELSE [op |-> mem.op, rd |-> mem.rd, wen |-> mem.wen, csr |-> mem.csr, a |-> mem.a,
                mpie |-> mem.mpie, memout |-> Memout,
                val |-> IF mem.op \in H!Loads THEN Memout ELSE mem.out]

\* One cycle, in which the interrupt line is as given.
Clock(line) ==
    /\ line => irqs > 0 /\ ~mip
    /\ irqs' = IF line THEN irqs - 1 ELSE irqs
    /\ pc' = PcNext /\ id' = IdNext /\ ex' = ExNext /\ mem' = MemNext /\ wb' = WbNext
    /\ bank' = Bank /\ addr_reg' = Src1
    /\ dmem' = IF IsStore THEN [dmem EXCEPT ![BusAddr] = Src2] ELSE dmem
    /\ stores' = IF IsStore /\ ~ex.mis THEN (stores + 1) % 4 ELSE stores
    /\ md' = MdNext /\ csr' = CsrNext /\ csr_reg' = csr /\ mip' = MipNext(line)
    /\ FsmStep /\ prog' = prog

Next == \E line \in BOOLEAN : Clock(line)

Spec     == Init /\ [][Next]_vars
FairSpec == Spec /\ WF_vars(Clock(FALSE))

-----------------------------------------------------------------------------
(* The machine a program sees: instructions are complete when they leave MEM, stores when *)
(* they have been issued, and the CSRs and registers are as WB leaves them.               *)

HalfDone == ex.live /\ ex.mis /\ ex.i.op = "swmis"

PcBar == CASE ~mem.dummy /\ ~mem.store -> mem.pc
           [] (mem.dummy \/ mem.store) /\ ~ex.dummy /\ ~HalfDone -> ex.pc
           [] OTHER -> IF state = "S1" THEN saved ELSE IF id.dummy THEN pc ELSE id.pc

CsrBar == IF wb.csr = "none" THEN csr ELSE CsrNext

Bar == [pc     |-> PcBar,
        regs   |-> [Bank EXCEPT ![0] = 0],
        mem    |-> IF HalfDone THEN [dmem EXCEPT ![BusAddr] = Src2] ELSE dmem,
        csr    |-> CsrBar,
        stores |-> stores]

Machine == INSTANCE Hart WITH hart <- Bar

-----------------------------------------------------------------------------
(* The invariant: what the stages hold *)

\* What comes behind EX, and what is the next instruction once the one in MEM is complete.
PcId == IF state = "S1" THEN saved ELSE IF id.dummy THEN pc ELSE id.pc
PcEx == IF ~ex.dummy /\ ~HalfDone THEN ex.pc ELSE PcId

\* An instruction is the one at its address; a bubble, or what a flush left, is a nop; no ecall
\* gets into EX.
Fetched ==
    /\ IF id.dummy THEN id = NoId ELSE id.i = H!Fetch(id.pc)
    /\ IF ex.dummy THEN ~ex.mis /\ (ex.live => ex.i = Nop) ELSE ex.live /\ ex.i = H!Fetch(ex.pc)
    /\ IF mem.dummy THEN ~mem.store /\ mem.csr = "none" /\ (mem.wen => mem.rd = 0)
       ELSE /\ mem.op = H!Fetch(mem.pc).op /\ mem.csr = CsrName(mem.op)
            /\ mem.store = (mem.op \in H!Stores) /\ (mem.wen => ~mem.store)
    /\ ex.i.op # "ecall" /\ mem.op # "ecall"

\* Instructions follow each other in program order.
Ordered ==
    /\ ~id.dummy => pc = id.pc + 1
    /\ ~ex.dummy => IF ex.i.op = "mret" THEN id.dummy /\ pc = csr.mepc ELSE ~id.dummy /\ id.pc = ex.pc + 1
    /\ id.dummy => \/ state = "S1"
                   \/ ~csr.mie /\ ex.dummy /\ ex.i = Nop
                   \/ ex = NoEx /\ ~mem.dummy /\ ~mem.store
                   \/ ~ex.dummy /\ ex.i.op = "mret"

\* An instruction in EX gets its operands from the registers, or from the two in front of it.
Operands ==
    ex.live =>
        /\ ex.d1 = (IF ex.i.rs1 = 0 THEN 0 ELSE bank[ex.i.rs1])
        /\ ex.d2 = (IF ex.i.rs2 = 0 THEN 0 ELSE bank[ex.i.rs2])
        /\ mem.wen /\ mem.op \in H!Loads /\ mem.rd # 0 =>
               /\ UsesRs1(ex.i.op) => ex.i.rs1 # mem.rd
               /\ UsesRs2(ex.i.op) => ex.i.rs2 # mem.rd
        /\ ex.i.op \in {"mul", "div"} /\ md.left > 0 =>
               ~mem.wen /\ md.a = ReadBank(ex.i.rs1) /\ md.b = ReadBank(ex.i.rs2)

\* While the second half of an access is in EX, the first is in MEM.
Halves ==
    ex.mis => /\ ~ex.dummy /\ ex.i.op \in {"lwmis", "swmis"} /\ addr_reg = ReadBank(ex.i.rs1)
              /\ ~mem.dummy /\ mem.pc = ex.pc /\ ~mem.mis /\ ~mem.wen
              /\ ex.i.op = "lwmis" => mem.data = dmem[addr_reg]

\* Nothing ahead of a CSR instruction writes what it has read.
CsrReads ==
    /\ ex.live /\ ex.i.op = "scratch" =>
           csr_reg.scratch = csr.scratch /\ mem.csr # "scratch" /\ wb.csr # "scratch"
    /\ ex.live /\ ex.i.op \in {"csrsi", "csrci"} =>
           csr_reg.mpie = csr.mpie /\ {mem.csr, wb.csr} \cap {"mret", "mstatus"} = {}
    /\ ex.live /\ ex.i.op = "mret" => mem.csr # "epc"
    /\ (ex.live /\ ex.i.op = "mret") \/ mem.csr = "mret" => wb.csr # "epc"
    /\ mem.csr = "scratch" => wb.csr # "scratch"
    /\ mem.csr = "mstatus" => mem.mpie = csr.mpie /\ wb.csr \notin {"mret", "mstatus"}
    /\ wb.csr # "none" => wb.csr = CsrName(wb.op)
    /\ wb.csr = "mstatus" => wb.mpie = csr.mpie

\* The instruction in MEM that completes has the result of its own operands, and what is behind
\* it is its successor.
Completes == ~mem.dummy /\ ~mem.store /\ ~ex.mis
Results ==
    Completes =>
        LET i == H!Fetch(mem.pc)  a == ReadBank(i.rs1)  b == ReadBank(i.rs2) IN
        /\ mem.wen = WritesReg(i.op) /\ (mem.wen => mem.rd = i.rd)
        /\ i.op = "op" => mem.out = H!Alu(a, b)
        /\ i.op \in H!MulDivs => mem.out = H!MulDiv(a, b)
        /\ i.op = "scratch" => mem.out = csr.scratch
        /\ i.op \in {"scratch", "epc"} => mem.a = a
        /\ i.op = "lw" => mem.data = dmem[a] /\ ~mem.mis
        /\ i.op = "lwmis" => mem.mis /\ mem.data = dmem[H!Word2(a)] /\ wb.memout = dmem[a]
        /\ PcEx = CASE i.op = "beq"  -> IF a = b THEN i.to ELSE mem.pc + 1
                    [] i.op = "mret" -> csr.mepc
                    [] OTHER         -> mem.pc + 1

\* While a trap is being entered, at most the instruction in front of it is under way, and it
\* writes nothing that the trap writes.
Entering ==
    state = "S1" => /\ id = NoId /\ ex = NoEx /\ wb.csr = "none" /\ mem.csr \in {"none", "scratch"}
                    /\ \/ mcause = ExcVec /\ H!Fetch(saved).op = "ecall"
                       \/ mcause = IrqVec /\ csr.mie /\ ~Completes

StagesAgree == TypeOK /\ Fetched /\ Ordered /\ Operands /\ Halves /\ CsrReads /\ Results /\ Entering

\* The instruction in ID moves on.
Enters == ~TakeBranch /\ ~IdFlush /\ ~StallId

\* What the core relies on its programs for, and on the time of requests: no bubble decides a
\* branch again; an ecall or mret in ID finds nothing in front of it that stalls, that writes
\* what it reads, or that writes the CSRs after the trap; no request is there while a trap is
\* being entered, or meets a csrci on its way to WB; what mret returns to does not touch mstatus
\* at once; and no operation starts while one whose instruction was flushed still runs.
Benign ==
    /\ TakeBranch /\ ~Irq => ex.live
    /\ Exception /\ ~Irq => /\ ~MdStall /\ ~Misaligned /\ mem.csr = "none"
                            /\ ex.live => CsrName(ex.i.op) \in {"none", "scratch"}
    /\ Mret /\ ~Irq => /\ ~StallId /\ mem.csr # "epc" /\ wb.csr # "epc"
                       /\ ex.live => ex.i.op # "epc"
    /\ state = "S1" => ~Irq
    /\ Irq => CsrBar.mie
    /\ Enters /\ id.i.op \in {"csrsi", "csrci"} =>
           mem.csr # "mret" /\ wb.csr # "mret" /\ (ex.live => ex.i.op # "mret")
    /\ Enters /\ id.i.op \in {"mul", "div"} => md.left <= 1

-----------------------------------------------------------------------------
(* Properties *)

\* Every program sees a machine that runs one instruction after another: right operands in
\* spite of the instructions in flight, nothing of a flushed instruction left, nothing
\* executed twice or not at all around branches, stalls and interrupts.
Refines == Machine!Spec

\* A trap leaves its mark in the CSRs: where to go on, and interrupts off.
TrapIsRecorded ==
    [][state = "S1" => csr'.mepc = saved /\ ~csr'.mie /\ csr'.mpie = csr.mie]_vars

\* A mul or div gets the result of its own operands.
ResultIsOwn == ex.live /\ MdStart /\ MdDone => MdResult = H!MulDiv(Src1, Src2)

\* A request is kept, whatever the core is at, and served when interrupts are enabled.
RequestIsServed == [](mip => <>(state = "S1" /\ mcause = IrqVec))
=============================================================================
