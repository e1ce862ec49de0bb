--------------------------- MODULE PipelineProofs ---------------------------
(***************************************************************************)
(* The pipeline, for every program, every number of registers and every    *)
(* length of a division: as long as nothing happens that the core does not *)
(* stand (Benign), what the stages hold agrees (StagesAgree), and a        *)
(* program sees one instruction executed after another.                    *)
(***************************************************************************)
EXTENDS Pipeline, TLAPS

\* The program in memory is made of instructions.
ProgOK == \A k \in DOMAIN prog : prog[k] \in H!Instr

USE DEF H!Val, Val

-----------------------------------------------------------------------------
(* The data *)

LEMMA FetchType == ASSUME ProgOK, NEW p PROVE H!Fetch(p) \in H!Instr
<1>1. H!Nop \in H!Instr
  BY RegAssumption DEF H!Nop, H!Instr, H!Ops, H!Reg
<1> QED
  BY <1>1 DEF H!Fetch, ProgOK

LEMMA DataTypes ==
  ASSUME NEW a \in 0 .. 2, NEW b \in 0 .. 2
  PROVE  H!Alu(a, b) \in 0 .. 2 /\ H!MulDiv(a, b) \in 0 .. 2 /\ H!Join(a, b) \in 0 .. 2 /\ H!Word2(a) \in 0 .. 2
BY SMT DEF H!Alu, H!MulDiv, H!Join, H!Word2

LEMMA NopFacts ==
  /\ Nop \in H!Instr /\ Nop.op = "op" /\ Nop.rd = 0 /\ Nop.rs1 = 0 /\ Nop.rs2 = 0
  /\ NoId \in [i : H!Instr, pc : Int, dummy : BOOLEAN] /\ NoId.i = Nop /\ NoId.dummy = TRUE
  /\ NoEx.i = Nop /\ NoEx.dummy = TRUE /\ NoEx.live = FALSE /\ NoEx.mis = FALSE
  /\ NoMem.dummy = TRUE /\ NoMem.store = FALSE /\ NoMem.wen = FALSE /\ NoMem.csr = "none" /\ NoMem.op = "op" /\ NoMem.rd = 0
  /\ NoWb.wen = FALSE /\ NoWb.csr = "none"
BY RegAssumption DEF Nop, H!Nop, H!Instr, H!Ops, H!Reg, NoId, NoEx, NoMem, NoWb

LEMMA BankType ==
  ASSUME TypeOK
  PROVE  Bank \in [Reg -> 0 .. 2] /\ \A r \in Reg : ReadBank(r) \in 0 .. 2
BY RegAssumption DEF TypeOK, Bank, ReadBank

LEMMA SrcType == ASSUME TypeOK PROVE Src1 \in 0 .. 2 /\ Src2 \in 0 .. 2
BY DEF TypeOK, Src1, Src2, Forward

LEMMA NoStageTypes ==
  /\ NoEx \in [i : H!Instr, pc : Int, dummy : BOOLEAN, live : BOOLEAN, mis : BOOLEAN, d1 : Val, d2 : Val]
  /\ NoMem \in [op : H!Ops, rd : Reg, wen : BOOLEAN, csr : CsrNames, a : Val, mpie : BOOLEAN,
                out : Val, data : Val, store : BOOLEAN, pc : Int, dummy : BOOLEAN, mis : BOOLEAN]
  /\ NoWb \in [op : H!Ops, rd : Reg, wen : BOOLEAN, csr : CsrNames, a : Val, mpie : BOOLEAN,
               val : Val, memout : Val]
BY NopFacts, RegAssumption DEF NoEx, NoMem, NoWb, H!Ops, Reg, H!Reg, CsrNames

LEMMA InstrFields ==
  ASSUME NEW i \in H!Instr
  PROVE  i.op \in H!Ops /\ i.rd \in Reg /\ i.rs1 \in Reg /\ i.rs2 \in Reg /\ i.to \in Int
BY DEF H!Instr, Reg

LEMMA CsrNameType == ASSUME NEW op \in H!Ops PROVE CsrName(op) \in CsrNames
BY DEF H!Ops, CsrName, CsrNames

LEMMA CsrWriteType ==
  ASSUME NEW c \in CsrFile, NEW op, CsrName(op) \notin {"none", "mret"}, NEW mpie \in BOOLEAN, NEW a \in Val
  PROVE  H!CsrWrite(c, op, mpie, a) \in CsrFile
<1>1. op \in {"scratch", "epc", "csrsi", "csrci"}
  BY DEF CsrName
<1>2. [c EXCEPT !.scratch = a] \in CsrFile
  BY DEF CsrFile
<1>3. [c EXCEPT !.mepc = a] \in CsrFile
  BY DEF CsrFile
<1>4. [c EXCEPT !.mie = TRUE, !.mpie = mpie] \in CsrFile
  BY DEF CsrFile
<1>5. [c EXCEPT !.mie = FALSE, !.mpie = mpie] \in CsrFile
  BY DEF CsrFile
<1> QED
  BY <1>1, <1>2, <1>3, <1>4, <1>5 DEF H!CsrWrite

\* Every register of the core keeps its type.
LEMMA TypeStep ==
  ASSUME TypeOK, ProgOK, CsrReads, NEW line \in BOOLEAN, Clock(line)
  PROVE  TypeOK' /\ ProgOK'
<1>1. ex.i \in H!Instr /\ id.i \in H!Instr /\ pc \in Int /\ id.pc \in Int
  BY DEF TypeOK
<1>2. PcNext \in Int
  BY <1>1, InstrFields, AddrAssumption DEF PcNext, TypeOK, CsrFile
<1>3. IdNext \in [i : H!Instr, pc : Int, dummy : BOOLEAN]
  BY FetchType, NopFacts DEF IdNext, TypeOK
<1>4. ExNext \in [i : H!Instr, pc : Int, dummy : BOOLEAN, live : BOOLEAN, mis : BOOLEAN, d1 : Val, d2 : Val]
  <2>1. \A r \in Reg : ReadBank(r) \in Val
    BY BankType
  <2>2. Misaligned \in BOOLEAN
    BY DEF Misaligned
  <2>3. Held \in [i : H!Instr, pc : Int, dummy : BOOLEAN, live : BOOLEAN, mis : BOOLEAN, d1 : Val, d2 : Val]
    BY <1>1, <2>1, <2>2, InstrFields DEF Held, TypeOK
  <2>4. Bubble \in [i : H!Instr, pc : Int, dummy : BOOLEAN, live : BOOLEAN, mis : BOOLEAN, d1 : Val, d2 : Val]
    <3>1. [ex.i EXCEPT !.rd = 0] \in H!Instr
      BY <1>1, RegAssumption DEF H!Instr, H!Reg
    <3>2. Bubble = [ex EXCEPT !.live = FALSE, !.dummy = TRUE, !.mis = FALSE, !.i = [ex.i EXCEPT !.rd = 0]]
      BY DEF Bubble
    <3> QED
      BY <3>1, <3>2 DEF TypeOK
  <2>5. [i |-> id.i, pc |-> id.pc, dummy |-> id.dummy, live |-> TRUE, mis |-> FALSE,
         d1 |-> ReadBank(id.i.rs1), d2 |-> ReadBank(id.i.rs2)]
          \in [i : H!Instr, pc : Int, dummy : BOOLEAN, live : BOOLEAN, mis : BOOLEAN, d1 : Val, d2 : Val]
    BY <1>1, <2>1, InstrFields DEF TypeOK
  <2> QED
    BY <2>3, <2>4, <2>5, NoStageTypes DEF ExNext
<1>5. MemNext \in [op : H!Ops, rd : Reg, wen : BOOLEAN, csr : CsrNames, a : Val, mpie : BOOLEAN,
                   out : Val, data : Val, store : BOOLEAN, pc : Int, dummy : BOOLEAN, mis : BOOLEAN]
  <2>1. MdResult \in Val /\ ExOut \in Val
    BY SrcType, DataTypes DEF MdResult, ExOut, TypeOK, CsrFile
  <2>2. BusAddr \in Val /\ dmem[BusAddr] \in Val
    BY SrcType, DataTypes DEF BusAddr, TypeOK
  <2>3. ex.i.op \in H!Ops /\ ex.i.rd \in Reg /\ (IF ex.live THEN CsrName(ex.i.op) ELSE "none") \in CsrNames
    BY <1>1, InstrFields, CsrNameType DEF CsrNames
  <2>4. IsStore \in BOOLEAN /\ (ex.live /\ WritesReg(ex.i.op) /\ ~Misaligned) \in BOOLEAN
    BY DEF IsStore
  <2>5. csr_reg.mpie \in BOOLEAN /\ ex.pc \in Int /\ ex.dummy \in BOOLEAN /\ ex.mis \in BOOLEAN
    BY DEF TypeOK, CsrFile
  <2> QED
    BY <2>1, <2>2, <2>3, <2>4, <2>5, SrcType, NoStageTypes DEF MemNext
<1>6. WbNext \in [op : H!Ops, rd : Reg, wen : BOOLEAN, csr : CsrNames, a : Val, mpie : BOOLEAN,
                  val : Val, memout : Val]
  <2>1. Memout \in Val
    BY DataTypes DEF Memout, TypeOK
  <2> QED
    BY <2>1, NoStageTypes DEF WbNext, TypeOK
<1>7. dmem' \in [Val -> Val]
  BY SrcType, DataTypes DEF Clock, BusAddr, TypeOK
<1>8. MdNext \in [left : Nat, a : Val, b : Val]
  BY SrcType, AddrAssumption DEF MdNext, TypeOK
<1>9. CsrNext \in CsrFile
  <2>1. csr \in CsrFile /\ saved \in Int /\ wb.a \in Val /\ wb.mpie \in BOOLEAN
    BY DEF TypeOK
  <2>2. H!MretWrite(csr) \in CsrFile /\ H!TrapWrite(csr, saved) \in CsrFile
    BY <2>1 DEF CsrFile, H!MretWrite, H!TrapWrite
  <2>3. wb.csr \notin {"none", "mret"} => H!CsrWrite(csr, wb.op, wb.mpie, wb.a) \in CsrFile
    BY <2>1, CsrWriteType DEF CsrReads
  <2> QED
    BY <2>1, <2>2, <2>3 DEF CsrNext
<1>10. saved' \in Int /\ mcause' \in {ExcVec, IrqVec} /\ state' \in {"STAND_BY", "S1"}
  BY <1>1 DEF Clock, FsmStep, Resume, TypeOK
<1>11. mip' \in BOOLEAN /\ irqs' \in 0 .. 2 /\ stores' \in 0 .. 3
  BY DEF Clock, MipNext, TypeOK
<1>12. bank' \in [Reg -> Val] /\ addr_reg' \in Val
  BY BankType, SrcType DEF Clock
<1>13. ProgOK'
  BY DEF Clock, ProgOK
<1> QED
  BY <1>2, <1>3, <1>4, <1>5, <1>6, <1>7, <1>8, <1>9, <1>10, <1>11, <1>12, <1>13 DEF Clock, TypeOK

-----------------------------------------------------------------------------
(* How the stages move *)

IInv == StagesAgree /\ ProgOK

\* The program stays.
LEMMA FetchSame == ASSUME prog' = prog PROVE \A p : H!Fetch(p)' = H!Fetch(p)
BY DEF H!Fetch

LEMMA IdMoves ==
  ASSUME NEW line \in BOOLEAN, Clock(line)
  PROVE  /\ TakeBranch \/ IfFlush => id' = NoId
         /\ ~(TakeBranch \/ IfFlush) /\ StallId => id' = id
         /\ ~(TakeBranch \/ IfFlush) /\ ~StallId =>
                id'.i = H!Fetch(pc) /\ id'.pc = pc /\ id'.dummy = FALSE
BY DEF Clock, IdNext

\* The instruction in EX stays there, or leaves a bubble.
Holds   == ~(TakeBranch \/ IdFlush) /\ (MdStall \/ Misaligned)
Bubbles == ~(TakeBranch \/ IdFlush) /\ ~(MdStall \/ Misaligned) /\ StallId

LEMMA ExMoves ==
  ASSUME TypeOK, NEW line \in BOOLEAN, Clock(line)
  PROVE  /\ TakeBranch \/ IdFlush => ex' = NoEx
         /\ Holds => /\ ex'.i = ex.i /\ ex'.pc = ex.pc /\ ex'.dummy = ex.dummy /\ ex'.live = ex.live
                     /\ ex'.mis = (ex.mis \/ Misaligned)
                     /\ ex'.d1 = ReadBank(ex.i.rs1) /\ ex'.d2 = ReadBank(ex.i.rs2)
         /\ Bubbles => /\ ex'.live = FALSE /\ ex'.dummy = TRUE /\ ex'.mis = FALSE
                       /\ ex'.i.op = ex.i.op
         /\ Enters => /\ ex'.i = id.i /\ ex'.pc = id.pc /\ ex'.dummy = id.dummy /\ ex'.live = TRUE
                      /\ ex'.mis = FALSE
                      /\ ex'.d1 = ReadBank(id.i.rs1) /\ ex'.d2 = ReadBank(id.i.rs2)
         /\ TakeBranch \/ IdFlush \/ Holds \/ Bubbles \/ Enters
<1>1. ex' = ExNext
  BY DEF Clock
<1>2. TakeBranch \/ IdFlush => ex' = NoEx
  BY <1>1 DEF ExNext
<1>3. Holds => ex' = Held
  BY <1>1 DEF ExNext, Holds
<1>4. /\ Held.i = ex.i /\ Held.pc = ex.pc /\ Held.dummy = ex.dummy /\ Held.live = ex.live
      /\ Held.mis = (ex.mis \/ Misaligned)
      /\ Held.d1 = ReadBank(ex.i.rs1) /\ Held.d2 = ReadBank(ex.i.rs2)
  BY DEF Held, TypeOK
<1>5. Bubbles => ex' = Bubble
  BY <1>1 DEF ExNext, Bubbles
<1>6. Bubble.live = FALSE /\ Bubble.dummy = TRUE /\ Bubble.mis = FALSE /\ Bubble.i.op = ex.i.op
  BY DEF Bubble, TypeOK, H!Instr
<1>7. Enters => ex' = [i |-> id.i, pc |-> id.pc, dummy |-> id.dummy, live |-> TRUE, mis |-> FALSE,
                       d1 |-> ReadBank(id.i.rs1), d2 |-> ReadBank(id.i.rs2)]
  BY <1>1 DEF ExNext, Enters, StallId
<1>8. TakeBranch \/ IdFlush \/ Holds \/ Bubbles \/ Enters
  BY DEF Holds, Bubbles, Enters
<1> QED
  BY <1>2, <1>3, <1>4, <1>5, <1>6, <1>7, <1>8

LEMMA MemMoves ==
  ASSUME TypeOK, NEW line \in BOOLEAN, Clock(line)
  PROVE  /\ MdStall \/ ExFlush => mem' = NoMem
         /\ ~(MdStall \/ ExFlush) =>
              /\ mem'.op = ex.i.op /\ mem'.rd = ex.i.rd
              /\ mem'.wen = (ex.live /\ WritesReg(ex.i.op) /\ ~Misaligned)
              /\ mem'.csr = IF ex.live THEN CsrName(ex.i.op) ELSE "none"
              /\ mem'.a = Src1 /\ mem'.mpie = csr_reg.mpie /\ mem'.out = ExOut
              /\ mem'.data = dmem[BusAddr] /\ mem'.store = IsStore /\ mem'.pc = ex.pc
              /\ mem'.dummy = ex.dummy /\ mem'.mis = ex.mis
BY DEF Clock, MemNext

LEMMA WbMoves ==
  ASSUME TypeOK, NEW line \in BOOLEAN, Clock(line)
  PROVE  /\ MemFlush => wb' = NoWb
         /\ ~MemFlush =>
              /\ wb'.op = mem.op /\ wb'.wen = mem.wen /\ wb'.rd = mem.rd /\ wb'.csr = mem.csr
              /\ wb'.a = mem.a /\ wb'.mpie = mem.mpie /\ wb'.memout = Memout
              /\ wb'.val = IF mem.op \in H!Loads THEN Memout ELSE mem.out
BY DEF Clock, WbNext

-----------------------------------------------------------------------------
(* Every stage holds an instruction of the program, a bubble or nothing *)

LEMMA OpFacts ==
  /\ Nop.op \notin H!Loads /\ Nop.op \notin H!Stores /\ Nop.op \notin H!MulDivs /\ CsrName(Nop.op) = "none"
  /\ \A op \in H!Stores : ~WritesReg(op) /\ CsrName(op) = "none" /\ op \notin H!Loads /\ op \notin H!MulDivs
  /\ \A op \in H!Loads : WritesReg(op) /\ CsrName(op) = "none" /\ op \notin H!MulDivs
  /\ \A op \in H!MulDivs : WritesReg(op) /\ CsrName(op) = "none"
BY NopFacts DEF H!Loads, H!Stores, H!MulDivs, CsrName, WritesReg

\* What is split into two accesses is an instruction of the program.
LEMMA MisalignedFacts ==
  ASSUME Fetched, Misaligned
  PROVE  ~ex.dummy /\ ex.live /\ ~ex.mis /\ ex.i.op \in {"lwmis", "swmis"}
BY OpFacts DEF Misaligned, L, IsStore, Fetched

LEMMA FetchedStep ==
  ASSUME IInv, NEW line \in BOOLEAN, Clock(line)
  PROVE  Fetched'
<1> USE DEF IInv, StagesAgree
<1>1. prog' = prog
  BY DEF Clock
<1>2. IF id'.dummy THEN id' = NoId ELSE id'.i = H!Fetch(id'.pc)
  BY IdMoves, NopFacts DEF Fetched
<1>3. IF ex'.dummy THEN ~ex'.mis /\ (ex'.live => ex'.i = Nop) ELSE ex'.live /\ ex'.i = H!Fetch(ex'.pc)
  <2>1. CASE TakeBranch \/ IdFlush
    BY <2>1, ExMoves, NopFacts
  <2>2. CASE Holds
    <3>1. ex'.i = ex.i /\ ex'.pc = ex.pc /\ ex'.dummy = ex.dummy /\ ex'.live = ex.live
          /\ ex'.mis = (ex.mis \/ Misaligned)
      BY <2>2, ExMoves
    <3> QED
      BY <3>1, MisalignedFacts DEF Fetched
  <2>3. CASE Bubbles
    BY <2>3, ExMoves
  <2>4. CASE Enters
    BY <2>4, ExMoves, NopFacts DEF Fetched
  <2> QED
    BY <2>1, <2>2, <2>3, <2>4, ExMoves
<1>4. ex'.i.op # "ecall"
  <2>1. Enters => id.i.op # "ecall"
    BY DEF Enters, IdFlush, Exception
  <2> QED
    BY <2>1, ExMoves, NopFacts DEF Fetched
<1>5. /\ IF mem'.dummy THEN ~mem'.store /\ mem'.csr = "none" /\ (mem'.wen => mem'.rd = 0)
         ELSE /\ mem'.op = H!Fetch(mem'.pc).op /\ mem'.csr = CsrName(mem'.op)
              /\ mem'.store = (mem'.op \in H!Stores) /\ (mem'.wen => ~mem'.store)
      /\ mem'.op # "ecall"
  <2>1. CASE MdStall \/ ExFlush
    BY <2>1, MemMoves, NopFacts
  <2>2. CASE ~(MdStall \/ ExFlush) /\ ex.dummy
    <3>1. ex.live => ex.i = Nop
      BY <2>2 DEF Fetched
    <3>2. ~IsStore
      BY <3>1, OpFacts DEF IsStore
    <3> QED
      BY <2>2, <3>1, <3>2, MemMoves, OpFacts, NopFacts DEF Fetched
  <2>3. CASE ~(MdStall \/ ExFlush) /\ ~ex.dummy
    <3>1. ex.live /\ ex.i = H!Fetch(ex.pc)
      BY <2>3 DEF Fetched
    <3>2. IsStore = (ex.i.op \in H!Stores)
      BY <2>3, <3>1 DEF IsStore
    <3> QED
      BY <2>3, <3>1, <3>2, MemMoves, OpFacts DEF Fetched
  <2> QED
    BY <2>1, <2>2, <2>3
<1> QED
  BY <1>1, <1>2, <1>3, <1>4, <1>5, FetchSame DEF Fetched, H!Fetch, CsrName


-----------------------------------------------------------------------------
(* Program order *)

\* Nothing waits behind a branch taken, a trap or an mret.
LEMMA EmptyMoves ==
  ASSUME Fetched, Ordered, Entering, id.dummy
  PROVE  ~StallId
<1>1. id = NoId
  BY DEF Fetched
<1>2. ex.i.op \in {"op", "mret"}
  BY NopFacts DEF Ordered, Entering
<1>3. ~L /\ ~MdStart /\ ~Misaligned
  BY <1>2 DEF L, MdStart, Misaligned, IsStore, H!Loads, H!Stores, H!MulDivs
<1> QED
  BY <1>1, <1>3, NopFacts, OpFacts DEF StallId, HazardStall, MdStall, CsrStall

\* While a trap is being entered only the nop in ID moves.
LEMMA EnteringMoves ==
  ASSUME Fetched, Ordered, Entering, Benign, state = "S1"
  PROVE  Enters /\ ~Irq /\ ~Mret /\ ~Exception /\ ~MdStall
<1>1. id = NoId /\ ex = NoEx /\ ~Irq
  BY DEF Entering, Benign
<1>2. ~TakeBranch /\ ~MdStall
  BY <1>1, NopFacts, OpFacts DEF TakeBranch, MdStall, MdStart
<1>3. ~Mret /\ ~Exception
  BY <1>1, NopFacts DEF Mret, Exception
<1>4. ~StallId
  BY <1>1, NopFacts, EmptyMoves
<1> QED
  BY <1>1, <1>2, <1>3, <1>4 DEF Enters, IdFlush, ExFlush, MemFlush

LEMMA PcMoves ==
  ASSUME NEW line \in BOOLEAN, Clock(line)
  PROVE  /\ Mret => pc' = csr.mepc
         /\ ~Mret /\ state = "S1" => pc' = mcause
         /\ ~Mret /\ state # "S1" /\ TakeBranch => pc' = ex.i.to
         /\ ~Mret /\ state # "S1" /\ ~TakeBranch => pc' = IF StallId THEN pc ELSE pc + 1
BY DEF Clock, PcNext

LEMMA CsrMoves ==
  ASSUME NEW line \in BOOLEAN, Clock(line)
  PROVE  /\ wb.csr = "mret" => csr' = H!MretWrite(csr)
         /\ wb.csr \notin {"none", "mret"} => csr' = H!CsrWrite(csr, wb.op, wb.mpie, wb.a)
         /\ wb.csr = "none" /\ state = "S1" => csr' = H!TrapWrite(csr, saved)
         /\ wb.csr = "none" /\ state # "S1" => csr' = csr
BY DEF Clock, CsrNext

\* What each write leaves alone.
LEMMA CsrBarKept ==
  ASSUME TypeOK, CsrReads
  PROVE  /\ wb.csr # "scratch" => CsrBar.scratch = csr.scratch
         /\ wb.csr # "epc" => CsrBar.mepc = csr.mepc
         /\ wb.csr # "mret" => CsrBar.mpie = csr.mpie
<1>1. csr \in CsrFile
  BY DEF TypeOK
<1>2. CASE wb.csr = "mret"
  <2>1. CsrBar = H!MretWrite(csr)
    BY <1>2 DEF CsrBar, CsrNext
  <2> QED
    BY <1>1, <1>2, <2>1 DEF H!MretWrite, CsrFile
<1>3. CASE wb.csr \notin {"none", "mret"}
  <2>1. CsrBar = H!CsrWrite(csr, wb.op, wb.mpie, wb.a) /\ wb.csr = CsrName(wb.op)
    BY <1>3 DEF CsrBar, CsrNext, CsrReads
  <2>2. wb.op \in {"scratch", "epc", "csrsi", "csrci"}
    BY <1>3, <2>1 DEF CsrName
  <2>3. CASE wb.op = "scratch"
    BY <1>1, <2>1, <2>3 DEF H!CsrWrite, CsrFile, CsrName
  <2>4. CASE wb.op = "epc"
    BY <1>1, <2>1, <2>4 DEF H!CsrWrite, CsrFile, CsrName
  <2>5. CASE wb.op \in {"csrsi", "csrci"}
    <3>1. wb.csr = "mstatus"
      BY <2>1, <2>5 DEF CsrName
    <3>2. wb.mpie = csr.mpie
      BY <3>1 DEF CsrReads
    <3>3. \/ CsrBar = [csr EXCEPT !.mie = TRUE, !.mpie = wb.mpie]
          \/ CsrBar = [csr EXCEPT !.mie = FALSE, !.mpie = wb.mpie]
      BY <2>1, <2>5 DEF H!CsrWrite
    <3> QED
      BY <1>1, <3>1, <3>2, <3>3 DEF CsrFile
  <2> QED
    BY <2>2, <2>3, <2>4, <2>5
<1>4. CASE wb.csr = "none"
  BY <1>4 DEF CsrBar
<1> QED
  BY <1>2, <1>3, <1>4

LEMMA CsrKept ==
  ASSUME TypeOK, CsrReads, NEW line \in BOOLEAN, Clock(line), state # "S1"
  PROVE  /\ csr' = CsrBar
         /\ wb.csr # "scratch" => csr'.scratch = csr.scratch
         /\ wb.csr # "epc" => csr'.mepc = csr.mepc
         /\ wb.csr # "mret" => csr'.mpie = csr.mpie
<1>1. csr' = CsrBar
  BY CsrMoves DEF CsrBar, Clock
<1> QED
  BY <1>1, CsrBarKept

LEMMA OrderedStep ==
  ASSUME IInv, Benign, NEW line \in BOOLEAN, Clock(line)
  PROVE  Ordered'
<1> USE DEF IInv, StagesAgree
<1>1. ~id'.dummy => pc' = id'.pc + 1
  <2>1. SUFFICES ASSUME ~(TakeBranch \/ IfFlush), ~id'.dummy PROVE pc' = id'.pc + 1
    BY IdMoves, NopFacts
  <2>2. pc' = IF StallId THEN pc ELSE pc + 1
    BY <2>1, PcMoves DEF IfFlush
  <2> QED
    BY <2>1, <2>2, IdMoves DEF Ordered
<1>2. ~ex'.dummy => IF ex'.i.op = "mret" THEN id'.dummy /\ pc' = csr'.mepc
                    ELSE ~id'.dummy /\ id'.pc = ex'.pc + 1
  <2>1. CASE Holds /\ ~ex.dummy
    <3>1. ex.i.op # "mret" /\ StallId
      BY <2>1, OpFacts, MisalignedFacts DEF Holds, MdStall, MdStart, H!MulDivs, StallId
    <3>2. ~id.dummy /\ id.pc = ex.pc + 1 /\ state # "S1"
      BY <2>1, <3>1, NopFacts DEF Ordered, Entering
    <3>3. ~(TakeBranch \/ IfFlush)
      BY <2>1, <3>1, <3>2 DEF Holds, IfFlush, IdFlush, Benign
    <3> QED
      BY <2>1, <3>1, <3>2, <3>3, IdMoves, ExMoves
  <2>2. CASE Enters /\ ~id.dummy
    <3>1. ~TakeBranch /\ ~Irq /\ ~Exception /\ state # "S1"
      BY <2>2, NopFacts DEF Enters, IdFlush, Entering
    <3>2. CASE id.i.op = "mret"
      <4>1. Mret
        BY <3>1, <3>2 DEF Mret
      <4>2. id'.dummy /\ pc' = csr.mepc
        BY <4>1, IdMoves, PcMoves, NopFacts DEF IfFlush
      <4>3. csr'.mepc = csr.mepc
        BY <3>1, <4>1, CsrKept DEF Benign
      <4> QED
        BY <2>2, <3>2, <4>2, <4>3, ExMoves
    <3>3. CASE id.i.op # "mret"
      <4>1. ~IfFlush /\ ~StallId
        BY <2>2, <3>1, <3>3 DEF IfFlush, Mret, Enters
      <4> QED
        BY <2>2, <3>1, <3>3, <4>1, IdMoves, ExMoves DEF Ordered
    <3> QED
      BY <3>2, <3>3
  <2> QED
    BY <2>1, <2>2, ExMoves, NopFacts
<1>3. id'.dummy => \/ state' = "S1"
                   \/ ~csr'.mie /\ ex'.dummy /\ ex'.i = Nop
                   \/ ex' = NoEx /\ ~mem'.dummy /\ ~mem'.store
                   \/ ~ex'.dummy /\ ex'.i.op = "mret"
  <2>1. CASE state = "S1"
    <3>1. csr' = H!TrapWrite(csr, saved)
      BY <2>1, CsrMoves DEF Entering
    <3>2. ~csr'.mie
      BY <3>1 DEF H!TrapWrite, TypeOK, CsrFile
    <3> QED
      BY <2>1, <3>2, EnteringMoves, ExMoves, NopFacts DEF Entering
  <2>2. CASE state = "STAND_BY" /\ (Irq \/ Exception)
    BY <2>2 DEF Clock, FsmStep, Trapping
  <2>3. CASE state = "STAND_BY" /\ ~Irq /\ ~Exception /\ Mret
    <3>1. Enters
      BY <2>3 DEF Enters, Benign, Mret, IdFlush, ExFlush, MemFlush
    <3>2. id.i.op = "mret" /\ ~id.dummy
      BY <2>3, NopFacts DEF Mret, Fetched
    <3> QED
      BY <3>1, <3>2, ExMoves
  <2>4. CASE state = "STAND_BY" /\ ~Irq /\ ~Exception /\ ~Mret /\ TakeBranch
    <3>1. ex.live /\ ex.i.op = "beq" /\ ~ex.dummy
      BY <2>4, NopFacts DEF Benign, TakeBranch, Fetched
    <3>2. ~MdStall /\ ~ExFlush /\ ~IsStore
      BY <2>4, <3>1 DEF MdStall, MdStart, H!MulDivs, ExFlush, MemFlush, IsStore, H!Stores
    <3> QED
      BY <2>4, <3>1, <3>2, ExMoves, MemMoves
  <2>5. CASE ~(TakeBranch \/ IfFlush)
    BY <2>5, IdMoves, EmptyMoves
  <2> QED
    BY <2>1, <2>2, <2>3, <2>4, <2>5 DEF IfFlush, TypeOK
<1> QED
  BY <1>1, <1>2, <1>3, NopFacts DEF Ordered, Nop, NoEx, H!Nop


-----------------------------------------------------------------------------
(* Registers and forwarding *)

\* What register r will read as after the next falling edge.
NextRead(r) == IF r = 0 THEN 0 ELSE Bank'[r]

LEMMA RegsMove ==
  ASSUME TypeOK, NEW line \in BOOLEAN, Clock(line), NEW r \in Reg
  PROVE  /\ MemFlush \/ ~mem.wen \/ mem.rd # r \/ r = 0 => NextRead(r) = ReadBank(r)
         /\ ~MemFlush /\ mem.wen /\ mem.rd = r /\ r # 0 => NextRead(r) = wb'.val
<1>1. bank' = Bank /\ Bank \in [Reg -> 0 .. 2]
  BY BankType DEF Clock
<1>2. Bank' = IF wb'.wen THEN [bank' EXCEPT ![wb'.rd] = wb'.val] ELSE bank'
  BY DEF Bank
<1>3. MemFlush => ~wb'.wen
  BY WbMoves, NopFacts
<1>4. ~MemFlush => wb'.wen = mem.wen /\ wb'.rd = mem.rd
  BY WbMoves
<1>5. CASE MemFlush \/ ~mem.wen
  <2>1. Bank' = Bank
    BY <1>1, <1>2, <1>3, <1>4, <1>5
  <2> QED
    BY <1>5, <2>1 DEF NextRead, ReadBank
<1>6. CASE ~MemFlush /\ mem.wen
  <2>1. Bank' = [Bank EXCEPT ![mem.rd] = wb'.val]
    BY <1>1, <1>2, <1>4, <1>6
  <2> QED
    BY <1>1, <1>6, <2>1 DEF NextRead, ReadBank
<1> QED
  BY <1>5, <1>6

\* Forwarding: the operands in EX are what the registers will be when the instruction in front
\* has written them.
LEMMA SourcesMove ==
  ASSUME IInv, NEW line \in BOOLEAN, Clock(line), ~MemFlush, ex.live
  PROVE  /\ UsesRs1(ex.i.op) => Src1 = NextRead(ex.i.rs1)
         /\ UsesRs2(ex.i.op) => Src2 = NextRead(ex.i.rs2)
<1> USE DEF IInv, StagesAgree
<1>1. ASSUME NEW r \in Reg, NEW d, d = IF r = 0 THEN 0 ELSE bank[r],
             mem.wen /\ mem.op \in H!Loads /\ mem.rd # 0 => r # mem.rd
      PROVE  Forward(r, d) = NextRead(r)
  <2>1. CASE r # 0 /\ mem.wen /\ r = mem.rd
    <3>1. wb'.val = mem.out
      BY <1>1, <2>1, WbMoves
    <3> QED
      BY <2>1, <3>1, RegsMove DEF Forward
  <2>2. CASE ~(r # 0 /\ mem.wen /\ r = mem.rd)
    <3>1. NextRead(r) = ReadBank(r)
      BY <2>2, RegsMove
    <3> QED
      BY <1>1, <2>2, <3>1 DEF Forward, ReadBank, Bank, TypeOK
  <2> QED
    BY <2>1, <2>2
<1>2. ex.i.rs1 \in Reg /\ ex.i.rs2 \in Reg
  BY InstrFields DEF TypeOK
<1> QED
  BY <1>1, <1>2 DEF Src1, Src2, Operands

LEMMA SourcesStay ==
  ASSUME TypeOK, Operands, ex.live, ~mem.wen
  PROVE  Src1 = ReadBank(ex.i.rs1) /\ Src2 = ReadBank(ex.i.rs2)
<1>1. ex.i.rs1 \in Reg /\ ex.i.rs2 \in Reg
  BY InstrFields DEF TypeOK
<1> QED
  BY <1>1 DEF Src1, Src2, Forward, ReadBank, Bank, Operands, TypeOK

LEMMA MdMoves ==
  ASSUME TypeOK, NEW line \in BOOLEAN, Clock(line)
  PROVE  /\ md.left > 0 => md'.left = md.left - 1 /\ md'.a = md.a /\ md'.b = md.b
         /\ md.left = 0 /\ MdStall => md'.a = Src1 /\ md'.b = Src2
         /\ md.left = 0 /\ ~MdStall => md'.left = 0
BY DEF Clock, MdNext, TypeOK

LEMMA OperandsStep ==
  ASSUME IInv, Benign, NEW line \in BOOLEAN, Clock(line)
  PROVE  Operands'
<1> USE DEF IInv, StagesAgree
<1>1. SUFFICES ASSUME ex'.live
               PROVE  /\ ex'.d1 = (IF ex'.i.rs1 = 0 THEN 0 ELSE bank'[ex'.i.rs1])
                      /\ ex'.d2 = (IF ex'.i.rs2 = 0 THEN 0 ELSE bank'[ex'.i.rs2])
                      /\ mem'.wen /\ mem'.op \in H!Loads /\ mem'.rd # 0 =>
                             /\ UsesRs1(ex'.i.op) => ex'.i.rs1 # mem'.rd
                             /\ UsesRs2(ex'.i.op) => ex'.i.rs2 # mem'.rd
                      /\ ex'.i.op \in {"mul", "div"} /\ md'.left > 0 =>
                             ~mem'.wen /\ md'.a = NextRead(ex'.i.rs1) /\ md'.b = NextRead(ex'.i.rs2)
  BY DEF Operands, NextRead, ReadBank, H!Loads, UsesRs1, UsesRs2, H!MulDivs, H!Stores
<1>2. bank' = Bank
  BY DEF Clock
<1>3. CASE Holds
  <2>1. ex.live /\ ex'.i = ex.i /\ ex'.d1 = ReadBank(ex.i.rs1) /\ ex'.d2 = ReadBank(ex.i.rs2)
        /\ ~ExFlush /\ ~MemFlush
    BY <1>1, <1>3, ExMoves DEF Holds, IdFlush, ExFlush
  <2>2. ~mem'.wen
    BY <1>3, <2>1, MemMoves, NopFacts DEF Holds
  <2>3. ASSUME ex.i.op \in {"mul", "div"}, md'.left > 0
        PROVE  md'.a = NextRead(ex.i.rs1) /\ md'.b = NextRead(ex.i.rs2)
    <3>1. MdStall /\ UsesRs1(ex.i.op) /\ UsesRs2(ex.i.op)
      BY <1>3, <2>3, MisalignedFacts DEF Holds, UsesRs1, UsesRs2, H!MulDivs
    <3>2. CASE md.left = 0
      BY <2>1, <3>1, <3>2, MdMoves, SourcesMove
    <3>3. CASE md.left > 0
      <4>1. ~mem.wen /\ md.a = ReadBank(ex.i.rs1) /\ md.b = ReadBank(ex.i.rs2)
        BY <2>1, <2>3, <3>3 DEF Operands
      <4>2. ex.i.rs1 \in Reg /\ ex.i.rs2 \in Reg
        BY InstrFields DEF TypeOK
      <4> QED
        BY <3>3, <4>1, <4>2, MdMoves, RegsMove
    <3> QED
      BY <3>2, <3>3 DEF TypeOK
  <2> QED
    BY <1>2, <2>1, <2>2, <2>3 DEF ReadBank
<1>4. CASE Enters
  <2>1. ex'.i = id.i /\ ex'.d1 = ReadBank(id.i.rs1) /\ ex'.d2 = ReadBank(id.i.rs2)
        /\ ~HazardStall /\ ~MdStall
    BY <1>4, ExMoves DEF Enters, StallId
  <2>2. mem'.wen /\ mem'.op \in H!Loads => L /\ mem'.rd = ex.i.rd
    BY MemMoves, NopFacts DEF L
  <2>3. id.i.op \in {"mul", "div"} => md'.left = 0
    <3>1. id.i.op \in {"mul", "div"} => md.left \in {0, 1}
      BY <1>4 DEF Benign, TypeOK
    <3> QED
      BY <2>1, <3>1, MdMoves
  <2> QED
    BY <1>2, <2>1, <2>2, <2>3 DEF ReadBank, HazardStall
<1> QED
  BY <1>1, <1>3, <1>4, ExMoves, NopFacts

LEMMA HalvesStep ==
  ASSUME IInv, Benign, NEW line \in BOOLEAN, Clock(line)
  PROVE  Halves'
<1> USE DEF IInv, StagesAgree
<1>1. SUFFICES ASSUME ex'.mis
               PROVE  /\ ~ex'.dummy /\ ex'.i.op \in {"lwmis", "swmis"} /\ addr_reg' = NextRead(ex'.i.rs1)
                      /\ ~mem'.dummy /\ mem'.pc = ex'.pc /\ ~mem'.mis /\ ~mem'.wen
                      /\ ex'.i.op = "lwmis" => mem'.data = dmem'[addr_reg']
  BY DEF Halves, NextRead, ReadBank
<1>2. Holds
  BY <1>1, ExMoves, NopFacts
<1>3. Misaligned /\ ~MdStall
  <2>1. ex.mis \/ Misaligned
    BY <1>1, <1>2, ExMoves
  <2>2. ex.i.op \in {"lwmis", "swmis"}
    BY <2>1, MisalignedFacts DEF Halves
  <2> QED
    BY <1>2, <2>2 DEF Holds, MdStall, MdStart, H!MulDivs
<1>4. ~ex.dummy /\ ex.live /\ ~ex.mis /\ ex.i.op \in {"lwmis", "swmis"}
  BY <1>3, MisalignedFacts
<1>5. ~ExFlush /\ ~MemFlush
  BY <1>2 DEF Holds, IdFlush, ExFlush
<1>6. Src1 = NextRead(ex.i.rs1)
  BY <1>4, <1>5, SourcesMove DEF UsesRs1
<1>7. addr_reg' = Src1 /\ BusAddr = Src1
  BY <1>4 DEF Clock, BusAddr
<1>8. ex.i.op = "lwmis" => dmem' = dmem
  BY DEF Clock, IsStore, H!Stores
<1> QED
  BY <1>2, <1>3, <1>4, <1>5, <1>6, <1>7, <1>8, ExMoves, MemMoves


-----------------------------------------------------------------------------
(* CSRs *)

LEMMA CsrNameFacts == \A op \in H!Ops :
  /\ CsrName(op) = "scratch" <=> op = "scratch"
  /\ CsrName(op) = "mstatus" <=> op \in {"csrsi", "csrci"}
  /\ CsrName(op) = "epc" <=> op = "epc"
  /\ CsrName(op) = "mret" <=> op = "mret"
BY DEF CsrName

LEMMA CsrReadsStep ==
  ASSUME IInv, Benign, NEW line \in BOOLEAN, Clock(line)
  PROVE  CsrReads'
<1> USE DEF IInv, StagesAgree
<1>1. csr_reg' = csr
  BY DEF Clock
<1>2. wb'.csr = (IF MemFlush THEN "none" ELSE mem.csr)
  BY WbMoves, NopFacts
<1>3. /\ mem'.csr # "none" => ex.live /\ mem'.csr = CsrName(ex.i.op) /\ mem'.mpie = csr_reg.mpie
  BY MemMoves, NopFacts
<1>4. ex'.live /\ ex'.i.op \in {"scratch", "csrsi", "csrci", "mret"} =>
        Enters /\ id.i.op = ex'.i.op /\ state # "S1" /\ ~CsrStall
  <2>1. Holds => ex.i.op \notin {"scratch", "csrsi", "csrci", "mret"}
    BY MisalignedFacts DEF Holds, MdStall, MdStart, H!MulDivs
  <2>2. Enters /\ id.i.op \in {"scratch", "csrsi", "csrci", "mret"} => state # "S1" /\ ~CsrStall
    BY NopFacts DEF Entering, Enters, StallId
  <2> QED
    BY <2>1, <2>2, ExMoves, NopFacts
<1>5. ex.i.op \in H!Ops /\ id.i.op \in H!Ops
  BY InstrFields DEF TypeOK
<1>6. ex'.live /\ ex'.i.op = "scratch" =>
        csr_reg'.scratch = csr'.scratch /\ mem'.csr # "scratch" /\ wb'.csr # "scratch"
  <2>1. SUFFICES ASSUME ex'.live, ex'.i.op = "scratch"
                 PROVE  csr'.scratch = csr.scratch /\ mem'.csr # "scratch" /\ wb'.csr # "scratch"
    BY <1>1
  <2>2. (ex.live => CsrName(ex.i.op) # "scratch") /\ mem.csr # "scratch" /\ wb.csr # "scratch" /\ state # "S1"
    BY <1>4, <2>1 DEF CsrStall, CsrName
  <2> QED
    BY <1>2, <1>3, <2>2, CsrKept
<1>7. ex'.live /\ ex'.i.op \in {"csrsi", "csrci"} =>
        csr_reg'.mpie = csr'.mpie /\ {mem'.csr, wb'.csr} \cap {"mret", "mstatus"} = {}
  <2>1. SUFFICES ASSUME ex'.live, ex'.i.op \in {"csrsi", "csrci"}
                 PROVE  csr'.mpie = csr.mpie /\ {mem'.csr, wb'.csr} \cap {"mret", "mstatus"} = {}
    BY <1>1
  <2>2. (ex.live => CsrName(ex.i.op) # "mstatus") /\ mem.csr # "mstatus" /\ wb.csr # "mstatus" /\ state # "S1"
    BY <1>4, <2>1 DEF CsrStall, CsrName
  <2>3. mem.csr # "mret" /\ wb.csr # "mret" /\ (ex.live => ex.i.op # "mret")
    BY <1>4, <2>1 DEF Benign
  <2>4. mem'.csr \notin {"mret", "mstatus"} /\ wb'.csr \notin {"mret", "mstatus"}
    BY <1>2, <1>3, <1>5, <2>2, <2>3, CsrNameFacts
  <2> QED
    BY <2>2, <2>3, <2>4, CsrKept
<1>8. ex'.live /\ ex'.i.op = "mret" => mem'.csr # "epc" /\ wb'.csr # "epc"
  <2>1. SUFFICES ASSUME ex'.live, ex'.i.op = "mret" PROVE mem'.csr # "epc" /\ wb'.csr # "epc"
    OBVIOUS
  <2>2. Mret /\ ~Irq
    BY <1>4, <2>1 DEF Mret, Enters, IdFlush
  <2>3. mem.csr # "epc" /\ (ex.live => ex.i.op # "epc")
    BY <2>2 DEF Benign
  <2> QED
    BY <1>2, <1>3, <1>5, <2>3, CsrNameFacts
<1>9. mem'.csr = "mret" => wb'.csr # "epc"
  BY <1>2, <1>3, <1>5, CsrNameFacts DEF CsrReads
<1>10. mem'.csr = "scratch" => wb'.csr # "scratch"
  BY <1>2, <1>3, <1>5, CsrNameFacts DEF CsrReads
<1>11. mem'.csr = "mstatus" => mem'.mpie = csr'.mpie /\ wb'.csr \notin {"mret", "mstatus"}
  <2>1. SUFFICES ASSUME mem'.csr = "mstatus"
                 PROVE  mem'.mpie = csr'.mpie /\ wb'.csr \notin {"mret", "mstatus"}
    OBVIOUS
  <2>2. ex.live /\ ex.i.op \in {"csrsi", "csrci"} /\ mem'.mpie = csr_reg.mpie
    BY <1>3, <1>5, <2>1, CsrNameFacts
  <2>3. csr_reg.mpie = csr.mpie /\ mem.csr \notin {"mret", "mstatus"} /\ wb.csr # "mret"
    BY <2>2 DEF CsrReads
  <2>4. state # "S1"
    BY <2>2, NopFacts DEF Entering
  <2> QED
    BY <1>2, <2>2, <2>3, <2>4, CsrKept
<1>12. wb'.csr # "none" => wb'.csr = CsrName(wb'.op)
  BY <1>2, WbMoves DEF Fetched
<1>13. wb'.csr = "mstatus" => wb'.mpie = csr'.mpie
  <2>1. SUFFICES ASSUME wb'.csr = "mstatus" PROVE wb'.mpie = csr'.mpie
    OBVIOUS
  <2>2. mem.csr = "mstatus" /\ wb'.mpie = mem.mpie
    BY <1>2, <2>1, WbMoves
  <2>3. mem.mpie = csr.mpie /\ wb.csr # "mret" /\ state # "S1"
    BY <2>2 DEF CsrReads, Entering
  <2> QED
    BY <2>2, <2>3, CsrKept
<1> HIDE DEF IInv, StagesAgree
<1> QED
  BY <1>6, <1>7, <1>8, <1>9, <1>10, <1>11, <1>12, <1>13 DEF CsrReads, CsrName

-----------------------------------------------------------------------------
(* Traps *)

\* The interrupted instruction in MEM and EX is flushed, unless it is a store that has begun.
LEMMA IrqMoves ==
  ASSUME IInv, Benign, Irq, NEW line \in BOOLEAN, Clock(line)
  PROVE  /\ state = "STAND_BY" /\ state' = "S1" /\ mcause' = IrqVec /\ saved' = Resume
         /\ id' = NoId /\ ex' = NoEx /\ wb'.csr = "none" /\ mem'.csr = "none"
         /\ mem'.dummy \/ mem'.store
         /\ csr' = CsrBar
<1> USE DEF IInv, StagesAgree
<1>1. state = "STAND_BY"
  BY DEF Benign, TypeOK
<1>2. state' = "S1" /\ mcause' = IrqVec /\ saved' = Resume
  BY <1>1 DEF Clock, FsmStep, Trapping
<1>3. id' = NoId /\ ex' = NoEx
  BY IdMoves, ExMoves DEF IfFlush, IdFlush
<1>4. wb'.csr = "none"
  <2>1. ~MemFlush => mem.csr = "none"
    BY OpFacts DEF MemFlush, Fetched
  <2> QED
    BY <2>1, WbMoves, NopFacts
<1>5. mem'.csr = "none" /\ (mem'.dummy \/ mem'.store)
  <2>1. CASE MdStall \/ ExFlush
    BY <2>1, MemMoves, NopFacts
  <2>2. CASE ~(MdStall \/ ExFlush) /\ ex.dummy
    BY <2>2, MemMoves, OpFacts DEF Fetched
  <2>3. CASE ~(MdStall \/ ExFlush) /\ ~ex.dummy
    <3>1. ex.mis /\ mem.store /\ ex.live
      BY <2>3 DEF ExFlush, MemFlush, Halves, Fetched
    <3>2. ex.i.op \in {"lwmis", "swmis"} /\ mem.op = ex.i.op
      BY <3>1 DEF Halves, Fetched
    <3>3. ex.i.op \in H!Stores
      BY <3>1, <3>2 DEF Fetched, H!Stores
    <3> QED
      BY <2>3, <3>1, <3>3, MemMoves, OpFacts DEF IsStore
  <2> QED
    BY <2>1, <2>2, <2>3
<1>6. csr' = CsrBar
  BY <1>1, CsrMoves DEF CsrBar, Clock
<1> QED
  BY <1>1, <1>2, <1>3, <1>4, <1>5, <1>6

LEMMA ExceptionMoves ==
  ASSUME IInv, Benign, Exception, ~Irq, NEW line \in BOOLEAN, Clock(line)
  PROVE  /\ state = "STAND_BY" /\ state' = "S1" /\ mcause' = ExcVec /\ saved' = id.pc
         /\ ~id.dummy /\ id.i.op = "ecall" /\ id.i = H!Fetch(id.pc)
         /\ id' = NoId /\ ex' = NoEx /\ wb'.csr = "none" /\ mem'.csr \in {"none", "scratch"}
<1> USE DEF IInv, StagesAgree
<1>1. ~id.dummy /\ id.i.op = "ecall" /\ id.i = H!Fetch(id.pc)
  BY NopFacts DEF Exception, Fetched
<1>2. state = "STAND_BY"
  BY <1>1, NopFacts DEF Entering, TypeOK
<1>3. state' = "S1" /\ mcause' = ExcVec /\ saved' = id.pc
  BY <1>2 DEF Clock, FsmStep, Trapping, Resume, MemFlush, ExFlush
<1>4. id' = NoId /\ ex' = NoEx
  BY IdMoves, ExMoves DEF IfFlush, IdFlush
<1>5. wb'.csr = "none"
  BY WbMoves, NopFacts DEF Benign
<1>6. mem'.csr \in {"none", "scratch"}
  BY MemMoves, NopFacts DEF Benign
<1> QED
  BY <1>1, <1>2, <1>3, <1>4, <1>5, <1>6

LEMMA EnteringStep ==
  ASSUME IInv, Benign, NEW line \in BOOLEAN, Clock(line)
  PROVE  Entering'
<1>1. SUFFICES ASSUME state' = "S1"
               PROVE  /\ id' = NoId /\ ex' = NoEx /\ wb'.csr = "none" /\ mem'.csr \in {"none", "scratch"}
                      /\ \/ mcause' = ExcVec /\ H!Fetch(saved)'.op = "ecall"
                         \/ mcause' = IrqVec /\ csr'.mie /\ ~Completes'
  BY DEF Entering, Nop, H!Nop, NoId, NoEx
<1>2. Irq \/ (Exception /\ ~Irq)
  BY <1>1 DEF Clock, FsmStep, Trapping
<1>3. CASE Irq
  BY <1>3, IrqMoves DEF Benign, Completes
<1>4. CASE Exception /\ ~Irq
  <2>1. prog' = prog
    BY DEF Clock
  <2> QED
    BY <1>4, <2>1, ExceptionMoves DEF H!Fetch
<1> QED
  BY <1>2, <1>3, <1>4


-----------------------------------------------------------------------------
(* What is next, and what completes *)

LEMMA StandBy ==
  ASSUME NEW line \in BOOLEAN, Clock(line), ~Irq, ~Exception
  PROVE  state' = "STAND_BY"
BY DEF Clock, FsmStep, Trapping

\* What comes behind EX stays what it is while EX is held, or leaves a bubble.
LEMMA WaitsBehind ==
  ASSUME IInv, Benign, ~Irq, NEW line \in BOOLEAN, Clock(line), Holds \/ Bubbles
  PROVE  PcId' = PcId /\ state = "STAND_BY"
<1> USE DEF IInv, StagesAgree
<1>1. StallId /\ ~TakeBranch /\ ~Exception
  BY DEF Holds, Bubbles, StallId, IdFlush
<1>2. state = "STAND_BY" /\ ~Mret
  BY <1>1, EnteringMoves DEF Enters, Benign, TypeOK
<1>3. id' = id /\ pc' = pc /\ state' = "STAND_BY"
  BY <1>1, <1>2, IdMoves, PcMoves, StandBy DEF IfFlush
<1> QED
  BY <1>2, <1>3 DEF PcId

\* What is behind EX comes next, when EX moves on and no interrupt comes in between.
LEMMA Passes ==
  ASSUME IInv, Benign, ~Irq, state = "STAND_BY", NEW line \in BOOLEAN, Clock(line), ~Holds
  PROVE  PcEx' = IF TakeBranch THEN ex.i.to ELSE PcId
<1> USE DEF IInv, StagesAgree
<1>1. CASE Exception
  <2>1. state' = "S1" /\ saved' = id.pc /\ ex'.dummy /\ ~id.dummy /\ ~TakeBranch
    BY <1>1, ExceptionMoves, NopFacts DEF Exception
  <2> QED
    BY <2>1 DEF PcEx, PcId
<1>2. CASE TakeBranch
  <2>1. ~Exception /\ ~Mret
    BY <1>2 DEF Exception, Mret
  <2>2. state' = "STAND_BY" /\ pc' = ex.i.to /\ id'.dummy /\ ex'.dummy
    BY <1>2, <2>1, StandBy, PcMoves, IdMoves, ExMoves, NopFacts
  <2> QED
    BY <1>2, <2>2 DEF PcEx, PcId
<1>3. CASE Bubbles
  <2>1. PcId' = PcId /\ ex'.dummy /\ ~TakeBranch
    BY <1>3, WaitsBehind, ExMoves DEF Bubbles
  <2> QED
    BY <2>1 DEF PcEx
<1>4. CASE Enters
  <2>1. ~TakeBranch /\ ex'.dummy = id.dummy /\ ex'.pc = id.pc /\ ~ex'.mis
    BY <1>4, ExMoves DEF Enters
  <2>2. CASE ~id.dummy
    BY <2>1, <2>2 DEF PcEx, PcId, HalfDone
  <2>3. CASE id.dummy
    <3>1. ~Mret /\ ~Exception
      BY <2>3, NopFacts DEF Mret, Exception, Fetched
    <3>2. state' = "STAND_BY" /\ id'.dummy = FALSE /\ id'.pc = pc
      BY <1>4, <2>1, <3>1, StandBy, IdMoves DEF IfFlush, Enters
    <3> QED
      BY <2>1, <2>3, <3>2 DEF PcEx, PcId
  <2> QED
    BY <2>2, <2>3
<1> QED
  BY <1>1, <1>2, <1>3, <1>4, ExMoves DEF IdFlush, ExFlush, MemFlush

\* What moves on to complete is an instruction that is neither held nor a store, at a time when
\* nothing traps in front of it.
LEMMA Completing ==
  ASSUME IInv, Benign, NEW line \in BOOLEAN, Clock(line), Completes'
  PROVE  /\ ~MdStall /\ ~ExFlush /\ ~MemFlush /\ ~Irq /\ state = "STAND_BY" /\ ~Holds /\ ~Misaligned
         /\ ~ex.dummy /\ ex.live /\ ex.i = H!Fetch(ex.pc) /\ ex.i.op \notin H!Stores
<1> USE DEF IInv, StagesAgree
<1>1. ~mem'.dummy /\ ~mem'.store /\ ~ex'.mis
  BY DEF Completes
<1>2. ~MdStall /\ ~ExFlush /\ ~MemFlush
  BY <1>1, MemMoves, NopFacts DEF ExFlush
<1>3. ~ex.dummy /\ ex.live /\ ex.i = H!Fetch(ex.pc) /\ ex.i.op \notin H!Stores
  BY <1>1, <1>2, MemMoves DEF Fetched, IsStore
<1>4. ~Irq
  BY <1>1, IrqMoves
<1>5. state = "STAND_BY"
  BY <1>3, NopFacts DEF Entering, TypeOK
<1>6. ~Misaligned
  <2>1. SUFFICES ASSUME Misaligned PROVE FALSE
    OBVIOUS
  <2>2. ~TakeBranch
    BY <2>1, MisalignedFacts DEF TakeBranch
  <2>3. ~IdFlush
    BY <1>2, <1>4, <2>1 DEF IdFlush, Benign
  <2>4. Holds
    BY <2>1, <2>2, <2>3 DEF Holds
  <2> QED
    BY <1>1, <2>1, <2>4, ExMoves
<1> QED
  BY <1>2, <1>3, <1>4, <1>5, <1>6 DEF Holds

LEMMA ResultsStep ==
  ASSUME IInv, Benign, NEW line \in BOOLEAN, Clock(line)
  PROVE  Results'
<1> USE DEF IInv, StagesAgree
<1> DEFINE i == ex.i
           a == NextRead(i.rs1)
           b == NextRead(i.rs2)
<1>1. SUFFICES ASSUME Completes'
               PROVE  /\ mem'.wen = WritesReg(i.op) /\ (mem'.wen => mem'.rd = i.rd)
                      /\ i.op = "op" => mem'.out = H!Alu(a, b)
                      /\ i.op \in H!MulDivs => mem'.out = H!MulDiv(a, b)
                      /\ i.op = "scratch" => mem'.out = csr'.scratch
                      /\ i.op \in {"scratch", "epc"} => mem'.a = a
                      /\ i.op = "lw" => mem'.data = dmem'[a] /\ ~mem'.mis
                      /\ i.op = "lwmis" => mem'.mis /\ mem'.data = dmem'[H!Word2(a)] /\ wb'.memout = dmem'[a]
                      /\ PcEx' = CASE i.op = "beq"  -> IF a = b THEN i.to ELSE mem'.pc + 1
                                   [] i.op = "mret" -> csr'.mepc
                                   [] OTHER         -> mem'.pc + 1
  <2>1. prog' = prog
    BY DEF Clock
  <2>2. Completes' => mem'.pc = ex.pc /\ i = H!Fetch(ex.pc)
    BY Completing, MemMoves
  <2>3. Completes' => H!Fetch(mem.pc)' = i
    BY <2>1, <2>2 DEF H!Fetch
  <2> HIDE DEF i
  <2> QED
    BY <1>1, <2>3 DEF Results, NextRead, ReadBank, WritesReg, H!Alu, H!MulDiv, H!Word2, H!MulDivs, H!Loads
<1>2. /\ ~MdStall /\ ~ExFlush /\ ~MemFlush /\ ~Irq /\ state = "STAND_BY" /\ ~Holds /\ ~Misaligned
      /\ ~ex.dummy /\ ex.live /\ i = H!Fetch(ex.pc) /\ i.op \notin H!Stores
  BY <1>1, Completing
<1>3. /\ mem'.wen = WritesReg(i.op) /\ mem'.rd = i.rd /\ mem'.a = Src1 /\ mem'.out = ExOut
      /\ mem'.data = dmem[BusAddr] /\ mem'.pc = ex.pc /\ mem'.mis = ex.mis
  BY <1>2, MemMoves DEF WritesReg
<1>4. /\ UsesRs1(i.op) => Src1 = a
      /\ UsesRs2(i.op) => Src2 = b
  BY <1>2, SourcesMove
<1>5. i.op = "op" => mem'.out = H!Alu(a, b)
  BY <1>3, <1>4 DEF ExOut, MdStart, H!MulDivs, H!Csrs, H!Loads, H!Stores, UsesRs1, UsesRs2
<1>6. i.op \in H!MulDivs => mem'.out = H!MulDiv(a, b)
  <2>1. SUFFICES ASSUME i.op \in H!MulDivs PROVE MdResult = H!MulDiv(a, b)
    BY <1>3 DEF ExOut, MdStart, H!MulDivs, H!Csrs, H!Loads, H!Stores
  <2>2. Src1 = a /\ Src2 = b
    BY <1>4, <2>1 DEF UsesRs1, UsesRs2, H!MulDivs
  <2>3. CASE i.op = "fast"
    BY <2>2, <2>3 DEF MdResult
  <2>4. CASE i.op # "fast"
    <3>1. i.op \in {"mul", "div"} /\ md.left = 1
      BY <1>2, <2>1, <2>4 DEF MdStall, MdStart, MdDone, H!MulDivs
    <3>2. ~mem.wen /\ md.a = ReadBank(i.rs1) /\ md.b = ReadBank(i.rs2)
      BY <1>2, <3>1 DEF Operands
    <3>3. Src1 = ReadBank(i.rs1) /\ Src2 = ReadBank(i.rs2)
      BY <1>2, <3>2, SourcesStay
    <3> QED
      BY <2>2, <2>4, <3>2, <3>3 DEF MdResult
  <2> QED
    BY <2>3, <2>4
<1>7. i.op = "scratch" => mem'.out = csr'.scratch
  <2>1. SUFFICES ASSUME i.op = "scratch" PROVE ExOut = csr'.scratch
    BY <1>3
  <2>2. ExOut = csr_reg.scratch
    BY <2>1 DEF ExOut, MdStart, H!MulDivs, H!Csrs, H!Loads, H!Stores
  <2>3. csr_reg.scratch = csr.scratch /\ wb.csr # "scratch"
    BY <1>2, <2>1 DEF CsrReads
  <2> QED
    BY <1>2, <2>2, <2>3, CsrKept
<1>8. i.op \in {"scratch", "epc"} => mem'.a = a
  BY <1>3, <1>4 DEF UsesRs1
<1>9. dmem' = dmem
  BY <1>2 DEF Clock, IsStore
<1>10. i.op = "lw" => mem'.data = dmem'[a] /\ ~mem'.mis
  BY <1>3, <1>4, <1>9 DEF BusAddr, Halves, UsesRs1
<1>11. i.op = "lwmis" => mem'.mis /\ mem'.data = dmem'[H!Word2(a)] /\ wb'.memout = dmem'[a]
  <2>1. SUFFICES ASSUME i.op = "lwmis"
                 PROVE  mem'.mis /\ mem'.data = dmem'[H!Word2(a)] /\ wb'.memout = dmem'[a]
    OBVIOUS
  <2>2. ex.mis
    BY <1>2, <2>1 DEF Misaligned, L, H!Loads
  <2>3. addr_reg = ReadBank(i.rs1) /\ ~mem.mis /\ ~mem.wen /\ mem.data = dmem[addr_reg]
    BY <2>1, <2>2 DEF Halves
  <2>4. i.rs1 \in Reg
    BY InstrFields DEF TypeOK
  <2>5. addr_reg = a
    BY <2>3, <2>4, RegsMove
  <2>6. wb'.memout = mem.data
    BY <1>2, <2>3, WbMoves DEF Memout
  <2> QED
    BY <1>3, <1>9, <2>2, <2>3, <2>5, <2>6 DEF BusAddr
<1>12. PcEx' = CASE i.op = "beq"  -> IF a = b THEN i.to ELSE mem'.pc + 1
                 [] i.op = "mret" -> csr'.mepc
                 [] OTHER         -> mem'.pc + 1
  <2>1. PcEx' = IF TakeBranch THEN i.to ELSE PcId
    BY <1>2, Passes
  <2>2. i.op # "mret" => PcId = ex.pc + 1
    BY <1>2 DEF Ordered, PcId
  <2>3. CASE i.op = "beq"
    <3>1. TakeBranch <=> a = b
      BY <1>4, <2>3 DEF TakeBranch, UsesRs1, UsesRs2
    <3> QED
      BY <1>3, <2>1, <2>2, <2>3, <3>1
  <2>4. CASE i.op = "mret"
    <3>1. PcId = csr.mepc /\ ~TakeBranch
      BY <1>2, <2>4 DEF Ordered, PcId, TakeBranch
    <3>2. csr'.mepc = csr.mepc
      BY <1>2, <2>4, CsrKept DEF CsrReads
    <3> QED
      BY <2>1, <2>4, <3>1, <3>2
  <2>5. CASE i.op \notin {"beq", "mret"}
    <3>1. ~TakeBranch
      BY <2>5 DEF TakeBranch
    <3> HIDE DEF a, b
    <3> QED
      BY <1>3, <2>1, <2>2, <2>5, <3>1
  <2> QED
    BY <2>3, <2>4, <2>5
<1> HIDE DEF a, b
<1> QED
  BY <1>3, <1>5, <1>6, <1>7, <1>8, <1>10, <1>11, <1>12


-----------------------------------------------------------------------------
(* The invariant *)

LEMMA InitAgrees == Init => IInv
<1> SUFFICES ASSUME Init PROVE IInv
  OBVIOUS
<1>1. PICK s \in Suites : prog \in s.programs /\ irqs = s.irqs
  BY DEF Init
<1>2. /\ irqs \in 0 .. 2 /\ \A k \in DOMAIN prog : prog[k] \in H!Instr
      /\ Boot \in DOMAIN prog /\ prog[Boot].op = "beq" /\ prog[Boot].rs1 = prog[Boot].rs2
  BY <1>1, ProgramAssumption
<1>3. ProgOK
  BY <1>2 DEF ProgOK
<1>4. H!Fetch(Boot) = prog[Boot] /\ prog[Boot].to \in Int /\ prog[Boot].op \in H!Ops
  BY <1>2, InstrFields DEF H!Fetch
<1>5. /\ mem \in [op : H!Ops, rd : Reg, wen : BOOLEAN, csr : CsrNames, a : Val, mpie : BOOLEAN,
                  out : Val, data : Val, store : BOOLEAN, pc : Int, dummy : BOOLEAN, mis : BOOLEAN]
      /\ mem.op = "beq" /\ mem.pc = Boot /\ mem.dummy = FALSE
      /\ mem.wen = FALSE /\ mem.csr = "none" /\ mem.store = FALSE /\ mem.mis = FALSE
  <2>1. mem = [NoMem EXCEPT !.op = "beq", !.pc = Boot, !.dummy = FALSE]
    BY DEF Init
  <2> QED
    BY <2>1, NoStageTypes, AddrAssumption DEF NoMem, H!Ops
<1>6. id = NoId /\ ex = NoEx /\ wb = NoWb /\ pc = prog[Boot].to /\ state = "STAND_BY"
  BY DEF Init
<1>7. TypeOK
  <2>1. csr \in CsrFile /\ csr_reg \in CsrFile
    BY DEF Init, CsrFile
  <2>2. md \in [left : Nat, a : Val, b : Val]
    <3>1. md = [left |-> 0, a |-> 0, b |-> 0]
      BY DEF Init
    <3> QED
      BY <3>1
  <2>4. addr_reg \in Val /\ mcause \in {ExcVec, IrqVec} /\ saved \in Int /\ mip \in BOOLEAN /\ stores \in 0 .. 3
    <3>1. addr_reg = 0 /\ mcause = ExcVec /\ saved = 0 /\ stores = 0
      BY DEF Init
    <3>2. mip = FALSE
      BY DEF Init
    <3>3. mip \in BOOLEAN
      BY <3>2
    <3> QED
      BY <3>1, <3>3
  <2>3. bank \in [Reg -> Val] /\ dmem \in [Val -> Val]
    BY RegAssumption DEF Init
  <2> QED
    BY <1>2, <1>4, <1>5, <1>6, <2>1, <2>2, <2>3, <2>4, NopFacts, NoStageTypes DEF TypeOK
<1>8. Fetched
  BY <1>2, <1>4, <1>5, <1>6, NopFacts DEF Fetched, CsrName, H!Stores
<1>9. Ordered
  BY <1>5, <1>6, NopFacts DEF Ordered
<1>10. Operands /\ Halves /\ CsrReads /\ Entering
  BY <1>5, <1>6, NopFacts DEF Operands, Halves, CsrReads, Entering
<1>11. Results
  <2>1. PcEx = prog[Boot].to
    BY <1>6, NopFacts DEF PcEx, PcId
  <2> QED
    BY <1>2, <1>4, <1>5, <2>1 DEF Results, WritesReg, H!MulDivs, H!Loads
<1> QED
  BY <1>3, <1>7, <1>8, <1>9, <1>10, <1>11 DEF IInv, StagesAgree

LEMMA StepAgrees ==
  ASSUME IInv, Benign, [Next]_vars
  PROVE  IInv'
<1>1. CASE Next
  <2>1. PICK line \in BOOLEAN : Clock(line)
    BY <1>1 DEF Next
  <2>2. TypeOK' /\ ProgOK'
    BY <2>1, TypeStep DEF IInv, StagesAgree
  <2> QED
    BY <2>1, <2>2, FetchedStep, OrderedStep, OperandsStep, HalvesStep, CsrReadsStep, ResultsStep, EnteringStep
    DEF IInv, StagesAgree
<1>2. CASE UNCHANGED vars
  <2>1. /\ prog' = prog /\ pc' = pc /\ id' = id /\ ex' = ex /\ mem' = mem /\ wb' = wb
        /\ bank' = bank /\ dmem' = dmem /\ addr_reg' = addr_reg /\ md' = md /\ csr' = csr
        /\ csr_reg' = csr_reg /\ mcause' = mcause /\ state' = state /\ saved' = saved
        /\ mip' = mip /\ irqs' = irqs /\ stores' = stores
    BY <1>2 DEF vars
  <2>2. ProgOK' /\ TypeOK'
    BY <2>1 DEF IInv, StagesAgree, ProgOK, TypeOK
  <2>3. Fetched'
    BY <2>1 DEF IInv, StagesAgree, Fetched, H!Fetch
  <2>4. Ordered' /\ CsrReads'
    BY <2>1 DEF IInv, StagesAgree, Ordered, CsrReads
  <2>5. Operands' /\ Halves'
    BY <2>1 DEF IInv, StagesAgree, Operands, Halves, ReadBank, Bank
  <2>6. PcEx' = PcEx /\ Completes' = Completes
    BY <2>1 DEF PcEx, PcId, HalfDone, Completes
  <2>7. Results'
    <3>1. H!Fetch(mem.pc)' = H!Fetch(mem.pc)
      BY <2>1 DEF H!Fetch
    <3>2. H!Fetch(mem.pc) \in H!Instr
      BY FetchType DEF IInv
    <3>3. \A r \in Reg : ReadBank(r)' = ReadBank(r)
      BY <2>1 DEF ReadBank, Bank
    <3>4. Results
      BY DEF IInv, StagesAgree
    <3> QED
      BY <2>1, <2>6, <3>1, <3>2, <3>3, <3>4, InstrFields
      DEF Results, WritesReg, H!Alu, H!MulDiv, H!Word2, H!MulDivs, H!Loads
  <2>8. Entering'
    BY <2>1, <2>6 DEF IInv, StagesAgree, Entering, H!Fetch
  <2> QED
    BY <2>2, <2>3, <2>4, <2>5, <2>7, <2>8 DEF IInv, StagesAgree
<1> QED
  BY <1>1, <1>2

\* What the stages hold agrees, in every run in which nothing happens that the core does not
\* stand: each holds an instruction of the program, in order, with the right operands, and the
\* one about to complete has its result.
THEOREM PipelineInvariant == Spec /\ []Benign => []StagesAgree
<1>1. IInv => StagesAgree
  BY DEF IInv
<1> QED
  BY InitAgrees, StepAgrees, <1>1, PTL DEF Spec

\* A mul or div gets the result of its own operands, whatever passes by while it waits.
THEOREM ResultsAreOwn == Spec /\ []Benign => []ResultIsOwn
<1>1. StagesAgree => ResultIsOwn
  <2> SUFFICES ASSUME StagesAgree, ex.live, MdStart, MdDone PROVE MdResult = H!MulDiv(Src1, Src2)
    BY DEF ResultIsOwn
  <2>1. CASE ex.i.op = "fast"
    BY <2>1 DEF MdResult
  <2>2. CASE ex.i.op # "fast"
    <3>1. ex.i.op \in {"mul", "div"} /\ md.left = 1
      BY <2>2 DEF MdStart, MdDone, H!MulDivs
    <3>2. ~mem.wen /\ md.a = ReadBank(ex.i.rs1) /\ md.b = ReadBank(ex.i.rs2)
      BY <3>1 DEF StagesAgree, Operands
    <3>3. Src1 = ReadBank(ex.i.rs1) /\ Src2 = ReadBank(ex.i.rs2)
      BY <3>2, SourcesStay DEF StagesAgree
    <3> QED
      BY <2>2, <3>2, <3>3 DEF MdResult
  <2> QED
    BY <2>1, <2>2
<1> QED
  BY PipelineInvariant, <1>1, PTL

\* A trap leaves its mark in the CSRs: nothing in WB keeps it from being entered.
THEOREM TrapsAreRecorded == Spec /\ []Benign => TrapIsRecorded
<1> DEFINE A == state = "S1" => csr'.mepc = saved /\ ~csr'.mie /\ csr'.mpie = csr.mie
<1>1. StagesAgree /\ [Next]_vars => [A]_vars
  <2> SUFFICES ASSUME StagesAgree, Next, state = "S1" PROVE csr'.mepc = saved /\ ~csr'.mie /\ csr'.mpie = csr.mie
    OBVIOUS
  <2>1. csr' = H!TrapWrite(csr, saved)
    BY CsrMoves DEF Next, StagesAgree, Entering
  <2> QED
    BY <2>1 DEF StagesAgree, TypeOK, CsrFile, H!TrapWrite
<1> QED
  BY PipelineInvariant, <1>1, PTL DEF Spec, TrapIsRecorded



-----------------------------------------------------------------------------
(* What programs see: one instruction after another *)

Harts == [pc : Int, regs : [Reg -> Val], mem : [Val -> Val], csr : CsrFile, stores : 0 .. 3]

\* The machine of Hart is H's, at the state the stages amount to.
LEMMA SameMachine ==
  /\ \A h : Machine!Execute(h) = H!Execute(h)
  /\ \A h : Machine!Interrupt(h) = H!Interrupt(h)
<1>1. \A p : Machine!Fetch(p) = H!Fetch(p)
  BY DEF Machine!Fetch, H!Fetch, Machine!Nop, H!Nop
<1>2. \A h, r, v : Machine!Set(h, r, v) = H!Set(h, r, v)
  BY DEF Machine!Set, H!Set
<1>3. \A c, op, mpie, a : Machine!CsrWrite(c, op, mpie, a) = H!CsrWrite(c, op, mpie, a)
  BY DEF Machine!CsrWrite, H!CsrWrite
<1>4. \A c, p : Machine!TrapWrite(c, p) = H!TrapWrite(c, p) /\ Machine!MretWrite(c) = H!MretWrite(c)
  BY DEF Machine!TrapWrite, H!TrapWrite, Machine!MretWrite, H!MretWrite
<1>5. \A x, y : /\ Machine!Alu(x, y) = H!Alu(x, y) /\ Machine!MulDiv(x, y) = H!MulDiv(x, y)
                /\ Machine!Join(x, y) = H!Join(x, y) /\ Machine!Word2(x) = H!Word2(x)
  BY DEF Machine!Alu, H!Alu, Machine!MulDiv, H!MulDiv, Machine!Join, H!Join, Machine!Word2, H!Word2
<1>6. Machine!MulDivs = H!MulDivs /\ Machine!Csrs = H!Csrs
  BY DEF Machine!MulDivs, H!MulDivs, Machine!Csrs, H!Csrs
<1> QED
  BY <1>1, <1>2, <1>3, <1>4, <1>5, <1>6 DEF Machine!Execute, H!Execute, Machine!Interrupt, H!Interrupt

\* What each instruction does, field by field.
Wrote(h, i, v) == [h.regs EXCEPT ![i.rd] = IF i.rd = 0 THEN 0 ELSE v]

LEMMA Executes ==
  ASSUME NEW h \in Harts, NEW i, i = H!Fetch(h.pc), NEW a, a = h.regs[i.rs1], NEW b, b = h.regs[i.rs2]
  PROVE  /\ i.op = "op" => H!Execute(h) =
                [pc |-> h.pc + 1, regs |-> Wrote(h, i, H!Alu(a, b)), mem |-> h.mem, csr |-> h.csr, stores |-> h.stores]
         /\ i.op \in H!MulDivs => H!Execute(h) =
                [pc |-> h.pc + 1, regs |-> Wrote(h, i, H!MulDiv(a, b)), mem |-> h.mem, csr |-> h.csr, stores |-> h.stores]
         /\ i.op = "lw" => H!Execute(h) =
                [pc |-> h.pc + 1, regs |-> Wrote(h, i, h.mem[a]), mem |-> h.mem, csr |-> h.csr, stores |-> h.stores]
         /\ i.op = "lwmis" => H!Execute(h) =
                [pc |-> h.pc + 1, regs |-> Wrote(h, i, H!Join(h.mem[a], h.mem[H!Word2(a)])), mem |-> h.mem,
                 csr |-> h.csr, stores |-> h.stores]
         /\ i.op = "sw" => H!Execute(h) =
                [pc |-> h.pc + 1, regs |-> h.regs, mem |-> [h.mem EXCEPT ![a] = b], csr |-> h.csr,
                 stores |-> (h.stores + 1) % 4]
         /\ i.op = "swmis" => H!Execute(h) =
                [pc |-> h.pc + 1, regs |-> h.regs, mem |-> [h.mem EXCEPT ![a] = b, ![H!Word2(a)] = b],
                 csr |-> h.csr, stores |-> (h.stores + 1) % 4]
         /\ i.op = "beq" => H!Execute(h) =
                [pc |-> IF a = b THEN i.to ELSE h.pc + 1, regs |-> h.regs, mem |-> h.mem, csr |-> h.csr, stores |-> h.stores]
         /\ i.op = "scratch" => H!Execute(h) =
                [pc |-> h.pc + 1, regs |-> Wrote(h, i, h.csr.scratch), mem |-> h.mem,
                 csr |-> [h.csr EXCEPT !.scratch = a], stores |-> h.stores]
         /\ i.op \in {"csrsi", "csrci", "epc"} => H!Execute(h) =
                [pc |-> h.pc + 1, regs |-> h.regs, mem |-> h.mem,
                 csr |-> H!CsrWrite(h.csr, i.op, h.csr.mpie, a), stores |-> h.stores]
         /\ i.op = "mret" => H!Execute(h) =
                [pc |-> h.csr.mepc, regs |-> h.regs, mem |-> h.mem, csr |-> H!MretWrite(h.csr), stores |-> h.stores]
         /\ i.op = "ecall" => H!Execute(h) =
                [pc |-> ExcVec, regs |-> h.regs, mem |-> h.mem, csr |-> H!TrapWrite(h.csr, h.pc), stores |-> h.stores]
         /\ H!Interrupt(h) =
                [pc |-> IrqVec, regs |-> h.regs, mem |-> h.mem, csr |-> H!TrapWrite(h.csr, h.pc), stores |-> h.stores]
<1>1. \A v : H!Set(h, i.rd, v) =
               [pc |-> h.pc + 1, regs |-> Wrote(h, i, v), mem |-> h.mem, csr |-> h.csr, stores |-> h.stores]
  <2>1. \A p, r : [h EXCEPT !.pc = p, !.regs = r] =
                     [pc |-> p, regs |-> r, mem |-> h.mem, csr |-> h.csr, stores |-> h.stores]
    <3>1. \A p : [h EXCEPT !.pc = p] =
                    [pc |-> p, regs |-> h.regs, mem |-> h.mem, csr |-> h.csr, stores |-> h.stores]
      BY DEF Harts
    <3>2. \A p, r : [[pc |-> p, regs |-> h.regs, mem |-> h.mem, csr |-> h.csr, stores |-> h.stores] EXCEPT !.regs = r] =
                       [pc |-> p, regs |-> r, mem |-> h.mem, csr |-> h.csr, stores |-> h.stores]
      OBVIOUS
    <3> QED
      BY <3>1, <3>2, Zenon
  <2>2. \A v : H!Set(h, i.rd, v) = [h EXCEPT !.pc = h.pc + 1, !.regs = Wrote(h, i, v)]
    BY DEF H!Set, Wrote, Harts
  <2> QED
    BY <2>1, <2>2
<1>2. i.op = "op" => H!Execute(h) = H!Set(h, i.rd, H!Alu(a, b))
  BY DEF H!Execute, H!MulDivs, H!Csrs
<1>3. i.op \in H!MulDivs => H!Execute(h) = H!Set(h, i.rd, H!MulDiv(a, b))
  BY DEF H!Execute, H!MulDivs, H!Csrs
<1>4. i.op = "lw" => H!Execute(h) = H!Set(h, i.rd, h.mem[a])
  BY DEF H!Execute, H!MulDivs, H!Csrs
<1>5. i.op = "lwmis" => H!Execute(h) = H!Set(h, i.rd, H!Join(h.mem[a], h.mem[H!Word2(a)]))
  BY DEF H!Execute, H!MulDivs, H!Csrs
<1>6. i.op = "sw" => H!Execute(h) =
         [pc |-> h.pc + 1, regs |-> h.regs, mem |-> [h.mem EXCEPT ![a] = b], csr |-> h.csr,
          stores |-> (h.stores + 1) % 4]
  BY DEF H!Execute, H!MulDivs, H!Csrs, Harts
<1>7. i.op = "swmis" => H!Execute(h) =
         [pc |-> h.pc + 1, regs |-> h.regs, mem |-> [h.mem EXCEPT ![a] = b, ![H!Word2(a)] = b],
          csr |-> h.csr, stores |-> (h.stores + 1) % 4]
  BY DEF H!Execute, H!MulDivs, H!Csrs, Harts
<1>8. i.op = "beq" => H!Execute(h) =
         [pc |-> IF a = b THEN i.to ELSE h.pc + 1, regs |-> h.regs, mem |-> h.mem, csr |-> h.csr, stores |-> h.stores]
  BY DEF H!Execute, H!MulDivs, H!Csrs, Harts
<1>9. i.op = "scratch" => H!Execute(h) =
         [pc |-> h.pc + 1, regs |-> Wrote(h, i, h.csr.scratch), mem |-> h.mem,
          csr |-> [h.csr EXCEPT !.scratch = a], stores |-> h.stores]
  <2>1. i.op = "scratch" => H!Execute(h) = [H!Set(h, i.rd, h.csr.scratch) EXCEPT !.csr.scratch = a]
    BY DEF H!Execute, H!MulDivs, H!Csrs
  <2>2. DEFINE g == [pc |-> h.pc + 1, regs |-> Wrote(h, i, h.csr.scratch), mem |-> h.mem, csr |-> h.csr,
                     stores |-> h.stores]
  <2>3. [g EXCEPT !.csr = [h.csr EXCEPT !.scratch = a]] =
         [pc |-> h.pc + 1, regs |-> Wrote(h, i, h.csr.scratch), mem |-> h.mem,
          csr |-> [h.csr EXCEPT !.scratch = a], stores |-> h.stores]
    OBVIOUS
  <2>4. g.csr = h.csr
    OBVIOUS
  <2> HIDE DEF g
  <2>5. [g EXCEPT !.csr.scratch = a] = [g EXCEPT !.csr = [h.csr EXCEPT !.scratch = a]]
    BY <2>4
  <2>6. H!Set(h, i.rd, h.csr.scratch) = g
    BY <1>1 DEF g
  <2> QED
    BY <2>1, <2>3, <2>5, <2>6
<1>10. i.op \in {"csrsi", "csrci", "epc"} => H!Execute(h) =
         [pc |-> h.pc + 1, regs |-> h.regs, mem |-> h.mem,
          csr |-> H!CsrWrite(h.csr, i.op, h.csr.mpie, a), stores |-> h.stores]
  BY DEF H!Execute, H!MulDivs, H!Csrs, Harts
<1>11. i.op = "mret" => H!Execute(h) =
         [pc |-> h.csr.mepc, regs |-> h.regs, mem |-> h.mem, csr |-> H!MretWrite(h.csr), stores |-> h.stores]
  BY DEF H!Execute, H!MulDivs, H!Csrs, Harts
<1>12. i.op = "ecall" => H!Execute(h) =
         [pc |-> ExcVec, regs |-> h.regs, mem |-> h.mem, csr |-> H!TrapWrite(h.csr, h.pc), stores |-> h.stores]
  BY DEF H!Execute, H!MulDivs, H!Csrs, Harts
<1>13. H!Interrupt(h) =
         [pc |-> IrqVec, regs |-> h.regs, mem |-> h.mem, csr |-> H!TrapWrite(h.csr, h.pc), stores |-> h.stores]
  <2>1. \A p : [h EXCEPT !.pc = p] =
                  [pc |-> p, regs |-> h.regs, mem |-> h.mem, csr |-> h.csr, stores |-> h.stores]
    BY DEF Harts
  <2>2. \A p, c : [[pc |-> p, regs |-> h.regs, mem |-> h.mem, csr |-> h.csr, stores |-> h.stores] EXCEPT !.csr = c] =
                     [pc |-> p, regs |-> h.regs, mem |-> h.mem, csr |-> c, stores |-> h.stores]
    OBVIOUS
  <2>3. H!Interrupt(h) = [[h EXCEPT !.pc = IrqVec] EXCEPT !.csr = H!TrapWrite(h.csr, h.pc)]
    BY DEF H!Interrupt, Harts
  <2> QED
    BY <2>1, <2>2, <2>3, Zenon
<1> QED
  BY <1>1, <1>2, <1>3, <1>4, <1>5, <1>6, <1>7, <1>8, <1>9, <1>10, <1>11, <1>12, <1>13

\* The state in which the instruction in MEM has completed, and nothing else has happened.
MemWrite(c) == CASE mem.csr = "mret" -> H!MretWrite(c)
                 [] mem.csr \notin {"none", "mret"} -> H!CsrWrite(c, mem.op, mem.mpie, mem.a)
                 [] OTHER -> c
Mid == [pc |-> PcEx, regs |-> [Bank' EXCEPT ![0] = 0], mem |-> Bar.mem, csr |-> MemWrite(CsrBar), stores |-> stores]

LEMMA Masked ==
  ASSUME NEW f \in [Reg -> 0 .. 2]
  PROVE  /\ [f EXCEPT ![0] = 0] \in [Reg -> 0 .. 2]
         /\ \A r \in Reg : [f EXCEPT ![0] = 0][r] = IF r = 0 THEN 0 ELSE f[r]
<1>1. 0 \in 0 .. 2
  OBVIOUS
<1> QED
  BY <1>1

LEMMA BarType ==
  ASSUME IInv
  PROVE  Bar \in Harts /\ \A r \in Reg : Bar.regs[r] = ReadBank(r)
<1> USE DEF IInv, StagesAgree
<1>1. PcBar \in Int
  BY DEF TypeOK, PcBar
<1>2. Bank \in [Reg -> 0 .. 2]
  BY BankType
<1>3. [Bank EXCEPT ![0] = 0] \in [Reg -> Val] /\ \A r \in Reg : [Bank EXCEPT ![0] = 0][r] = ReadBank(r)
  BY <1>2, Masked DEF ReadBank
<1>4. (IF HalfDone THEN [dmem EXCEPT ![BusAddr] = Src2] ELSE dmem) \in [Val -> Val]
  BY SrcType DEF TypeOK
<1>5. CsrBar \in CsrFile
  <2>1. H!MretWrite(csr) \in CsrFile
    BY DEF TypeOK, H!MretWrite, CsrFile
  <2>2. wb.csr \notin {"none", "mret"} => H!CsrWrite(csr, wb.op, wb.mpie, wb.a) \in CsrFile
    BY CsrWriteType DEF TypeOK, CsrReads
  <2> QED
    BY <2>1, <2>2 DEF CsrBar, CsrNext, TypeOK
<1>6. stores \in 0 .. 3
  BY DEF TypeOK
<1> HIDE DEF IInv, StagesAgree
<1> QED
  BY <1>1, <1>3, <1>4, <1>5, <1>6 DEF Bar, Harts

LEMMA MidType ==
  ASSUME IInv, NEW line \in BOOLEAN, Clock(line)
  PROVE  Mid \in Harts /\ \A r \in Reg : Mid.regs[r] = NextRead(r)
<1> USE DEF IInv, StagesAgree
<1>1. Bank' \in [Reg -> 0 .. 2]
  <2>1. bank' \in [Reg -> 0 .. 2] /\ wb'.wen \in BOOLEAN /\ wb'.rd \in Reg /\ wb'.val \in 0 .. 2
    BY TypeStep DEF TypeOK
  <2> QED
    BY <2>1 DEF Bank
<1>2. [Bank' EXCEPT ![0] = 0] \in [Reg -> Val] /\ \A r \in Reg : [Bank' EXCEPT ![0] = 0][r] = NextRead(r)
  BY <1>1, Masked DEF NextRead
<1>3. CsrBar \in CsrFile /\ Bar.mem \in [Val -> Val]
  BY BarType DEF Bar, Harts
<1>4. MemWrite(CsrBar) \in CsrFile
  <2>1. H!MretWrite(CsrBar) \in CsrFile
    BY <1>3 DEF H!MretWrite, CsrFile
  <2>2. mem.csr \notin {"none", "mret"} => H!CsrWrite(CsrBar, mem.op, mem.mpie, mem.a) \in CsrFile
    BY <1>3, CsrWriteType DEF TypeOK, Fetched
  <2> QED
    BY <1>3, <2>1, <2>2 DEF MemWrite
<1>5. PcEx \in Int /\ stores \in 0 .. 3
  BY DEF TypeOK, PcEx, PcId
<1> HIDE DEF IInv, StagesAgree
<1> QED
  BY <1>2, <1>3, <1>4, <1>5 DEF Mid, Harts

\* The registers change by what MEM hands on, if it writes one.
LEMMA RegsWritten ==
  ASSUME IInv, ~MemFlush, NEW line \in BOOLEAN, Clock(line)
  PROVE  /\ ~mem.wen \/ mem.rd = 0 => Mid.regs = Bar.regs
         /\ \A i : mem.wen /\ i.rd = mem.rd => Mid.regs = Wrote(Bar, i, wb'.val)
<1>1. /\ Mid.regs \in [Reg -> 0 .. 2] /\ Bar.regs \in [Reg -> 0 .. 2]
      /\ \A r \in Reg : Mid.regs[r] = NextRead(r) /\ Bar.regs[r] = ReadBank(r)
  BY BarType, MidType DEF Harts
<1>2. TypeOK
  BY DEF IInv, StagesAgree
<1>3. ASSUME ~mem.wen \/ mem.rd = 0 PROVE Mid.regs = Bar.regs
  <2>1. \A r \in Reg : NextRead(r) = ReadBank(r)
    BY <1>2, <1>3, RegsMove
  <2> QED
    BY <1>1, <2>1
<1>4. ASSUME NEW i, mem.wen, i.rd = mem.rd PROVE Mid.regs = Wrote(Bar, i, wb'.val)
  <2>1. ASSUME NEW r \in Reg
        PROVE  NextRead(r) = IF r = mem.rd THEN IF r = 0 THEN 0 ELSE wb'.val ELSE ReadBank(r)
    BY <1>2, <1>4, <2>1, RegsMove DEF NextRead
  <2> QED
    BY <1>1, <1>4, <2>1 DEF Wrote
<1> QED
  BY <1>3, <1>4

\* The instruction in MEM has its whole effect when it completes, and until then none.
LEMMA MidIs ==
  ASSUME IInv, Benign, ~Irq, NEW line \in BOOLEAN, Clock(line)
  PROVE  Mid = IF Completes THEN H!Execute(Bar) ELSE Bar
<1> USE DEF IInv, StagesAgree
<1>1. ~MemFlush
  BY DEF MemFlush
<1>2. CASE ~Completes
  <2>1. mem.csr = "none" /\ (~mem.wen \/ mem.rd = 0)
    <3>1. CASE mem.dummy
      BY <3>1 DEF Fetched
    <3>2. CASE ~mem.dummy /\ mem.store
      BY <3>2, OpFacts DEF Fetched
    <3>3. CASE ~mem.dummy /\ ~mem.store
      <4>1. ex.mis
        BY <1>2, <3>3 DEF Completes
      <4>2. mem.op \in {"lwmis", "swmis"} /\ ~mem.wen
        BY <4>1, <3>3 DEF Halves, Fetched
      <4> QED
        BY <3>3, <4>2 DEF Fetched, CsrName
    <3> QED
      BY <3>1, <3>2, <3>3
  <2>2. PcEx = PcBar
    <3>1. CASE mem.dummy \/ mem.store
      BY <3>1 DEF PcEx, PcBar, PcId
    <3>2. CASE ~mem.dummy /\ ~mem.store
      <4>1. ex.mis
        BY <1>2, <3>2 DEF Completes
      <4>2. ~ex.dummy /\ mem.pc = ex.pc /\ ex.i.op # "swmis"
        BY <3>2, <4>1 DEF Halves, Fetched, H!Stores
      <4> QED
        BY <3>2, <4>2 DEF PcEx, PcBar, HalfDone
    <3> QED
      BY <3>1, <3>2
  <2>3. Mid.regs = Bar.regs
    BY <1>1, <2>1, RegsWritten
  <2>4. MemWrite(CsrBar) = CsrBar
    BY <2>1 DEF MemWrite
  <2> HIDE DEF IInv, StagesAgree
  <2> QED
    BY <1>2, <2>2, <2>3, <2>4 DEF Mid, Bar
<1>3. CASE Completes
  <2> DEFINE i == H!Fetch(mem.pc)
             a == ReadBank(i.rs1)
             b == ReadBank(i.rs2)
             h == Bar
  <2> SUFFICES Mid = H!Execute(h)
    BY <1>3
  <2>1. ~mem.dummy /\ ~mem.store /\ ~ex.mis /\ i \in H!Instr
    BY <1>3, FetchType DEF Completes
  <2>2. h.pc = mem.pc /\ h.csr = CsrBar /\ h.mem = dmem /\ h.stores = stores
    BY <2>1 DEF Bar, PcBar, HalfDone
  <2>3. h \in Harts /\ h.regs[i.rs1] = a /\ h.regs[i.rs2] = b
    BY <2>1, BarType, InstrFields
  <2>4. /\ mem.wen = WritesReg(i.op) /\ (mem.wen => mem.rd = i.rd)
        /\ i.op = "op" => mem.out = H!Alu(a, b)
        /\ i.op \in H!MulDivs => mem.out = H!MulDiv(a, b)
        /\ i.op = "scratch" => mem.out = csr.scratch
        /\ i.op \in {"scratch", "epc"} => mem.a = a
        /\ i.op = "lw" => mem.data = dmem[a] /\ ~mem.mis
        /\ i.op = "lwmis" => mem.mis /\ mem.data = dmem[H!Word2(a)] /\ wb.memout = dmem[a]
        /\ PcEx = CASE i.op = "beq"  -> IF a = b THEN i.to ELSE mem.pc + 1
                    [] i.op = "mret" -> csr.mepc
                    [] OTHER         -> mem.pc + 1
    BY <1>3 DEF Results
  <2>5. mem.op = i.op /\ mem.csr = CsrName(i.op) /\ i.op \notin H!Stores /\ i.op # "ecall" /\ i.op \in H!Ops
    BY <2>1, InstrFields DEF Fetched
  <2>6. /\ WritesReg(i.op) => Mid.regs = Wrote(h, i, wb'.val)
        /\ ~WritesReg(i.op) => Mid.regs = h.regs
    BY <1>1, <2>4, RegsWritten
  <2>7. wb'.val = IF i.op \in H!Loads THEN Memout ELSE mem.out
    BY <1>1, <2>5, WbMoves
  <2>8. \A p, r, c : PcEx = p /\ Mid.regs = r /\ MemWrite(h.csr) = c =>
           Mid = [pc |-> p, regs |-> r, mem |-> h.mem, csr |-> c, stores |-> h.stores]
    BY <2>2 DEF Mid
  <2>9. i.op \in {"op", "beq", "mret", "lw", "lwmis", "scratch", "csrsi", "csrci", "epc"} \cup H!MulDivs
    BY <2>5 DEF H!Ops, H!Stores, H!Loads, H!Csrs
  <2>10. i = H!Fetch(h.pc) /\ a = h.regs[i.rs1] /\ b = h.regs[i.rs2]
    BY <2>2, <2>3
  <2> HIDE DEF i, a, b, h, IInv, StagesAgree
  <2>11. CASE i.op = "op"
    <3>1. wb'.val = H!Alu(a, b) /\ WritesReg(i.op) /\ PcEx = h.pc + 1 /\ MemWrite(h.csr) = h.csr
      BY <2>2, <2>4, <2>5, <2>7, <2>11 DEF WritesReg, H!Loads, MemWrite, CsrName
    <3>2. H!Execute(h) = [pc |-> h.pc + 1, regs |-> Wrote(h, i, H!Alu(a, b)), mem |-> h.mem, csr |-> h.csr,
                          stores |-> h.stores]
      BY <2>3, <2>10, <2>11, Executes
    <3> QED
      BY <2>6, <2>8, <3>1, <3>2
  <2>12. CASE i.op \in H!MulDivs
    <3>1. wb'.val = H!MulDiv(a, b) /\ WritesReg(i.op) /\ PcEx = h.pc + 1 /\ MemWrite(h.csr) = h.csr
      BY <2>2, <2>4, <2>5, <2>7, <2>12 DEF WritesReg, H!Loads, H!MulDivs, MemWrite, CsrName
    <3>2. H!Execute(h) = [pc |-> h.pc + 1, regs |-> Wrote(h, i, H!MulDiv(a, b)), mem |-> h.mem, csr |-> h.csr,
                          stores |-> h.stores]
      BY <2>3, <2>10, <2>12, Executes
    <3> QED
      BY <2>6, <2>8, <3>1, <3>2
  <2>13. CASE i.op = "lw"
    <3>1. wb'.val = h.mem[a] /\ WritesReg(i.op) /\ PcEx = h.pc + 1 /\ MemWrite(h.csr) = h.csr
      BY <2>2, <2>4, <2>5, <2>7, <2>13 DEF WritesReg, H!Loads, MemWrite, CsrName, Memout
    <3>2. H!Execute(h) = [pc |-> h.pc + 1, regs |-> Wrote(h, i, h.mem[a]), mem |-> h.mem, csr |-> h.csr,
                          stores |-> h.stores]
      BY <2>3, <2>10, <2>13, Executes
    <3> QED
      BY <2>6, <2>8, <3>1, <3>2
  <2>14. CASE i.op = "lwmis"
    <3>1. wb'.val = H!Join(h.mem[a], h.mem[H!Word2(a)]) /\ WritesReg(i.op) /\ PcEx = h.pc + 1 /\ MemWrite(h.csr) = h.csr
      BY <2>2, <2>4, <2>5, <2>7, <2>14 DEF WritesReg, H!Loads, MemWrite, CsrName, Memout
    <3>2. H!Execute(h) = [pc |-> h.pc + 1, regs |-> Wrote(h, i, H!Join(h.mem[a], h.mem[H!Word2(a)])),
                          mem |-> h.mem, csr |-> h.csr, stores |-> h.stores]
      BY <2>3, <2>10, <2>14, Executes
    <3> QED
      BY <2>6, <2>8, <3>1, <3>2
  <2>15. CASE i.op = "beq"
    <3>1. ~WritesReg(i.op) /\ PcEx = (IF a = b THEN i.to ELSE h.pc + 1) /\ MemWrite(h.csr) = h.csr
      BY <2>2, <2>4, <2>5, <2>15 DEF WritesReg, H!Loads, H!MulDivs, MemWrite, CsrName
    <3>2. H!Execute(h) = [pc |-> IF a = b THEN i.to ELSE h.pc + 1, regs |-> h.regs, mem |-> h.mem, csr |-> h.csr,
                          stores |-> h.stores]
      BY <2>3, <2>10, <2>15, Executes
    <3> QED
      BY <2>6, <2>8, <3>1, <3>2
  <2>16. CASE i.op = "mret"
    <3>1. mem.csr = "mret" /\ wb.csr # "epc"
      BY <2>5, <2>16 DEF CsrName, IInv, StagesAgree, CsrReads
    <3>2. CsrBar.mepc = csr.mepc
      BY <3>1, CsrBarKept DEF IInv, StagesAgree
    <3>3. ~WritesReg(i.op) /\ PcEx = h.csr.mepc /\ MemWrite(h.csr) = H!MretWrite(h.csr)
      BY <2>2, <2>4, <2>16, <3>1, <3>2 DEF WritesReg, H!Loads, H!MulDivs, MemWrite
    <3>4. H!Execute(h) = [pc |-> h.csr.mepc, regs |-> h.regs, mem |-> h.mem, csr |-> H!MretWrite(h.csr),
                          stores |-> h.stores]
      BY <2>3, <2>10, <2>16, Executes
    <3> QED
      BY <2>6, <2>8, <3>3, <3>4
  <2>17. CASE i.op = "scratch"
    <3>1. mem.csr = "scratch" /\ wb.csr # "scratch"
      BY <2>5, <2>17 DEF CsrName, IInv, StagesAgree, CsrReads
    <3>2. CsrBar.scratch = csr.scratch
      BY <3>1, CsrBarKept DEF IInv, StagesAgree
    <3>3. H!CsrWrite(h.csr, mem.op, mem.mpie, mem.a) = [h.csr EXCEPT !.scratch = a]
      BY <2>4, <2>5, <2>17 DEF H!CsrWrite
    <3>4. wb'.val = h.csr.scratch /\ WritesReg(i.op) /\ PcEx = h.pc + 1
          /\ MemWrite(h.csr) = [h.csr EXCEPT !.scratch = a]
      BY <2>2, <2>4, <2>7, <2>17, <3>1, <3>2, <3>3 DEF WritesReg, H!Loads, MemWrite
    <3>5. H!Execute(h) = [pc |-> h.pc + 1, regs |-> Wrote(h, i, h.csr.scratch), mem |-> h.mem,
                          csr |-> [h.csr EXCEPT !.scratch = a], stores |-> h.stores]
      BY <2>3, <2>10, <2>17, Executes
    <3> QED
      BY <2>6, <2>8, <3>4, <3>5
  <2>18. CASE i.op = "epc"
    <3>1. mem.csr = "epc"
      BY <2>5, <2>18 DEF CsrName
    <3>2. \A mpie : H!CsrWrite(h.csr, "epc", mpie, a) = [h.csr EXCEPT !.mepc = a]
      BY DEF H!CsrWrite
    <3>3. ~WritesReg(i.op) /\ PcEx = h.pc + 1 /\ MemWrite(h.csr) = [h.csr EXCEPT !.mepc = a]
      BY <2>2, <2>4, <2>5, <2>18, <3>1, <3>2 DEF WritesReg, H!Loads, H!MulDivs, MemWrite
    <3>4. H!Execute(h) = [pc |-> h.pc + 1, regs |-> h.regs, mem |-> h.mem,
                          csr |-> H!CsrWrite(h.csr, i.op, h.csr.mpie, a), stores |-> h.stores]
      BY <2>3, <2>10, <2>18, Executes
    <3> QED
      BY <2>6, <2>8, <2>18, <3>2, <3>3, <3>4
  <2>19. CASE i.op \in {"csrsi", "csrci"}
    <3>1. mem.csr = "mstatus" /\ mem.mpie = csr.mpie /\ wb.csr # "mret"
      BY <2>5, <2>19 DEF CsrName, IInv, StagesAgree, CsrReads
    <3>2. mem.mpie = h.csr.mpie
      BY <2>2, <3>1, CsrBarKept DEF IInv, StagesAgree
    <3>3. \A x, y : H!CsrWrite(h.csr, i.op, h.csr.mpie, x) = H!CsrWrite(h.csr, i.op, h.csr.mpie, y)
      BY <2>19 DEF H!CsrWrite
    <3>4. ~WritesReg(i.op) /\ PcEx = h.pc + 1 /\ MemWrite(h.csr) = H!CsrWrite(h.csr, i.op, h.csr.mpie, a)
      BY <2>2, <2>4, <2>5, <2>19, <3>1, <3>2, <3>3 DEF WritesReg, H!Loads, H!MulDivs, MemWrite
    <3>5. H!Execute(h) = [pc |-> h.pc + 1, regs |-> h.regs, mem |-> h.mem,
                          csr |-> H!CsrWrite(h.csr, i.op, h.csr.mpie, a), stores |-> h.stores]
      BY <2>3, <2>10, <2>19, Executes
    <3> QED
      BY <2>6, <2>8, <3>4, <3>5
  <2> QED
    BY <2>9, <2>11, <2>12, <2>13, <2>14, <2>15, <2>16, <2>17, <2>18, <2>19
<1> QED
  BY <1>2, <1>3


\* The second half of a store is in EX, and not to be stopped.
LEMMA HalfFacts ==
  ASSUME IInv, HalfDone
  PROVE  IsStore /\ mem.store /\ ~ex.dummy /\ ~MemFlush /\ ~ExFlush
<1> USE DEF IInv, StagesAgree
<1>1. ~ex.dummy /\ ~mem.dummy /\ mem.pc = ex.pc /\ ex.i.op = "swmis" /\ ex.live /\ ex.mis
  BY DEF HalfDone, Halves
<1>2. mem.op = "swmis" /\ mem.store
  BY <1>1 DEF Fetched, H!Stores
<1> QED
  BY <1>1, <1>2 DEF IsStore, ExFlush, MemFlush, H!Stores

\* What an instruction that stores its second half leaves to be seen.
LEMMA StoreFacts ==
  ASSUME IInv, IsStore
  PROVE  ~ex.dummy /\ ex.live /\ ex.i = H!Fetch(ex.pc) /\ ex.i.op \in {"sw", "swmis"} /\ (ex.mis => HalfDone)
<1> USE DEF IInv, StagesAgree
<1>1. ~ex.dummy /\ ex.live /\ ex.i = H!Fetch(ex.pc)
  BY OpFacts DEF IsStore, Fetched
<1>2. ex.i.op \in {"sw", "swmis"}
  BY DEF IsStore, H!Stores
<1>3. ex.mis => HalfDone
  BY <1>1, <1>2 DEF Halves, HalfDone
<1> QED
  BY <1>1, <1>2, <1>3

\* What an interrupt flushes has not happened, and what it does not flush has: the program sees
\* nothing of the cycle.
LEMMA IrqSeesNothing ==
  ASSUME IInv, Benign, Irq, NEW line \in BOOLEAN, Clock(line)
  PROVE  Bar' = Bar
<1> USE DEF IInv, StagesAgree
<1>1. /\ state = "STAND_BY" /\ state' = "S1" /\ saved' = Resume /\ id' = NoId /\ ex' = NoEx
      /\ wb'.csr = "none" /\ (mem'.dummy \/ mem'.store) /\ csr' = CsrBar
  BY IrqMoves
<1>2. ~HalfDone' /\ PcBar' = Resume
  BY <1>1, NopFacts DEF HalfDone, PcBar
<1>3. Resume = PcBar
  <2>1. CASE MemFlush
    BY <2>1 DEF Resume, PcBar, MemFlush
  <2>2. CASE ~MemFlush /\ ~ex.dummy /\ ~ex.mis
    BY <2>2 DEF Resume, PcBar, MemFlush, ExFlush, HalfDone
  <2>3. CASE ~MemFlush /\ ~ex.dummy /\ ex.mis
    <3>1. mem.store /\ ex.i.op \in {"lwmis", "swmis"} /\ mem.op = ex.i.op /\ ex.live
      BY <2>3 DEF MemFlush, Halves, Fetched
    <3>2. HalfDone
      BY <2>3, <3>1 DEF HalfDone, Fetched, H!Stores, Halves
    <3>3. ~id.dummy
      BY <2>3, <3>1 DEF Ordered
    <3> QED
      BY <1>1, <2>3, <3>1, <3>2, <3>3 DEF Resume, PcBar, ExFlush
  <2>4. CASE ~MemFlush /\ ex.dummy
    <3>1. ~id.dummy
      BY <1>1, <2>4, NopFacts DEF Ordered, MemFlush, Irq
    <3>2. mem.dummy \/ mem.store
      BY <2>4 DEF MemFlush
    <3> QED
      BY <1>1, <2>4, <3>1, <3>2 DEF Resume, PcBar, ExFlush
  <2> QED
    BY <2>1, <2>2, <2>3, <2>4
<1>4. [Bank' EXCEPT ![0] = 0] = [Bank EXCEPT ![0] = 0]
  <2>1. /\ Mid.regs \in [Reg -> 0 .. 2] /\ Bar.regs \in [Reg -> 0 .. 2]
        /\ \A r \in Reg : Mid.regs[r] = NextRead(r) /\ Bar.regs[r] = ReadBank(r)
    BY BarType, MidType DEF Harts
  <2>2. MemFlush \/ ~mem.wen \/ mem.rd = 0
    BY DEF MemFlush, Fetched
  <2>3. \A r \in Reg : NextRead(r) = ReadBank(r)
    BY <2>2, RegsMove
  <2>4. Mid.regs = Bar.regs
    BY <2>1, <2>3
  <2> QED
    BY <2>4 DEF Mid, Bar
<1>5. IsStore <=> HalfDone
  <2>1. IsStore => ex.mis
    BY StoreFacts DEF IsStore, ExFlush
  <2> QED
    BY <2>1, StoreFacts, HalfFacts
<1>6. dmem' = IF HalfDone THEN [dmem EXCEPT ![BusAddr] = Src2] ELSE dmem
  BY <1>5 DEF Clock
<1>7. stores' = stores
  BY <1>5 DEF Clock, HalfDone
<1>8. CsrBar' = CsrBar
  BY <1>1 DEF CsrBar
<1> HIDE DEF IInv, StagesAgree
<1> QED
  BY <1>2, <1>3, <1>4, <1>6, <1>7, <1>8 DEF Bar

\* A trap in ID is entered once what is in front of it has completed.
LEMMA EntersTrap ==
  ASSUME IInv, Benign, ~Irq, state = "S1", NEW line \in BOOLEAN, Clock(line)
  PROVE  /\ Bar' = [pc |-> mcause, regs |-> Mid.regs, mem |-> Mid.mem, csr |-> H!TrapWrite(Mid.csr, Mid.pc),
                    stores |-> Mid.stores]
         /\ Mid.pc = saved /\ Mid.csr.mie = csr.mie
<1> USE DEF IInv, StagesAgree
<1>1. id = NoId /\ ex = NoEx /\ wb.csr = "none" /\ mem.csr \in {"none", "scratch"}
  BY DEF Entering
<1>2. Enters /\ ~Irq /\ ~Mret /\ ~Exception /\ ~MdStall /\ ~ExFlush /\ ~MemFlush
  BY EnteringMoves DEF Enters, IdFlush, MemFlush
<1>3. state' = "STAND_BY" /\ id' = NoId /\ pc' = mcause
  BY <1>2, StandBy, IdMoves, PcMoves DEF IfFlush
<1>4. ex'.dummy /\ ~HalfDone' /\ ~HalfDone /\ ~IsStore
  BY <1>1, <1>2, ExMoves, NopFacts DEF HalfDone, IsStore
<1>5. mem'.dummy /\ wb'.csr = mem.csr /\ wb'.op = mem.op /\ wb'.a = mem.a /\ wb'.mpie = mem.mpie
  BY <1>1, <1>2, MemMoves, WbMoves, NopFacts
<1>6. PcBar' = mcause
  BY <1>3, <1>4, <1>5, NopFacts DEF PcBar
<1>7. PcEx = saved
  BY <1>1, NopFacts DEF PcEx, PcId
<1>8. dmem' = dmem /\ stores' = stores
  BY <1>4 DEF Clock
<1>9. csr' = H!TrapWrite(csr, saved) /\ CsrBar = csr /\ csr \in CsrFile
  BY <1>1, CsrMoves DEF CsrBar, TypeOK
<1>10. CsrBar' = H!TrapWrite(MemWrite(csr), saved) /\ MemWrite(csr).mie = csr.mie
  <2>1. CASE mem.csr = "none"
    BY <1>5, <1>9, <2>1 DEF CsrBar, MemWrite
  <2>2. CASE mem.csr = "scratch"
    <3>1. mem.op = "scratch"
      <4>1. mem.csr = CsrName(mem.op) /\ mem.op \in H!Ops
        BY <2>2 DEF Fetched, TypeOK
      <4> QED
        BY <2>2, <4>1, CsrNameFacts
    <3>2. \A c, m, v : H!CsrWrite(c, "scratch", m, v) = [c EXCEPT !.scratch = v]
      BY DEF H!CsrWrite
    <3>3. MemWrite(csr) = [csr EXCEPT !.scratch = mem.a]
      BY <2>2, <3>1, <3>2 DEF MemWrite
    <3>4. CsrBar' = [csr' EXCEPT !.scratch = mem.a]
      <4>1. CsrBar' = CsrNext'
        BY <1>5, <2>2 DEF CsrBar
      <4>2. CsrNext' = H!CsrWrite(csr', wb'.op, wb'.mpie, wb'.a)
        BY <1>5, <2>2 DEF CsrNext, H!CsrWrite
      <4> QED
        BY <1>5, <3>1, <3>2, <4>1, <4>2
    <3> HIDE DEF IInv, StagesAgree
    <3>5. [H!TrapWrite(csr, saved) EXCEPT !.scratch = mem.a] = H!TrapWrite([csr EXCEPT !.scratch = mem.a], saved)
      BY <1>9 DEF H!TrapWrite, CsrFile
    <3> QED
      BY <1>9, <3>3, <3>4, <3>5 DEF CsrFile
  <2> QED
    BY <1>1, <2>1, <2>2
<1> HIDE DEF IInv, StagesAgree
<1> QED
  BY <1>4, <1>6, <1>7, <1>8, <1>9, <1>10 DEF Bar, Mid


\* Otherwise what is behind MEM is seen when it is a store that begins, or not yet.
LEMMA IssuesStore ==
  ASSUME IInv, Benign, ~Irq, state = "STAND_BY", IsStore, ~ex.mis, NEW line \in BOOLEAN, Clock(line)
  PROVE  /\ PcBar' = ex.pc + 1 /\ PcEx = ex.pc
         /\ Bar'.mem = IF ex.i.op = "sw" THEN [dmem EXCEPT ![Src1] = Src2]
                       ELSE [dmem EXCEPT ![Src1] = Src2, ![H!Word2(Src1)] = Src2]
         /\ Bar.mem = dmem
<1> USE DEF IInv, StagesAgree
<1>1. ~ex.dummy /\ ex.live /\ ex.i = H!Fetch(ex.pc) /\ ex.i.op \in {"sw", "swmis"} /\ ~HalfDone
  BY StoreFacts DEF HalfDone
<1>2. ~MdStall /\ ~ExFlush /\ ~MemFlush /\ ~TakeBranch
  BY <1>1 DEF MdStall, MdStart, H!MulDivs, IsStore, MemFlush, TakeBranch
<1>3. mem'.store /\ ~mem'.dummy /\ ~mem'.wen
  BY <1>1, <1>2, MemMoves DEF WritesReg, H!MulDivs, H!Loads
<1>4. PcBar' = PcEx'
  BY <1>3 DEF PcBar, PcEx, PcId
<1>5. PcId = ex.pc + 1 /\ PcEx = ex.pc
  BY <1>1 DEF Ordered, PcId, PcEx
<1>6. dmem' = [dmem EXCEPT ![Src1] = Src2] /\ addr_reg' = Src1
  BY DEF Clock, BusAddr
<1>7. CASE ex.i.op = "sw"
  <2>1. ~Misaligned
    BY <1>7 DEF Misaligned
  <2>2. ~Holds
    BY <1>2, <2>1 DEF Holds
  <2>3. PcEx' = ex.pc + 1
    BY <1>2, <1>5, <2>2, Passes
  <2>4. ~HalfDone'
    BY <2>2, ExMoves, NopFacts DEF HalfDone
  <2> HIDE DEF IInv, StagesAgree
  <2> QED
    BY <1>1, <1>4, <1>5, <1>6, <1>7, <2>3, <2>4 DEF Bar
<1>8. CASE ex.i.op = "swmis"
  <2>1. Misaligned
    BY <1>8 DEF Misaligned
  <2>2. Holds
    BY <1>2, <2>1 DEF Holds, IdFlush, Benign
  <2>3. ex'.i = ex.i /\ ex'.live /\ ex'.mis
    BY <1>1, <2>1, <2>2, ExMoves
  <2>4. HalfDone'
    BY <1>8, <2>3 DEF HalfDone
  <2>5. PcEx' = ex.pc + 1
    BY <1>5, <2>2, <2>4, WaitsBehind DEF PcEx
  <2>6. BusAddr' = H!Word2(Src1)
    BY <1>6, <2>3 DEF BusAddr, H!Word2
  <2>7. Src2' = Src2
    <3>1. Src2' = ReadBank(ex.i.rs2)'
      <4>1. TypeOK' /\ Operands'
        BY StepAgrees DEF Next
      <4>2. (TypeOK /\ Operands /\ ex.live /\ ~mem.wen)' => (Src2 = ReadBank(ex.i.rs2))'
        BY SourcesStay, PTL
      <4> QED
        BY <1>3, <2>3, <4>1, <4>2
    <3>2. ReadBank(ex.i.rs2)' = NextRead(ex.i.rs2)
      BY <2>3 DEF ReadBank, NextRead
    <3>3. Src2 = NextRead(ex.i.rs2)
      BY <1>1, <1>2, <1>8, SourcesMove DEF UsesRs2, H!Stores
    <3> QED
      BY <3>1, <3>2, <3>3
  <2> HIDE DEF IInv, StagesAgree
  <2>8. Bar'.mem = [dmem' EXCEPT ![H!Word2(Src1)] = Src2]
    BY <2>4, <2>6, <2>7 DEF Bar
  <2> QED
    BY <1>1, <1>4, <1>5, <1>6, <1>8, <2>5, <2>8 DEF Bar
<1> QED
  BY <1>1, <1>7, <1>8

LEMMA SeesNothing ==
  ASSUME IInv, Benign, ~Irq, state = "STAND_BY", ~IsStore \/ ex.mis, NEW line \in BOOLEAN, Clock(line)
  PROVE  PcBar' = PcEx /\ Bar'.mem = Bar.mem /\ stores' = stores
<1> USE DEF IInv, StagesAgree
<1>1. ~ExFlush /\ ~MemFlush
  BY DEF ExFlush, MemFlush
<1>2. IsStore <=> HalfDone
  BY HalfFacts, StoreFacts
<1>3. dmem' = IF HalfDone THEN [dmem EXCEPT ![BusAddr] = Src2] ELSE dmem
  BY <1>2 DEF Clock
<1>4. stores' = stores
  BY <1>2 DEF Clock, HalfDone
<1>5. ~HalfDone'
  <2>1. SUFFICES ASSUME HalfDone' PROVE FALSE
    OBVIOUS
  <2>2. Holds /\ ex.i.op = "swmis" /\ ex.live
    BY <2>1, ExMoves, NopFacts DEF HalfDone
  <2>3. Misaligned
    BY <2>2 DEF Holds, MdStall, MdStart, H!MulDivs
  <2>4. IsStore /\ ~ex.mis
    BY <1>1, <2>2, <2>3 DEF Misaligned, IsStore, H!Stores
  <2> QED
    BY <2>4
<1>6. Bar'.mem = Bar.mem
  BY <1>3, <1>5 DEF Bar
<1>7. PcBar' = PcEx
  <2>1. CASE Holds /\ Misaligned
    <3>1. ~ex.dummy /\ ~ex.mis /\ ~MdStall
      BY <2>1, MisalignedFacts DEF MdStall, MdStart, H!MulDivs
    <3>2. ~mem'.dummy /\ ~mem'.store /\ mem'.pc = ex.pc
      BY <1>1, <3>1, MemMoves
    <3> QED
      BY <3>1, <3>2 DEF PcBar, PcEx, HalfDone
  <2>2. CASE Holds /\ ~Misaligned
    <3>1. MdStall /\ mem'.dummy
      BY <2>2, MemMoves, NopFacts DEF Holds
    <3>2. ex'.pc = ex.pc /\ ex'.dummy = ex.dummy /\ ~HalfDone
      BY <2>2, <3>1, ExMoves DEF MdStall, MdStart, H!MulDivs, HalfDone
    <3>3. PcId' = PcId
      BY <2>2, WaitsBehind
    <3> QED
      BY <1>5, <3>1, <3>2, <3>3 DEF PcBar, PcEx, PcId
  <2>3. CASE ~Holds /\ ex.dummy
    <3>1. ~TakeBranch
      BY <2>3, NopFacts DEF Benign, TakeBranch, Fetched
    <3>2. mem'.dummy
      BY <1>1, <2>3, MemMoves, NopFacts
    <3>3. PcEx' = PcId
      BY <2>3, <3>1, Passes
    <3> QED
      BY <2>3, <3>2, <3>3 DEF PcBar, PcEx, PcId
  <2>4. CASE ~Holds /\ ~ex.dummy
    <3>1. ~MdStall
      <4>1. MdStall => ~TakeBranch
        BY DEF MdStall, MdStart, H!MulDivs, TakeBranch
      <4>2. MdStall => ~IdFlush
        BY <1>1 DEF IdFlush, Benign
      <4> QED
        BY <2>4, <4>1, <4>2 DEF Holds
    <3>2. ~mem'.dummy /\ mem'.pc = ex.pc /\ mem'.store = IsStore
      BY <1>1, <2>4, <3>1, MemMoves
    <3>3. CASE ~IsStore
      BY <1>2, <2>4, <3>2, <3>3 DEF PcBar, PcEx
    <3>4. CASE IsStore
      <4>1. ~TakeBranch
        BY <3>4 DEF TakeBranch, IsStore, H!Stores
      <4>2. PcEx' = PcId
        BY <2>4, <4>1, Passes
      <4> QED
        BY <1>2, <2>4, <3>2, <3>4, <4>2 DEF PcBar, PcEx, PcId
    <3> QED
      BY <3>3, <3>4
  <2> QED
    BY <2>1, <2>2, <2>3, <2>4
<1> QED
  BY <1>4, <1>6, <1>7


\* A cycle shows the program nothing, one step or two.
LEMMA StepIsSteps ==
  ASSUME IInv, Benign, NEW line \in BOOLEAN, Clock(line)
  PROVE  Bar' = Bar \/ Machine!Next
<1> DEFINE S(h) == Machine!Steps(h)
<1>1. /\ \A h : H!Execute(h) \in S(h)
      /\ \A h : h.csr.mie => H!Interrupt(h) \in S(h)
      /\ (Bar' \in S(Bar) \/ \E m \in S(Bar) : Bar' \in S(m)) => Machine!Next
  <2>1. prog' = prog
    BY DEF Clock
  <2> QED
    BY <2>1, SameMachine DEF Machine!Next, Machine!Steps
<1> HIDE DEF S
<1>2. CASE Irq
  BY <1>2, IrqSeesNothing
<1>3. CASE ~Irq
  <2>1. Mid = (IF Completes THEN H!Execute(Bar) ELSE Bar)
    BY <1>3, MidIs
  <2>2. SUFFICES Bar' = Mid \/ Bar' \in S(Mid)
    BY <1>1, <2>1
  <2>3. Mid \in Harts /\ \A r \in Reg : Mid.regs[r] = NextRead(r)
    BY MidType
  <2>4. CASE state = "S1"
    <3>1. /\ Bar' = [pc |-> mcause, regs |-> Mid.regs, mem |-> Mid.mem, csr |-> H!TrapWrite(Mid.csr, Mid.pc),
                     stores |-> Mid.stores]
          /\ Mid.pc = saved /\ Mid.csr.mie = csr.mie
      BY <1>3, <2>4, EntersTrap
    <3>2. CASE mcause = ExcVec /\ H!Fetch(saved).op = "ecall"
      <4>1. H!Execute(Mid) = [pc |-> ExcVec, regs |-> Mid.regs, mem |-> Mid.mem,
                              csr |-> H!TrapWrite(Mid.csr, Mid.pc), stores |-> Mid.stores]
        BY <2>3, <3>1, <3>2, Executes
      <4> QED
        BY <1>1, <3>1, <3>2, <4>1
    <3>3. CASE mcause = IrqVec /\ csr.mie
      <4>1. H!Interrupt(Mid) = [pc |-> IrqVec, regs |-> Mid.regs, mem |-> Mid.mem,
                                csr |-> H!TrapWrite(Mid.csr, Mid.pc), stores |-> Mid.stores]
        BY <2>3, Executes
      <4> QED
        BY <1>1, <3>1, <3>3, <4>1
    <3> QED
      BY <2>4, <3>2, <3>3 DEF IInv, StagesAgree, Entering
  <2>5. CASE state = "STAND_BY"
    <3>1. CsrBar' = MemWrite(CsrBar)
      <4>1. wb'.csr = mem.csr /\ wb'.op = mem.op /\ wb'.mpie = mem.mpie /\ wb'.a = mem.a
        BY <1>3, WbMoves DEF MemFlush, IInv, StagesAgree
      <4>2. csr' = CsrBar
        BY <2>5, CsrKept DEF IInv, StagesAgree
      <4>3. CASE wb'.csr = "none"
        BY <4>1, <4>2, <4>3 DEF CsrBar, MemWrite
      <4>4. CASE wb'.csr # "none"
        <5>1. CsrBar' = CsrNext'
          BY <4>4 DEF CsrBar
        <5>2. /\ wb'.csr = "mret" => CsrNext' = H!MretWrite(csr')
              /\ wb'.csr # "mret" => CsrNext' = H!CsrWrite(csr', wb'.op, wb'.mpie, wb'.a)
          BY <4>4 DEF CsrNext, H!MretWrite, H!CsrWrite
        <5> QED
          BY <4>1, <4>2, <4>4, <5>1, <5>2 DEF MemWrite
      <4> QED
        BY <4>3, <4>4
    <3>2. CASE IsStore /\ ~ex.mis
      <4>1. /\ PcBar' = ex.pc + 1 /\ PcEx = ex.pc
            /\ Bar'.mem = IF ex.i.op = "sw" THEN [dmem EXCEPT ![Src1] = Src2]
                          ELSE [dmem EXCEPT ![Src1] = Src2, ![H!Word2(Src1)] = Src2]
            /\ Bar.mem = dmem
        BY <1>3, <2>5, <3>2, IssuesStore
      <4>2. ex.live /\ ex.i = H!Fetch(ex.pc) /\ ex.i.op \in {"sw", "swmis"}
        BY <3>2, StoreFacts
      <4>3. Mid.pc = ex.pc /\ Mid.mem = dmem /\ Mid.csr = MemWrite(CsrBar) /\ Mid.stores = stores
        BY <4>1 DEF Mid
      <4>4. Mid.regs[ex.i.rs1] = Src1 /\ Mid.regs[ex.i.rs2] = Src2
        <5>1. ex.i.rs1 \in Reg /\ ex.i.rs2 \in Reg
          BY InstrFields DEF IInv, StagesAgree, TypeOK
        <5> QED
          BY <1>3, <2>3, <4>2, <5>1, SourcesMove DEF UsesRs1, UsesRs2, H!Stores, MemFlush
      <4>5. stores' = (stores + 1) % 4
        BY <3>2 DEF Clock
      <4>6. Bar' = [pc |-> ex.pc + 1, regs |-> Mid.regs, mem |-> Bar'.mem, csr |-> Mid.csr, stores |-> stores']
        BY <3>1, <4>1, <4>3 DEF Bar, Mid
      <4>7. CASE ex.i.op = "sw"
        <5>1. H!Execute(Mid) = [pc |-> ex.pc + 1, regs |-> Mid.regs, mem |-> [dmem EXCEPT ![Src1] = Src2],
                                csr |-> Mid.csr, stores |-> (stores + 1) % 4]
          BY <2>3, <4>2, <4>3, <4>4, <4>7, Executes
        <5> QED
          BY <1>1, <4>1, <4>5, <4>6, <4>7, <5>1
      <4>8. CASE ex.i.op = "swmis"
        <5>1. H!Execute(Mid) = [pc |-> ex.pc + 1, regs |-> Mid.regs,
                                mem |-> [dmem EXCEPT ![Src1] = Src2, ![H!Word2(Src1)] = Src2],
                                csr |-> Mid.csr, stores |-> (stores + 1) % 4]
          BY <2>3, <4>2, <4>3, <4>4, <4>8, Executes
        <5> QED
          BY <1>1, <4>1, <4>5, <4>6, <4>8, <5>1
      <4> QED
        BY <4>2, <4>7, <4>8
    <3>3. CASE ~IsStore \/ ex.mis
      <4>1. PcBar' = PcEx /\ Bar'.mem = Bar.mem /\ stores' = stores
        BY <1>3, <2>5, <3>3, SeesNothing
      <4>2. Bar' = [pc |-> PcBar', regs |-> [Bank' EXCEPT ![0] = 0], mem |-> Bar'.mem, csr |-> CsrBar', stores |-> stores']
        BY DEF Bar
      <4> QED
        BY <3>1, <4>1, <4>2 DEF Mid
    <3> QED
      BY <3>2, <3>3
  <2> QED
    BY <2>4, <2>5 DEF IInv, StagesAgree, TypeOK
<1> QED
  BY <1>2, <1>3

\* Every program sees a machine that runs one instruction after another: the pipeline implements
\* Hart, in every run in which nothing happens that the core does not stand.
THEOREM PipelineRefines == Spec /\ []Benign => Refines
<1>1. IInv /\ Benign /\ [Next]_vars => [Machine!Next]_<<prog, Bar>>
  <2> SUFFICES ASSUME IInv, Benign, [Next]_vars PROVE (prog' = prog /\ Bar' = Bar) \/ Machine!Next
    OBVIOUS
  <2>1. CASE Next
    <3>1. PICK line \in BOOLEAN : Clock(line)
      BY <2>1 DEF Next
    <3> QED
      BY <3>1, StepIsSteps DEF Clock
  <2>2. CASE UNCHANGED vars
    <3>1. Bar' = Bar
      BY <2>2 DEF vars, Bar, PcBar, CsrBar, CsrNext, HalfDone, Bank, BusAddr, Src1, Src2, Forward,
                  H!Word2, H!MretWrite, H!CsrWrite, H!TrapWrite
    <3> QED
      BY <2>2, <3>1 DEF vars
  <2> QED
    BY <2>1, <2>2
<1> QED
  BY InitAgrees, StepAgrees, <1>1, PTL DEF Spec, Refines, Machine!Spec


-----------------------------------------------------------------------------
(* Programs that need no such condition *)

\* Computing, branching, loading and storing; no CSR instructions, no traps, no requests.
PlainOps == {"op", "beq"} \cup H!MulDivs \cup H!Loads \cup H!Stores
Plain == \A s \in Suites : s.irqs = 0 /\ \A p \in s.programs : \A k \in DOMAIN p : p[k].op \in PlainOps

\* Nothing traps, every branch is still what it was when it was read, and an operation of the
\* multiplier that has cycles left is the one in EX.
Calm == /\ \A k \in DOMAIN prog : prog[k].op \in PlainOps
        /\ irqs = 0 /\ mip = FALSE /\ state = "STAND_BY"
        /\ id.i.op \in PlainOps /\ ex.i.op \in PlainOps
        /\ ex.i.op = "beq" => ex.live
        /\ md.left > 1 => ex.i.op \in {"mul", "div"}

LEMMA PlainFacts == \A op \in PlainOps : op \notin {"ecall", "mret", "csrsi", "csrci"} /\ CsrName(op) = "none"
BY DEF PlainOps, H!MulDivs, H!Loads, H!Stores, CsrName

LEMMA CalmQuiet ==
  ASSUME Calm
  PROVE  ~Irq /\ ~Exception /\ ~Mret /\ ~IdFlush /\ ~CsrStall
<1>1. ~Irq /\ ~Exception /\ ~Mret /\ ~CsrStall
  BY PlainFacts DEF Calm, Irq, Exception, Mret, CsrStall
<1> QED
  BY <1>1 DEF IdFlush, ExFlush, MemFlush

LEMMA CalmIsBenign == ASSUME Calm, TypeOK PROVE Benign
<1>1. ~Irq /\ ~Exception /\ ~Mret /\ state # "S1" /\ id.i.op \notin {"csrsi", "csrci"}
  BY CalmQuiet, PlainFacts DEF Calm
<1>2. TakeBranch => ex.live
  BY DEF TakeBranch, Calm
<1>3. Enters => md.left <= 1
  <2>1. SUFFICES ASSUME Enters, md.left > 1 PROVE FALSE
    BY DEF TypeOK
  <2>2. MdStall
    BY <2>1 DEF Calm, MdStall, MdStart, MdDone, H!MulDivs, TypeOK
  <2> QED
    BY <2>1, <2>2 DEF Enters, StallId
<1> QED
  BY <1>1, <1>2, <1>3 DEF Benign

LEMMA CalmStep == ASSUME Calm, TypeOK, NEW line \in BOOLEAN, Clock(line) PROVE Calm'
<1>1. prog' = prog /\ irqs' = 0 /\ mip' = FALSE
  <2>1. line = FALSE
    BY DEF Clock, Calm
  <2> QED
    BY <2>1, CalmQuiet DEF Clock, Calm, MipNext
<1>2. state' = "STAND_BY"
  BY CalmQuiet, StandBy
<1>3. Nop.op \in PlainOps /\ \A p : H!Fetch(p).op \in PlainOps
  BY NopFacts DEF Calm, PlainOps, H!Fetch, Nop
<1>4. id'.i.op \in PlainOps
  BY <1>3, IdMoves, NopFacts DEF Calm
<1>5. ex'.i.op \in PlainOps /\ (ex'.i.op = "beq" => ex'.live)
  <2>1. Bubbles => ex.i.op # "beq"
    BY CalmQuiet DEF Bubbles, StallId, HazardStall, L, H!Loads
  <2> QED
    BY <1>3, <2>1, ExMoves, NopFacts DEF Calm
<1>6. md'.left > 1 => ex'.i.op \in {"mul", "div"}
  <2>1. SUFFICES ASSUME md'.left > 1 PROVE ex'.i.op \in {"mul", "div"}
    OBVIOUS
  <2>2. MdStall /\ ex.i.op \in {"mul", "div"}
    <3>1. CASE md.left = 0
      <4>1. MdStall
        BY <2>1, <3>1, MdMoves
      <4> QED
        BY <3>1, <4>1 DEF MdStall, MdStart, MdDone, H!MulDivs
    <3>2. CASE md.left > 0
      <4>1. md.left > 1 /\ md.left # 1
        BY <2>1, <3>2, MdMoves DEF TypeOK
      <4> QED
        BY <3>2, <4>1 DEF Calm, MdStall, MdStart, MdDone, H!MulDivs
    <3> QED
      BY <3>1, <3>2 DEF TypeOK
  <2>3. Holds
    BY <2>2, CalmQuiet DEF Holds, TakeBranch
  <2> QED
    BY <2>2, <2>3, ExMoves
<1> HIDE DEF H!Val, Val
<1> QED
  BY <1>1, <1>2, <1>4, <1>5, <1>6 DEF Calm, PlainOps, H!MulDivs, H!Loads, H!Stores

\* A program of plain instructions sees the machine of Hart without any condition.
THEOREM PlainProgramsRun == ASSUME Plain PROVE Spec => Refines
<1>1. Init => Calm
  <2> SUFFICES ASSUME Init PROVE Calm
    OBVIOUS
  <2>1. PICK s \in Suites : prog \in s.programs /\ irqs = s.irqs
    BY DEF Init
  <2>2. irqs = 0 /\ \A k \in DOMAIN prog : prog[k].op \in PlainOps
    BY <2>1 DEF Plain
  <2>3. state = "STAND_BY" /\ id = NoId /\ ex = NoEx
    BY DEF Init
  <2>4. mip = FALSE
    BY DEF Init
  <2>5. md = [left |-> 0, a |-> 0, b |-> 0]
    BY DEF Init
  <2>6. id.i.op = "op" /\ ex.i.op = "op" /\ md.left = 0
    BY <2>3, <2>5, NopFacts
  <2> QED
    BY <2>2, <2>3, <2>4, <2>6 DEF Calm, PlainOps
<1>2. IInv /\ Calm /\ [Next]_vars => Calm'
  <2> SUFFICES ASSUME IInv, Calm, [Next]_vars PROVE Calm'
    OBVIOUS
  <2>1. CASE Next
    BY <2>1, CalmStep DEF Next, IInv, StagesAgree
  <2>2. CASE UNCHANGED vars
    BY <2>2 DEF vars, Calm, PlainOps, H!MulDivs, H!Loads, H!Stores
  <2> QED
    BY <2>1, <2>2
<1>3. IInv /\ Calm => Benign
  BY CalmIsBenign DEF IInv, StagesAgree
<1> QED
  BY InitAgrees, StepAgrees, <1>1, <1>2, <1>3, PipelineRefines, PTL DEF Spec

=============================================================================
