-------------------------------- MODULE Hart --------------------------------
(***************************************************************************)
(* What the core promises its programs: one instruction after another,     *)
(* with interrupts between instructions and exceptions in place of the     *)
(* instruction that raises them.  A clock cycle of the pipelined core      *)
(* completes none, one or two of these steps.                              *)
(*                                                                         *)
(* Registers count modulo 3, the memory has a word for each value, and an  *)
(* instruction computes just enough for any change of one operand to show: *)
(* what is checked is which values meet, not arithmetic.                   *)
(***************************************************************************)
EXTENDS Integers

CONSTANTS NumRegs,      \* registers, x0 among them
          ExcVec, IrqVec  \* where exceptions and interrupts enter

VARIABLES prog,   \* the program memory; what is outside it is a nop
          hart    \* the machine as programs see it

Val == 0 .. 2
Reg == 0 .. NumRegs - 1

MulDivs == {"fast", "mul", "div"}     \* a trivial one (MULDIV's fast result), a product, a quotient
Loads   == {"lw", "lwmis"}            \* aligned, and across two words
Stores  == {"sw", "swmis"}
Csrs    == {"scratch", "csrsi", "csrci", "epc"}  \* csrrw mscratch; set and clear mstatus.mie; csrw mepc
Ops     == {"op", "beq", "ecall", "mret"} \cup MulDivs \cup Loads \cup Stores \cup Csrs

Instr   == [op : Ops, rd : Reg, rs1 : Reg, rs2 : Reg, to : Int]
Nop     == [op |-> "op", rd |-> 0, rs1 |-> 0, rs2 |-> 0, to |-> 0]
Fetch(p) == IF p \in DOMAIN prog THEN prog[p] ELSE Nop

Word2(a)     == (a + 1) % 3      \* the second word of an access across two
Alu(a, b)    == (a + 2 * b + 1) % 3
MulDiv(a, b) == (a + b) % 3
Join(lo, hi) == (lo + 2 * hi) % 3

\* csrrw writes the register; csrsi and csrci rewrite both bits they have read.
CsrWrite(c, op, mpie, a) ==
    CASE op = "scratch" -> [c EXCEPT !.scratch = a]
      [] op = "epc"     -> [c EXCEPT !.mepc = a]
      [] op = "csrsi"   -> [c EXCEPT !.mie = TRUE, !.mpie = mpie]
      [] op = "csrci"   -> [c EXCEPT !.mie = FALSE, !.mpie = mpie]

MretWrite(c)   == [c EXCEPT !.mie = c.mpie, !.mpie = TRUE]
TrapWrite(c, pc) == [c EXCEPT !.mepc = pc, !.mpie = c.mie, !.mie = FALSE]

-----------------------------------------------------------------------------

Set(h, r, v) == [h EXCEPT !.pc = @ + 1, !.regs[r] = IF r = 0 THEN 0 ELSE v]

Execute(h) ==
    LET i == Fetch(h.pc)  a == h.regs[i.rs1]  b == h.regs[i.rs2]  on == [h EXCEPT !.pc = @ + 1] IN
    CASE i.op = "op"       -> Set(h, i.rd, Alu(a, b))
      [] i.op \in MulDivs  -> Set(h, i.rd, MulDiv(a, b))
      [] i.op = "lw"       -> Set(h, i.rd, h.mem[a])
      [] i.op = "lwmis"    -> Set(h, i.rd, Join(h.mem[a], h.mem[Word2(a)]))
      [] i.op = "sw"       -> [on EXCEPT !.mem[a] = b, !.stores = (@ + 1) % 4]
      [] i.op = "swmis"    -> [on EXCEPT !.mem[a] = b, !.mem[Word2(a)] = b, !.stores = (@ + 1) % 4]
      [] i.op = "beq"      -> [h EXCEPT !.pc = IF a = b THEN i.to ELSE @ + 1]
      [] i.op = "scratch"  -> [Set(h, i.rd, h.csr.scratch) EXCEPT !.csr.scratch = a]
      [] i.op \in Csrs \ {"scratch"} -> [on EXCEPT !.csr = CsrWrite(@, i.op, @.mpie, a)]
      [] i.op = "mret"     -> [h EXCEPT !.pc = h.csr.mepc, !.csr = MretWrite(@)]
      [] i.op = "ecall"    -> [h EXCEPT !.pc = ExcVec, !.csr = TrapWrite(@, h.pc)]

Interrupt(h) == [h EXCEPT !.pc = IrqVec, !.csr = TrapWrite(@, h.pc)]

Steps(h) == {Execute(h)} \cup (IF h.csr.mie THEN {Interrupt(h)} ELSE {})

Next == /\ hart' \in Steps(hart) \cup UNION {Steps(h) : h \in Steps(hart)}
        /\ prog' = prog

Spec == [][Next]_<<prog, hart>>
=============================================================================
