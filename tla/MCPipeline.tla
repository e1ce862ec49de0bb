----------------------------- MODULE MCPipeline -----------------------------
(***************************************************************************)
(* Instances of the pipeline: all programs of up to Len instructions out   *)
(* of a set, which end in a loop and have a handler for each kind of trap. *)
(***************************************************************************)
EXTENDS Pipeline, FiniteSets

CONSTANT Quiet   \* are the sequences left out that the core does not execute rightly?

Lead   == 4      \* nops before the program
Len    == 4      \* instructions of the longest program
End    == Lead + Len
MCExcVec == End + 4
MCIrqVec == End + 10
MCBoot   == End + 16

I(op, rd, rs1, rs2) == [op |-> op, rd |-> rd, rs1 |-> rs1, rs2 |-> rs2, to |-> 0]

\* The instructions of each kind: x1 and x2 as sources and targets of each other, and x0.
Of(kind) ==
    CASE kind = "op"    -> {I("op", 1, 1, 2), I("op", 2, 1, 0), I("op", 0, 1, 2)}
      [] kind = "op1"   -> {I("op", 1, 1, 2)}
      [] kind = "lw"    -> {I("lw", 1, 2, 0)}
      [] kind = "lwmis" -> {I("lwmis", 1, 1, 0)}
      [] kind = "sw"    -> {I("sw", 0, 1, 2), I("sw", 0, 2, 1)}
      [] kind = "swmis" -> {I("swmis", 0, 1, 2)}
      [] kind = "beq"   -> {I("beq", 0, 1, 2), I("beq", 0, 1, 0)}
      [] kind = "fast"  -> {I("fast", 1, 1, 2)}
      [] kind = "mul"   -> {I("mul", 2, 1, 2)}
      [] kind = "div"   -> {I("div", 1, 1, 2)}
      [] kind = "scratch" -> {I("scratch", 1, 2, 0)}
      [] kind = "epc"   -> {I("epc", 0, 2, 0)}
      [] OTHER          -> {I(kind, 0, 0, 0)}

Jump(to) == [I("beq", 0, 0, 0) EXCEPT !.to = to]

\* A branch skips the next instruction.
At(i, p) == IF i.op = "beq" THEN [i EXCEPT !.to = p + 2] ELSE i

\* mret reads mepc while it is in ID, with no regard to a write on its way to WB: a handler
\* that sets mepc (to 0, 1 or 2) has three instructions before its mret.  And the two instructions
\* mret returns to see mstatus as it was before: where they may be csrsi, csrci or ecall, Lead
\* nops take their place.
Gap(h) == IF h.op = "epc" THEN 4 ELSE 1

\* A body with handlers that begin with h, entered at start.
Whole(body, h, start) ==
    [p \in 0 .. MCBoot |->
        CASE p - Lead \in DOMAIN body                    -> At(body[p - Lead], p)
          [] p \in Lead + Cardinality(DOMAIN body) .. End + 1 -> Jump(p)
          [] p \in {MCExcVec, MCIrqVec}                     -> h
          [] p \in {MCExcVec + Gap(h), MCIrqVec + Gap(h)}   -> I("mret", 0, 0, 0)
          [] p = MCBoot                                   -> Jump(start)
          [] OTHER                                      -> I("op", 0, 0, 0)]

\* op p is one of ops in body b
Has(b, p, ops) == p \in DOMAIN b /\ b[p].op \in ops

\* An instruction that waits in ID behind a CSR access may not leave a branch in EX.
NoGhost(b) == \A p, q \in DOMAIN b :
                 p < q /\ q <= p + 3 /\ Has(b, p, H!Csrs) /\ Has(b, q, H!Csrs) => ~Has(b, q - 1, {"beq"})

\* An ecall must find nothing unfinished before it: no multi-cycle instruction in EX, no CSR
\* instruction in EX or MEM.
NoLostEcall(b) == \A p \in DOMAIN b : Has(b, p, {"ecall"}) =>
                    /\ ~Has(b, p - 1, {"mul", "div", "lwmis", "swmis", "csrsi", "csrci"})
                    /\ ~Has(b, p - 2, H!Csrs)

\* All bodies of len instructions of these kinds.
Wholes(len, kinds, h, start) ==
    {Whole(b, i, start) : b \in {x \in [0 .. len - 1 -> UNION {Of(k) : k \in kinds}] :
                                    Quiet => NoGhost(x) /\ NoLostEcall(x)},
                          i \in Of(h)}

\* Operands, stalls and flushes, with no interrupts; interrupts at any moment; traps by ecall,
\* with handlers that set where to go on, and programs that switch interrupts.
MCSuites == {[irqs |-> 0, programs |-> Wholes(4, {"op", "lw", "lwmis", "sw", "swmis", "beq", "fast",
                                                  "mul", "div", "scratch"}, "op1", Lead)],
             [irqs |-> 2, programs |-> Wholes(3, {"op1", "lw", "lwmis", "sw", "swmis", "beq", "mul",
                                                  "scratch"}, "op1", Lead)],
             [irqs |-> 0, programs |-> Wholes(4, {"op1", "sw", "beq", "mul", "lwmis", "scratch",
                                                  "csrsi", "csrci", "ecall"}, "epc", 0)]}

MCBanks == {[r \in 0 .. 2 |-> r]}
MCDmems == {[w \in 0 .. 2 |-> w]}
=============================================================================
