---------------------------- MODULE AsyncFifoGray ----------------------------
(***************************************************************************)
(* The dual-clock FIFO one level below AsyncFifo: pointers cross the clock *)
(* boundary bit by bit.  A flip-flop whose data changes at its clock edge  *)
(* settles on the old or the new value of its own bit, each bit for        *)
(* itself, so a caught pointer can be any mixture of the two values.  The  *)
(* pointers are published in Gray code and compared in Gray code; that the *)
(* mixture is then one of the two values, and that the two Gray            *)
(* comparisons are the tests AsyncFifo makes on positions, is the          *)
(* refinement checked here.                                                *)
(***************************************************************************)
EXTENDS Integers, Sequences

CONSTANTS Data,
          ASize,   \* ASIZE: address bits, at least 2 for the slices of wptr_full
          Pow      \* the powers of two up to the number of positions, each twice the one before

ASSUME ASizeAssumption == ASize \in Nat /\ ASize >= 2
ASSUME PowAssumption ==
    /\ Pow \in [0 .. ASize + 1 -> Nat \ {0}] /\ Pow[0] = 1
    /\ \A n \in 0 .. ASize : Pow[n + 1] = 2 * Pow[n]
ASSUME DataAssumption == Data # {}

VARIABLES mem, wbin, wfull, wq1_rptr, wq2_rptr,
          rbin, rempty, rq1_wptr, rq2_wptr, rdata,
          wptr,   \* wptr_full.wptr, the Gray code of wbin
          rptr    \* rptr_empty.rptr, the Gray code of rbin

wvars == <<wbin, wptr, wfull, wq1_rptr, wq2_rptr, mem>>
rvars == <<rbin, rptr, rempty, rq1_wptr, rq2_wptr, rdata>>

Bits  == 0 .. ASize
Zeros == [i \in Bits |-> 0]
Bit(b, i) == (b \div Pow[i]) % 2

\* Wrong code: the binary pointer itself is sent across.
BinaryCode(b) == [i \in Bits |-> Bit(b, i)]

\* (b >> 1) ^ b
GrayCode(b) == [i \in Bits |-> (Bit(b, i) + Bit(b, i + 1)) % 2]

\* The position a Gray vector stands for.
Decode(g) == CHOOSE b \in 0 .. Pow[ASize + 1] - 1 : GrayCode(b) = g

\* {~p[ADDRSIZE:ADDRSIZE-1], p[ADDRSIZE-2:0]}: the code of the position one lap away
OneLap(g) == [i \in Bits |-> IF i >= ASize - 1 THEN 1 - g[i] ELSE g[i]]

\* What synchroniser flops may catch when their input changes from old to new.
Caught(old, new) == {g \in [Bits -> {0, 1}] : \A i \in Bits : g[i] \in {old[i], new[i]}}

Fifo == INSTANCE AsyncFifo WITH
    Depth <- Pow[ASize],
    wq1_rptr <- Decode(wq1_rptr), wq2_rptr <- Decode(wq2_rptr),
    rq1_wptr <- Decode(rq1_wptr), rq2_wptr <- Decode(rq2_wptr)

Init ==
    /\ mem \in [Fifo!Addr -> Data] /\ rdata \in Data
    /\ wbin = 0 /\ wptr = Zeros /\ wfull = FALSE
    /\ wq1_rptr = Zeros /\ wq2_rptr = Zeros
    /\ rbin = 0 /\ rptr = Zeros /\ rempty = TRUE
    /\ rq1_wptr = Zeros /\ rq2_wptr = Zeros

WriteSide(winc, wdata, caught) ==
    LET wbinnext == Fifo!WbinNext(winc) IN
    /\ wbin'  = wbinnext
    /\ wptr'  = GrayCode(wbinnext)
    /\ wfull' = (GrayCode(wbinnext) = OneLap(wq2_rptr))
    /\ mem'   = IF winc /\ ~wfull THEN [mem EXCEPT ![Fifo!AddrOf(wbin)] = wdata] ELSE mem
    /\ wq1_rptr' = caught
    /\ wq2_rptr' = wq1_rptr

ReadSide(rinc, caught) ==
    LET rbinnext == Fifo!RbinNext(rinc) IN
    /\ rbin'   = rbinnext
    /\ rptr'   = GrayCode(rbinnext)
    /\ rempty' = (GrayCode(rbinnext) = rq2_wptr)
    /\ rdata'  = IF rinc THEN mem[Fifo!AddrOf(rbin)] ELSE rdata
    /\ rq1_wptr' = caught
    /\ rq2_wptr' = rq1_wptr

WClk(winc, wdata) == WriteSide(winc, wdata, rptr) /\ UNCHANGED rvars

RClk(rinc) == ReadSide(rinc, wptr) /\ UNCHANGED wvars

BothClk(winc, wdata, rinc) ==
    \E r \in Caught(rptr, GrayCode(Fifo!RbinNext(rinc))),
       w \in Caught(wptr, GrayCode(Fifo!WbinNext(winc))) :
        WriteSide(winc, wdata, r) /\ ReadSide(rinc, w)

Reset ==
    /\ wbin' = 0 /\ wptr' = Zeros /\ wfull' = FALSE
    /\ wq1_rptr' = Zeros /\ wq2_rptr' = Zeros
    /\ rbin' = 0 /\ rptr' = Zeros /\ rempty' = TRUE
    /\ rq1_wptr' = Zeros /\ rq2_wptr' = Zeros
    /\ UNCHANGED <<mem, rdata>>

Next == \/ \E winc \in BOOLEAN, wdata \in Data : WClk(winc, wdata)
        \/ \E rinc \in BOOLEAN : RClk(rinc)
        \/ \E winc, rinc \in BOOLEAN, wdata \in Data : BothClk(winc, wdata, rinc)
        \/ Reset

vars == <<wvars, rvars>>
Spec == Init /\ [][Next]_vars

-----------------------------------------------------------------------------
\* The Gray-coded FIFO makes only the steps of the FIFO on positions: a pointer
\* caught in flight is its old or its new value, and the full and empty tests on
\* Gray codes are the tests on positions (wptr_full.v:49, rptr_empty.v:47).
ImplementsFifo == Fifo!Spec
=============================================================================
