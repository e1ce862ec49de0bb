------------------------------ MODULE AsyncFifo ------------------------------
(***************************************************************************)
(* The dual-clock FIFO of the CW305 bridge (sca/rtl/async_fifo).  The      *)
(* write clock and the read clock are unrelated: their edges interleave    *)
(* freely and may coincide.  Each side owns a pointer one bit wider than   *)
(* the address, publishes it, and sees the other side's pointer through    *)
(* two flip-flops, so each works with an outdated value of the other.      *)
(*                                                                         *)
(* Here a pointer is a position 0 .. 2*Depth-1.  That a position survives  *)
(* the crossing (it is Gray coded, so an edge that catches it changing     *)
(* reads the old or the new one) is the subject of AsyncFifoGray.          *)
(***************************************************************************)
EXTENDS Integers, Sequences

CONSTANTS Data,   \* the bytes
          Depth   \* DEPTH = 1 << ADDRSIZE

ASSUME DepthAssumption == Depth \in Nat \ {0}
ASSUME DataAssumption  == Data # {}

VARIABLES mem,       \* fifomem.mem
          wbin,      \* wptr_full.wbin (wptr is its Gray code)
          wfull,     \* wptr_full.wfull
          wq1_rptr,  \* sync_r2w, first flop
          wq2_rptr,  \* sync_r2w, second flop
          rbin,      \* rptr_empty.rbin (rptr is its Gray code)
          rempty,    \* rptr_empty.rempty
          rq1_wptr,  \* sync_w2r, first flop
          rq2_wptr,  \* sync_w2r, second flop
          rdata      \* fifomem.rdata_r: the byte the reader latches

wvars == <<wbin, wfull, wq1_rptr, wq2_rptr, mem>>
rvars == <<rbin, rempty, rq1_wptr, rq2_wptr, rdata>>
vars  == <<mem, wbin, wfull, wq1_rptr, wq2_rptr,
           rbin, rempty, rq1_wptr, rq2_wptr, rdata>>

-----------------------------------------------------------------------------
(* Positions on a ring of 2 * Depth, and the cell a position addresses.    *)

Position == 0 .. 2 * Depth - 1
Addr     == 0 .. Depth - 1

\* p + n on the ring, for 0 <= n <= 2 * Depth
Plus(p, n) == IF p + n < 2 * Depth THEN p + n ELSE p + n - 2 * Depth

\* How far a is ahead of b.
Ahead(a, b) == IF a >= b THEN a - b ELSE a - b + 2 * Depth

\* ADDRSIZE low bits of a pointer: waddr and raddr
AddrOf(p) == IF p < Depth THEN p ELSE p - Depth

-----------------------------------------------------------------------------
TypeOK ==
    /\ mem \in [Addr -> Data] /\ rdata \in Data
    /\ wbin \in Position /\ wq1_rptr \in Position /\ wq2_rptr \in Position
    /\ rbin \in Position /\ rq1_wptr \in Position /\ rq2_wptr \in Position
    /\ wfull \in BOOLEAN /\ rempty \in BOOLEAN

\* The memory and the data register have no reset.
Init ==
    /\ mem \in [Addr -> Data] /\ rdata \in Data
    /\ wbin = 0 /\ wq1_rptr = 0 /\ wq2_rptr = 0 /\ wfull = FALSE
    /\ rbin = 0 /\ rq1_wptr = 0 /\ rq2_wptr = 0 /\ rempty = TRUE

\* Wrong variant: the write pointer moves although the FIFO is full.
WbinNext_Unguarded(winc) == IF winc THEN Plus(wbin, 1) ELSE wbin

\* wbinnext and rbinnext
WbinNext(winc) == IF winc /\ ~wfull  THEN Plus(wbin, 1) ELSE wbin
RbinNext(rinc) == IF rinc /\ ~rempty THEN Plus(rbin, 1) ELSE rbin

\* Wrong variants: a flag that is one byte late, and the almost-empty test (arempty_val) in
\* place of the exact one.
EmptyVal_OneLate(rnext, wseen) == rnext = Plus(wseen, 1)
EmptyVal_Almost(rnext, wseen)  == Ahead(wseen, rnext) <= 1

\* wfull_val: the next write pointer is one lap ahead of the pointer seen
FullVal(wnext, rseen) == wnext = Plus(rseen, Depth)

\* rempty_val: the next read pointer has reached the pointer seen
EmptyVal(rnext, wseen) == rnext = wseen

\* An edge of the write clock on which the first synchroniser flop catches rptr.
WriteSide(winc, wdata, rptr) ==
    /\ wbin'  = WbinNext(winc)
    /\ wfull' = FullVal(WbinNext(winc), wq2_rptr)
    /\ mem'   = IF winc /\ ~wfull THEN [mem EXCEPT ![AddrOf(wbin)] = wdata] ELSE mem
    /\ wq1_rptr' = rptr
    /\ wq2_rptr' = wq1_rptr

\* An edge of the read clock on which the first synchroniser flop catches wptr.
\* The data register is loaded by rinc whether or not the FIFO is empty.
ReadSide(rinc, wptr) ==
    /\ rbin'   = RbinNext(rinc)
    /\ rempty' = EmptyVal(RbinNext(rinc), rq2_wptr)
    /\ rdata'  = IF rinc THEN mem[AddrOf(rbin)] ELSE rdata
    /\ rq1_wptr' = wptr
    /\ rq2_wptr' = rq1_wptr

WClk(winc, wdata) == WriteSide(winc, wdata, rbin) /\ UNCHANGED rvars

RClk(rinc) == ReadSide(rinc, wbin) /\ UNCHANGED wvars

\* Coincident edges: each side catches the other's pointer before or after it moves.
BothClk(winc, wdata, rinc) ==
    \E rptr \in {rbin, RbinNext(rinc)}, wptr \in {wbin, WbinNext(winc)} :
        WriteSide(winc, wdata, rptr) /\ ReadSide(rinc, wptr)

\* wrst_n and rrst_n come from one reset and act without a clock; the side whose
\* reset is released later just takes its first edge later.
Reset ==
    /\ wbin' = 0 /\ wq1_rptr' = 0 /\ wq2_rptr' = 0 /\ wfull' = FALSE
    /\ rbin' = 0 /\ rq1_wptr' = 0 /\ rq2_wptr' = 0 /\ rempty' = TRUE
    /\ UNCHANGED <<mem, rdata>>

Next == \/ \E winc \in BOOLEAN, wdata \in Data : WClk(winc, wdata)
        \/ \E rinc \in BOOLEAN : RClk(rinc)
        \/ \E winc, rinc \in BOOLEAN, wdata \in Data : BothClk(winc, wdata, rinc)
        \/ Reset

Spec == Init /\ [][Next]_vars

\* Neither clock ever stops: what a side sees of the other is brought up to date, by an
\* edge of its clock that need not come with a request and moves no pointer of its own.
WSees == \E winc \in BOOLEAN, wdata \in Data : WClk(winc, wdata) /\ wbin' = wbin
RSees == \E rinc \in BOOLEAN : RClk(rinc) /\ rbin' = rbin

FairSpec == /\ Spec
            /\ WF_<<wq1_rptr, wq2_rptr, wfull>>(WSees)
            /\ WF_<<rq1_wptr, rq2_wptr, rempty>>(RSees)

-----------------------------------------------------------------------------
(* Properties *)

\* The bytes between the two pointers, oldest first: what the FIFO holds.
ContentsOf(m, w, r) == [i \in 1 .. Ahead(w, r) |-> m[AddrOf(Plus(r, i - 1))]]

Contents == ContentsOf(mem, wbin, rbin)

Queue == INSTANCE FifoQueue WITH queue <- Contents, Capacity <- Depth

\* The two registered flags err on the safe side only: whenever wfull is low the
\* next write has a free cell, and whenever rempty is low the next read has a byte,
\* although both flags are computed from pointers that are two edges old.
FlagsAreConservative ==
    /\ ~wfull  => Ahead(wbin, rbin) < Depth
    /\ ~rempty => Ahead(wbin, rbin) > 0

\* The pointers keep their order around the ring, from the oldest knowledge the
\* writer has of the reader to the writer itself; all of it within one memory's
\* length.  It is what makes the two flags conservative.
PointersOrdered ==
    /\ Ahead(wbin, rq1_wptr) <= Ahead(wbin, rq2_wptr)
    /\ Ahead(wbin, rq2_wptr) <= Ahead(wbin, rbin)
    /\ Ahead(wbin, rbin)     <= Ahead(wbin, wq1_rptr)
    /\ Ahead(wbin, wq1_rptr) <= Ahead(wbin, wq2_rptr)
    /\ Ahead(wbin, wq2_rptr) <= Depth

\* The inductive invariant: the pointer order, and each flag correct for the
\* synchronised pointer its side will use on its next edge.
IInv ==
    /\ TypeOK
    /\ PointersOrdered
    /\ ~wfull  => Ahead(wbin, wq2_rptr) < Depth
    /\ ~rempty => Ahead(wbin, rq2_wptr) < Ahead(wbin, rbin)

\* The flags are not out of date for ever: a byte that was written becomes visible to the reader,
\* unless a reset drops it, and a writer held off by a full flag that is out of date is let go.
FlagsCatchUp ==
    /\ (wbin # rbin) ~> (~rempty \/ wbin = rbin)
    /\ (wfull /\ Ahead(wbin, rbin) < Depth) ~> (~wfull \/ Ahead(wbin, rbin) = Depth)

\* The FIFO implements the bounded queue.
ImplementsQueue == Queue!Spec
=============================================================================
