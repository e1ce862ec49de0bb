--------------------------- MODULE AsyncFifoProofs ---------------------------
(***************************************************************************)
(* Proofs about the dual-clock FIFO, for every memory size and byte set:   *)
(* the inductive invariant, the two safety properties that follow from it, *)
(* and the refinement of the bounded queue.                                *)
(***************************************************************************)
EXTENDS AsyncFifo, SequenceTheorems, TLAPS

(* The ring of positions: the helpers stay within their ranges. *)
LEMMA RingTypes ==
    ASSUME NEW p \in Position, NEW q \in Position
    PROVE  /\ Plus(p, 1) \in Position
           /\ Plus(p, Depth) \in Position
           /\ Ahead(p, q) \in Position
           /\ AddrOf(p) \in Addr
  BY DepthAssumption DEF Position, Addr, Plus, Ahead, AddrOf

(* An accepted write moves the write pointer one further from every other  *)
(* pointer that is less than a lap behind it.                              *)
LEMMA WriterMoves ==
    ASSUME NEW w \in Position, NEW p \in Position, Ahead(w, p) <= Depth - 1
    PROVE  Ahead(Plus(w, 1), p) = Ahead(w, p) + 1
  BY DepthAssumption DEF Position, Plus, Ahead

(* An accepted read moves the read pointer one nearer to the write pointer. *)
LEMMA ReaderMoves ==
    ASSUME NEW w \in Position, NEW r \in Position, Ahead(w, r) > 0
    PROVE  Ahead(w, Plus(r, 1)) = Ahead(w, r) - 1
  BY DepthAssumption DEF Position, Plus, Ahead

(* The full comparison is about the distance, the empty comparison too. *)
LEMMA FlagTests ==
    ASSUME NEW w \in Position, NEW p \in Position, NEW q \in Position
    PROVE  /\ FullVal(w, p)  <=> Ahead(w, p) = Depth
           /\ EmptyVal(p, q) <=> Ahead(w, p) = Ahead(w, q)
           /\ Ahead(p, p) = 0
           /\ Ahead(w, p) \in Nat
  BY DepthAssumption DEF Position, Plus, Ahead, FullVal, EmptyVal

-----------------------------------------------------------------------------
(* What an edge does to the distances, whatever the other side does at the *)
(* same instant.                                                           *)

LEMMA WriteEdge ==
    ASSUME IInv, NEW winc \in BOOLEAN
    PROVE  LET w == WbinNext(winc)
           IN  /\ w \in Position
               /\ \E n \in {0, 1} :
                    \A p \in {rq1_wptr, rq2_wptr, rbin, wq1_rptr, wq2_rptr} :
                       /\ p \in Position
                       /\ Ahead(w, p) = Ahead(wbin, p) + n
                       /\ Ahead(w, p) <= Depth
  <1> USE DEF IInv, TypeOK, PointersOrdered
  <1>1. CASE winc /\ ~wfull
    <2>1. WbinNext(winc) = Plus(wbin, 1) /\ WbinNext(winc) \in Position
      BY <1>1, RingTypes DEF WbinNext
    <2>a. /\ Ahead(wbin, rq1_wptr) \in Nat /\ Ahead(wbin, rq2_wptr) \in Nat
          /\ Ahead(wbin, rbin) \in Nat
          /\ Ahead(wbin, wq1_rptr) \in Nat /\ Ahead(wbin, wq2_rptr) \in Nat
      BY FlagTests
    <2>b. Ahead(wbin, wq2_rptr) <= Depth - 1
      BY <1>1, <2>a, DepthAssumption
    <2>2. \A p \in {rq1_wptr, rq2_wptr, rbin, wq1_rptr, wq2_rptr} :
             /\ p \in Position
             /\ Ahead(wbin, p) <= Depth - 1
             /\ Ahead(wbin, p) \in Int
      BY <2>a, <2>b, DepthAssumption
    <2>3. \A p \in {rq1_wptr, rq2_wptr, rbin, wq1_rptr, wq2_rptr} :
             /\ p \in Position
             /\ Ahead(WbinNext(winc), p) = Ahead(wbin, p) + 1
             /\ Ahead(WbinNext(winc), p) <= Depth
      BY <2>1, <2>2, WriterMoves, DepthAssumption
    <2> QED BY <2>1, <2>3
  <1>2. CASE ~(winc /\ ~wfull)
    <2>1. WbinNext(winc) = wbin
      BY <1>2 DEF WbinNext
    <2>2. \A p \in {rq1_wptr, rq2_wptr, rbin, wq1_rptr, wq2_rptr} :
             /\ p \in Position
             /\ Ahead(wbin, p) = Ahead(wbin, p) + 0
             /\ Ahead(wbin, p) <= Depth
      BY FlagTests, DepthAssumption
    <2> QED BY <2>1, <2>2
  <1> QED BY <1>1, <1>2

LEMMA ReadEdge ==
    ASSUME IInv, NEW rinc \in BOOLEAN
    PROVE  LET r == RbinNext(rinc)
           IN  /\ r \in Position
               /\ \/ r = rbin
                  \/ /\ Ahead(wbin, r) = Ahead(wbin, rbin) - 1
                     /\ Ahead(wbin, rq2_wptr) <= Ahead(wbin, r)
  <1> USE DEF IInv, TypeOK, PointersOrdered
  <1>1. CASE rinc /\ ~rempty
    <2>1. RbinNext(rinc) = Plus(rbin, 1) /\ RbinNext(rinc) \in Position
      BY <1>1, RingTypes DEF RbinNext
    <2>2. Ahead(wbin, rbin) > Ahead(wbin, rq2_wptr)
      BY <1>1
    <2>3. Ahead(wbin, rbin) \in Nat /\ Ahead(wbin, rq2_wptr) \in Nat
      BY FlagTests
    <2> QED BY <2>1, <2>2, <2>3, ReaderMoves
  <1>2. CASE ~(rinc /\ ~rempty)
    BY <1>2 DEF RbinNext
  <1> QED BY <1>1, <1>2

-----------------------------------------------------------------------------
(* The invariant is preserved by an edge of the write clock alone. *)
LEMMA WClkInv ==
    ASSUME IInv, NEW winc \in BOOLEAN, NEW wdata \in Data, WClk(winc, wdata)
    PROVE  IInv'
  <1> DEFINE w == WbinNext(winc)
  <1>1. /\ wbin' = w /\ wfull' = FullVal(w, wq2_rptr)
        /\ wq1_rptr' = rbin /\ wq2_rptr' = wq1_rptr
        /\ UNCHANGED <<rbin, rempty, rq1_wptr, rq2_wptr, rdata>>
        /\ mem' = IF winc /\ ~wfull THEN [mem EXCEPT ![AddrOf(wbin)] = wdata] ELSE mem
    BY DEF WClk, WriteSide, rvars
  <1>2. w \in Position
    BY WriteEdge
  <1>3. PICK n \in {0, 1} :
           \A p \in {rq1_wptr, rq2_wptr, rbin, wq1_rptr, wq2_rptr} :
              p \in Position /\ Ahead(w, p) = Ahead(wbin, p) + n /\ Ahead(w, p) <= Depth
    BY WriteEdge
  <1> HIDE DEF w
  <1>4. TypeOK'
    BY <1>1, <1>2 DEF IInv, TypeOK, FullVal
  <1>5. \A p, q \in Position : Ahead(p, q) \in Nat
    BY FlagTests
  <1>6. PointersOrdered'
    BY <1>1, <1>2, <1>3, <1>5 DEF IInv, TypeOK, PointersOrdered
  <1>7. ~wfull' => Ahead(wbin', wq2_rptr') < Depth
    <2>1. Ahead(w, wq1_rptr) <= Ahead(w, wq2_rptr) /\ Ahead(w, wq2_rptr) <= Depth
      BY <1>3, <1>5 DEF IInv, TypeOK, PointersOrdered
    <2>2. FullVal(w, wq2_rptr) <=> Ahead(w, wq2_rptr) = Depth
      BY <1>2, <1>3, FlagTests
    <2> QED BY <1>1, <1>2, <1>3, <1>5, <2>1, <2>2, DepthAssumption
  <1>8. ~rempty' => Ahead(wbin', rq2_wptr') < Ahead(wbin', rbin')
    BY <1>1, <1>2, <1>3, <1>5 DEF IInv, TypeOK
  <1> QED BY <1>4, <1>6, <1>7, <1>8 DEF IInv

(* The invariant is preserved by an edge of the read clock alone. *)
LEMMA RClkInv ==
    ASSUME IInv, NEW rinc \in BOOLEAN, RClk(rinc)
    PROVE  IInv'
  <1> DEFINE r == RbinNext(rinc)
  <1>1. /\ rbin' = r /\ rempty' = EmptyVal(r, rq2_wptr)
        /\ rq1_wptr' = wbin /\ rq2_wptr' = rq1_wptr
        /\ rdata' = IF rinc THEN mem[AddrOf(rbin)] ELSE rdata
        /\ UNCHANGED <<wbin, wfull, wq1_rptr, wq2_rptr, mem>>
    BY DEF RClk, ReadSide, wvars
  <1>2. /\ r \in Position
        /\ \/ r = rbin
           \/ /\ Ahead(wbin, r) = Ahead(wbin, rbin) - 1
              /\ Ahead(wbin, rq2_wptr) <= Ahead(wbin, r)
    BY ReadEdge
  <1> HIDE DEF r
  <1>3. \A p, q \in Position : Ahead(p, q) \in Nat /\ Ahead(p, p) = 0
    BY FlagTests
  <1>4. TypeOK'
    BY <1>1, <1>2, RingTypes DEF IInv, TypeOK, EmptyVal
  <1>5. PointersOrdered'
    BY <1>1, <1>2, <1>3 DEF IInv, TypeOK, PointersOrdered
  <1>6. ~rempty' => Ahead(wbin', rq2_wptr') < Ahead(wbin', rbin')
    <2>1. /\ Ahead(wbin, rq1_wptr) <= Ahead(wbin, rq2_wptr)
          /\ Ahead(wbin, rq2_wptr) <= Ahead(wbin, r)
      BY <1>2, <1>3 DEF IInv, TypeOK, PointersOrdered
    <2>2. EmptyVal(r, rq2_wptr) <=> Ahead(wbin, r) = Ahead(wbin, rq2_wptr)
      BY <1>2, FlagTests DEF IInv, TypeOK
    <2>3. /\ Ahead(wbin, r) \in Nat /\ Ahead(wbin, rq1_wptr) \in Nat
          /\ Ahead(wbin, rq2_wptr) \in Nat
      BY <1>2, <1>3 DEF IInv, TypeOK
    <2> QED BY <1>1, <2>1, <2>2, <2>3
  <1>7. ~wfull' => Ahead(wbin', wq2_rptr') < Depth
    BY <1>1 DEF IInv
  <1> QED BY <1>4, <1>5, <1>6, <1>7 DEF IInv

(* The invariant is preserved when the two edges coincide, whichever value *)
(* of the other side's pointer each synchroniser catches.                  *)
LEMMA BothClkInv ==
    ASSUME IInv, NEW winc \in BOOLEAN, NEW wdata \in Data, NEW rinc \in BOOLEAN,
           BothClk(winc, wdata, rinc)
    PROVE  IInv'
  <1> DEFINE w == WbinNext(winc)
             r == RbinNext(rinc)
  <1>1. PICK rptr \in {rbin, r}, wptr \in {wbin, w} :
           WriteSide(winc, wdata, rptr) /\ ReadSide(rinc, wptr)
    BY DEF BothClk
  <1>2. /\ wbin' = w /\ wfull' = FullVal(w, wq2_rptr)
        /\ wq1_rptr' = rptr /\ wq2_rptr' = wq1_rptr
        /\ mem' = IF winc /\ ~wfull THEN [mem EXCEPT ![AddrOf(wbin)] = wdata] ELSE mem
        /\ rbin' = r /\ rempty' = EmptyVal(r, rq2_wptr)
        /\ rq1_wptr' = wptr /\ rq2_wptr' = rq1_wptr
        /\ rdata' = IF rinc THEN mem[AddrOf(rbin)] ELSE rdata
    BY <1>1 DEF WriteSide, ReadSide
  <1>3. w \in Position
    BY WriteEdge
  <1>4. PICK n \in {0, 1} :
           \A p \in {rq1_wptr, rq2_wptr, rbin, wq1_rptr, wq2_rptr} :
              p \in Position /\ Ahead(w, p) = Ahead(wbin, p) + n /\ Ahead(w, p) <= Depth
    BY WriteEdge
  <1>5. /\ r \in Position
        /\ \/ r = rbin
           \/ /\ Ahead(wbin, r) = Ahead(wbin, rbin) - 1
              /\ Ahead(wbin, rq2_wptr) <= Ahead(wbin, r)
    BY ReadEdge
  <1>6. \A p, q \in Position : Ahead(p, q) \in Nat /\ Ahead(p, p) = 0
    BY FlagTests
  <1>7. w = wbin \/ w = Plus(wbin, 1)
    BY DEF WbinNext
  <1>8. Ahead(w, r) = Ahead(wbin, r) + n
    <2>1. CASE r = rbin
      BY <1>4, <2>1
    <2>2. CASE r # rbin
      <3>1. /\ Ahead(wbin, rbin) = Ahead(wbin, r) + 1
            /\ Ahead(wbin, rbin) <= Depth
        BY <1>4, <1>5, <1>6, <2>2, DepthAssumption DEF IInv, TypeOK, PointersOrdered
      <3>2. Ahead(w, rbin) = Ahead(wbin, rbin) + n
        BY <1>4
      <3> QED BY <1>3, <1>5, <1>7, <3>1, <3>2, DepthAssumption
              DEF IInv, TypeOK, Position, Ahead, Plus
    <2> QED BY <2>1, <2>2
  <1>9. Ahead(w, wbin) = n
    <2>1. Ahead(w, rbin) = Ahead(wbin, rbin) + n
      BY <1>4
    <2> QED BY <1>3, <1>7, <2>1, DepthAssumption
            DEF IInv, TypeOK, Position, Ahead, Plus
  <1> HIDE DEF w, r
  <1>10. TypeOK'
    <2>1. mem' \in [Addr -> Data] /\ rdata' \in Data
      BY <1>2, RingTypes DEF IInv, TypeOK
    <2>2. wfull' \in BOOLEAN /\ rempty' \in BOOLEAN
      BY <1>2 DEF FullVal, EmptyVal
    <2> QED BY <1>2, <1>3, <1>5, <2>1, <2>2 DEF IInv, TypeOK
  <1>11. PointersOrdered'
    BY <1>2, <1>3, <1>4, <1>5, <1>6, <1>8, <1>9 DEF IInv, TypeOK, PointersOrdered
  <1>12. ~wfull' => Ahead(wbin', wq2_rptr') < Depth
    <2>1. Ahead(w, wq1_rptr) <= Ahead(w, wq2_rptr) /\ Ahead(w, wq2_rptr) <= Depth
      BY <1>4, <1>6 DEF IInv, TypeOK, PointersOrdered
    <2>2. FullVal(w, wq2_rptr) <=> Ahead(w, wq2_rptr) = Depth
      BY <1>3, <1>4, FlagTests
    <2> QED BY <1>2, <1>3, <1>4, <1>6, <2>1, <2>2, DepthAssumption
  <1>13. ~rempty' => Ahead(wbin', rq2_wptr') < Ahead(wbin', rbin')
    <2>1. /\ Ahead(wbin, rq1_wptr) <= Ahead(wbin, rq2_wptr)
          /\ Ahead(wbin, rq2_wptr) <= Ahead(wbin, r)
          /\ Ahead(w, rq1_wptr) = Ahead(wbin, rq1_wptr) + n
      BY <1>4, <1>5, <1>6 DEF IInv, TypeOK, PointersOrdered
    <2>2. EmptyVal(r, rq2_wptr) <=> Ahead(wbin, r) = Ahead(wbin, rq2_wptr)
      BY <1>5, FlagTests DEF IInv, TypeOK
    <2>3. /\ Ahead(wbin, r) \in Nat /\ Ahead(wbin, rq1_wptr) \in Nat
          /\ Ahead(wbin, rq2_wptr) \in Nat
      BY <1>5, <1>6 DEF IInv, TypeOK
    <2> QED BY <1>2, <1>8, <2>1, <2>2, <2>3
  <1> QED BY <1>10, <1>11, <1>12, <1>13 DEF IInv

-----------------------------------------------------------------------------
(* The pointer order and the two flags' correctness for the synchronised   *)
(* pointers (wptr_full and rptr_empty) hold in every reachable state.      *)
THEOREM FifoInvariant == Spec => []IInv
  <1>0. 0 \in Position /\ Ahead(0, 0) = 0
    BY DepthAssumption DEF Position, Ahead
  <1>1. Init => IInv
    <2> SUFFICES ASSUME Init PROVE IInv
      OBVIOUS
    <2>1. TypeOK
      BY <1>0 DEF Init, TypeOK
    <2>2. PointersOrdered
      BY <1>0, DepthAssumption DEF Init, PointersOrdered
    <2> QED BY <1>0, <2>1, <2>2, DepthAssumption DEF Init, IInv
  <1>2. IInv /\ [Next]_vars => IInv'
    <2> SUFFICES ASSUME IInv, [Next]_vars PROVE IInv'
      OBVIOUS
    <2>1. CASE \E winc \in BOOLEAN, wdata \in Data : WClk(winc, wdata)
      BY <2>1, WClkInv
    <2>2. CASE \E rinc \in BOOLEAN : RClk(rinc)
      BY <2>2, RClkInv
    <2>3. CASE \E winc, rinc \in BOOLEAN, wdata \in Data : BothClk(winc, wdata, rinc)
      BY <2>3, BothClkInv
    <2>4. CASE Reset
      <3>1. TypeOK'
        BY <1>0, <2>4 DEF Reset, IInv, TypeOK
      <3>2. PointersOrdered'
        BY <1>0, <2>4, DepthAssumption DEF Reset, PointersOrdered
      <3> QED BY <1>0, <2>4, <3>1, <3>2, DepthAssumption DEF Reset, IInv
    <2>5. CASE UNCHANGED vars
      BY <2>5 DEF vars, IInv, TypeOK, PointersOrdered
    <2> QED BY <2>1, <2>2, <2>3, <2>4, <2>5 DEF Next
  <1> QED BY <1>1, <1>2, PTL DEF Spec

(* Whatever the two clocks do, a low wfull means there is room and a low   *)
(* rempty means there is a byte (wptr_full.v, rptr_empty.v).               *)
THEOREM FlagsSafe == Spec => []FlagsAreConservative
  <1>1. IInv => FlagsAreConservative
    BY FlagTests, DepthAssumption
    DEF IInv, TypeOK, PointersOrdered, FlagsAreConservative
  <1> QED BY <1>1, FifoInvariant, PTL

-----------------------------------------------------------------------------
(* The refinement: the cells between the pointers are the abstract queue. *)

(* The contents are a sequence of bytes as long as the pointers are apart. *)
LEMMA ContentsType ==
    ASSUME NEW m \in [Addr -> Data], NEW w \in Position, NEW r \in Position,
           Ahead(w, r) <= Depth
    PROVE  /\ ContentsOf(m, w, r) \in Seq(Data)
           /\ Len(ContentsOf(m, w, r)) = Ahead(w, r)
           /\ \A i \in 1 .. Ahead(w, r) :
                 /\ Plus(r, i - 1) \in Position
                 /\ ContentsOf(m, w, r)[i] = m[AddrOf(Plus(r, i - 1))]
           /\ Ahead(w, r) \in Nat
  <1> DEFINE n == Ahead(w, r)
  <1>1. n \in 0 .. Depth
    BY FlagTests, DepthAssumption
  <1>2. ASSUME NEW i \in 1 .. n
        PROVE  Plus(r, i - 1) \in Position /\ m[AddrOf(Plus(r, i - 1))] \in Data
    <2>1. Plus(r, i - 1) \in Position
      BY <1>1, DepthAssumption DEF Position, Plus
    <2> QED BY <2>1, RingTypes
  <1>3. ContentsOf(m, w, r) \in [1 .. n -> Data] /\ n \in Nat
    BY <1>1, <1>2 DEF ContentsOf
  <1> HIDE DEF n
  <1>4. ContentsOf(m, w, r) \in Seq(Data) /\ Len(ContentsOf(m, w, r)) = n
    BY <1>3
  <1> QED BY <1>1, <1>2, <1>4 DEF ContentsOf, n

(* Counting from the read pointer ends at the write pointer, and the cells *)
(* counted before that differ from the writer's while there is room.       *)
LEMMA CellsDiffer ==
    ASSUME NEW w \in Position, NEW r \in Position, Ahead(w, r) < Depth
    PROVE  /\ Plus(r, Ahead(w, r)) = w
           /\ \A k \in 0 .. Ahead(w, r) - 1 : AddrOf(Plus(r, k)) # AddrOf(w)
  <1>1. Plus(r, Ahead(w, r)) = w
    BY DepthAssumption DEF Position, Plus, Ahead
  <1>2. ASSUME NEW k \in 0 .. Ahead(w, r) - 1
        PROVE  AddrOf(Plus(r, k)) # AddrOf(w)
    <2>1. CASE w >= r
      BY <2>1, DepthAssumption DEF Position, Plus, Ahead, AddrOf
    <2>2. CASE w < r
      BY <2>2, DepthAssumption DEF Position, Plus, Ahead, AddrOf
    <2> QED BY <2>1, <2>2 DEF Position
  <1> QED BY <1>1, <1>2

(* A byte written at the write pointer is appended: its cell is none of    *)
(* the cells between the pointers.                                         *)
LEMMA ContentsPush ==
    ASSUME NEW m \in [Addr -> Data], NEW w \in Position, NEW r \in Position,
           Ahead(w, r) < Depth, NEW v \in Data
    PROVE  ContentsOf([m EXCEPT ![AddrOf(w)] = v], Plus(w, 1), r)
             = Append(ContentsOf(m, w, r), v)
  <1> DEFINE n  == Ahead(w, r)
             m2 == [m EXCEPT ![AddrOf(w)] = v]
             w2 == Plus(w, 1)
             s  == ContentsOf(m, w, r)
             t  == ContentsOf(m2, w2, r)
  <1>1. n \in Nat /\ n < Depth /\ Depth \in Nat
    BY FlagTests, DepthAssumption
  <1>2. m2 \in [Addr -> Data] /\ w2 \in Position /\ Ahead(w2, r) = n + 1
    BY <1>1, RingTypes, WriterMoves
  <1>3. /\ s \in Seq(Data) /\ Len(s) = n
        /\ \A i \in 1 .. n : s[i] = m[AddrOf(Plus(r, i - 1))]
        /\ \A i \in 1 .. n : Plus(r, i - 1) \in Position
    BY <1>1, ContentsType
  <1>4. /\ t \in Seq(Data) /\ Len(t) = n + 1
        /\ \A i \in 1 .. n + 1 : t[i] = m2[AddrOf(Plus(r, i - 1))]
    <2>1. Ahead(w2, r) <= Depth
      BY <1>1, <1>2
    <2> HIDE DEF m2, w2, n
    <2> QED BY <1>2, <2>1, ContentsType
  <1>5. Plus(r, n) = w
    BY CellsDiffer
  <1>6. \A k \in 0 .. n - 1 : AddrOf(Plus(r, k)) # AddrOf(w)
    BY CellsDiffer
  <1>a. \A a \in Addr : m2[a] = IF a = AddrOf(w) THEN v ELSE m[a]
    OBVIOUS
  <1>b. \A p \in Position : AddrOf(p) \in Addr
    BY RingTypes
  <1> HIDE DEF n, s, t, m2, w2
  <1>7. \A i \in 1 .. n + 1 : t[i] = IF i = n + 1 THEN v ELSE s[i]
    <2>1. t[n + 1] = v
      <3>1. t[n + 1] = m2[AddrOf(Plus(r, (n + 1) - 1))]
        BY <1>1, <1>4
      <3>2. (n + 1) - 1 = n
        BY <1>1
      <3> QED BY <1>5, <1>a, <1>b, <3>1, <3>2
    <2>2. ASSUME NEW i \in 1 .. n PROVE t[i] = s[i]
      <3>1. t[i] = m2[AddrOf(Plus(r, i - 1))] /\ s[i] = m[AddrOf(Plus(r, i - 1))]
        BY <1>1, <1>3, <1>4
      <3>2. i - 1 \in 0 .. n - 1
        BY <1>1
      <3>3. AddrOf(Plus(r, i - 1)) # AddrOf(w) /\ AddrOf(Plus(r, i - 1)) \in Addr
        BY <1>3, <1>6, <1>b, <3>2
      <3> QED BY <1>a, <3>1, <3>3
    <2> QED BY <1>1, <2>1, <2>2
  <1>8. /\ Append(s, v) \in Seq(Data) /\ Len(Append(s, v)) = n + 1
        /\ \A i \in 1 .. n + 1 : Append(s, v)[i] = IF i = n + 1 THEN v ELSE s[i]
    BY <1>1, <1>3
  <1>9. t = Append(s, v)
    BY <1>4, <1>7, <1>8, SeqEqual
  <1> QED BY <1>9 DEF s, t, m2, w2

(* A read takes the oldest byte. *)
LEMMA ContentsPop ==
    ASSUME NEW m \in [Addr -> Data], NEW w \in Position, NEW r \in Position,
           Ahead(w, r) > 0, Ahead(w, r) <= Depth
    PROVE  /\ ContentsOf(m, w, r) # << >>
           /\ Head(ContentsOf(m, w, r)) = m[AddrOf(r)]
           /\ Tail(ContentsOf(m, w, r)) = ContentsOf(m, w, Plus(r, 1))
  <1> DEFINE n == Ahead(w, r)
             s == ContentsOf(m, w, r)
             t == ContentsOf(m, w, Plus(r, 1))
  <1>1. n \in Nat /\ n > 0 /\ n <= Depth /\ Depth \in Nat
    BY FlagTests, DepthAssumption
  <1>2. Plus(r, 1) \in Position /\ Ahead(w, Plus(r, 1)) = n - 1
    BY RingTypes, ReaderMoves
  <1>3. /\ s \in Seq(Data) /\ Len(s) = n
        /\ \A i \in 1 .. n : s[i] = m[AddrOf(Plus(r, i - 1))]
    BY <1>1, ContentsType
  <1>4. /\ t \in Seq(Data) /\ Len(t) = n - 1
        /\ \A i \in 1 .. n - 1 : t[i] = m[AddrOf(Plus(Plus(r, 1), i - 1))]
    BY <1>1, <1>2, ContentsType
  <1>5. \A i \in 1 .. n - 1 : Plus(Plus(r, 1), i - 1) = Plus(r, (i + 1) - 1)
    BY <1>1, DepthAssumption DEF Position, Plus
  <1>6. Plus(r, 1 - 1) = r
    BY DepthAssumption DEF Position, Plus
  <1>7. s[1] = m[AddrOf(r)] /\ \A i \in 1 .. n - 1 : t[i] = s[i + 1]
    BY <1>1, <1>3, <1>4, <1>5, <1>6
  <1> HIDE DEF n, s, t
  <1>8. s # << >> /\ Head(s) = s[1]
    BY <1>1, <1>3
  <1>9. /\ Tail(s) \in Seq(Data) /\ Len(Tail(s)) = n - 1
        /\ \A i \in 1 .. n - 1 : Tail(s)[i] = s[i + 1]
    BY <1>1, <1>3, <1>8, HeadTailProperties
  <1>10. Tail(s) = t
    BY <1>4, <1>7, <1>9, SeqEqual
  <1> QED BY <1>7, <1>8, <1>10 DEF s, t

-----------------------------------------------------------------------------
(* One edge, or two at once, is a step of the bounded queue.  pushed and   *)
(* popped say which sides accepted.                                        *)
LEMMA StepRefines ==
    ASSUME IInv, NEW wdata \in Data, NEW winc \in BOOLEAN, NEW rinc \in BOOLEAN,
           wbin' = WbinNext(winc), rbin' = RbinNext(rinc),
           mem' = IF winc /\ ~wfull THEN [mem EXCEPT ![AddrOf(wbin)] = wdata] ELSE mem,
           rdata' = IF rinc THEN mem[AddrOf(rbin)] ELSE rdata
    PROVE  [Queue!Next]_(Queue!vars)
  <1> DEFINE n  == Ahead(wbin, rbin)
             r2 == Plus(rbin, 1)
             m2 == [mem EXCEPT ![AddrOf(wbin)] = wdata]
  <1>1. /\ mem \in [Addr -> Data] /\ wbin \in Position /\ rbin \in Position
        /\ wfull \in BOOLEAN /\ rempty \in BOOLEAN
    BY DEF IInv, TypeOK
  <1>2. n \in Nat /\ n <= Depth /\ (~wfull => n < Depth) /\ (~rempty => n > 0)
    BY <1>1, FlagTests, DepthAssumption DEF IInv, TypeOK, PointersOrdered
  <1>3. Contents = ContentsOf(mem, wbin, rbin) /\ Len(Contents) = n
    BY <1>1, <1>2, ContentsType DEF Contents
  <1>4. ~rempty => /\ Contents # << >>
                   /\ Head(Contents) = mem[AddrOf(rbin)]
                   /\ Tail(Contents) = ContentsOf(mem, wbin, r2)
                   /\ r2 \in Position
                   /\ Ahead(wbin, r2) < Depth
    <2> SUFFICES ASSUME ~rempty
                 PROVE  /\ Contents # << >>
                        /\ Head(Contents) = mem[AddrOf(rbin)]
                        /\ Tail(Contents) = ContentsOf(mem, wbin, r2)
                        /\ r2 \in Position
                        /\ Ahead(wbin, r2) < Depth
      OBVIOUS
    <2>1. r2 \in Position /\ Ahead(wbin, r2) = n - 1
      BY <1>1, <1>2, RingTypes, ReaderMoves
    <2> QED BY <1>1, <1>2, <1>3, <2>1, ContentsPop, DepthAssumption
  <1>5. ~wfull => ContentsOf(m2, Plus(wbin, 1), rbin) = Append(Contents, wdata)
    BY <1>1, <1>2, <1>3, ContentsPush
  <1>6. ~wfull /\ ~rempty => ContentsOf(m2, Plus(wbin, 1), r2) = Append(Tail(Contents), wdata)
    <2> HIDE DEF r2
    <2>1. ASSUME ~rempty
          PROVE  ContentsOf(m2, Plus(wbin, 1), r2) = Append(ContentsOf(mem, wbin, r2), wdata)
      BY <1>1, <1>4, <2>1, ContentsPush
    <2> QED BY <1>4, <2>1
  <1>7. mem[AddrOf(rbin)] \in Data
    BY <1>1, RingTypes
  <1>8. Contents' = ContentsOf(mem', wbin', rbin')
    BY DEF Contents
  <1> HIDE DEF m2, r2, n
  <1>9. CASE winc /\ ~wfull
    <2>1. mem' = m2 /\ wbin' = Plus(wbin, 1) /\ Len(Contents) < Depth
      BY <1>2, <1>3, <1>9 DEF WbinNext, m2
    <2>2. CASE rinc /\ ~rempty
      <3>1. rbin' = r2 /\ rdata' = Head(Contents)
        BY <1>4, <2>2 DEF RbinNext, r2
      <3>2. Queue!PutTake(wdata)
        BY <1>4, <1>6, <1>8, <1>9, <2>1, <2>2, <3>1 DEF Queue!PutTake
      <3> QED BY <3>2 DEF Queue!Next
    <2>3. CASE rinc /\ rempty
      <3>1. rbin' = rbin /\ rdata' \in Data
        BY <1>7, <2>3 DEF RbinNext
      <3>2. Queue!PutReject(wdata)
        BY <1>5, <1>8, <1>9, <2>1, <3>1 DEF Queue!PutReject
      <3> QED BY <3>2 DEF Queue!Next
    <2>4. CASE ~rinc
      <3>1. rbin' = rbin /\ rdata' = rdata
        BY <2>4 DEF RbinNext
      <3>2. Queue!Put(wdata)
        BY <1>5, <1>8, <1>9, <2>1, <3>1 DEF Queue!Put
      <3> QED BY <3>2 DEF Queue!Next
    <2> QED BY <1>1, <2>2, <2>3, <2>4
  <1>10. CASE ~(winc /\ ~wfull)
    <2>1. mem' = mem /\ wbin' = wbin
      BY <1>10 DEF WbinNext
    <2>2. CASE rinc /\ ~rempty
      <3>1. rbin' = r2 /\ rdata' = Head(Contents)
        BY <1>4, <2>2 DEF RbinNext, r2
      <3>2. Queue!Take
        BY <1>4, <1>8, <2>1, <2>2, <3>1 DEF Queue!Take
      <3> QED BY <3>2 DEF Queue!Next
    <2>3. CASE rinc /\ rempty
      <3>1. rbin' = rbin /\ rdata' \in Data
        BY <1>7, <2>3 DEF RbinNext
      <3>2. Queue!Reject
        BY <1>3, <1>8, <2>1, <3>1 DEF Queue!Reject
      <3> QED BY <3>2 DEF Queue!Next
    <2>4. CASE ~rinc
      <3>1. rbin' = rbin /\ rdata' = rdata
        BY <2>4 DEF RbinNext
      <3> QED BY <1>3, <1>8, <2>1, <3>1 DEF Queue!vars
    <2> QED BY <1>1, <2>2, <2>3, <2>4
  <1> QED BY <1>9, <1>10

(* The FIFO implements the bounded queue: no byte is lost, duplicated,     *)
(* reordered or invented between an accepted write and an accepted read,   *)
(* for every memory size, data set and relation of the two clocks.         *)
THEOREM FifoImplementsQueue == Spec => ImplementsQueue
  <1>0. 0 \in Position /\ Ahead(0, 0) = 0
    BY DepthAssumption DEF Position, Ahead
  <1>1. Init => Queue!Init
    <2> SUFFICES ASSUME Init PROVE Queue!Init
      OBVIOUS
    <2>1. Contents = << >>
      <3>1. Contents \in Seq(Data) /\ Len(Contents) = 0
        BY <1>0, ContentsType, DepthAssumption DEF Init, Contents
      <3> QED BY <3>1, EmptySeq
    <2> QED BY <2>1 DEF Init, Queue!Init
  <1>2. IInv /\ [Next]_vars => [Queue!Next]_(Queue!vars)
    <2> SUFFICES ASSUME IInv, [Next]_vars PROVE [Queue!Next]_(Queue!vars)
      OBVIOUS
    <2>1. ASSUME NEW winc \in BOOLEAN, NEW wdata \in Data, WClk(winc, wdata)
          PROVE  [Queue!Next]_(Queue!vars)
      <3>1. rbin' = RbinNext(FALSE) /\ rdata' = rdata
        BY <2>1 DEF WClk, rvars, RbinNext
      <3> QED BY <2>1, <3>1, StepRefines DEF WClk, WriteSide
    <2>2. ASSUME NEW rinc \in BOOLEAN, RClk(rinc)
          PROVE  [Queue!Next]_(Queue!vars)
      <3>1. wbin' = WbinNext(FALSE) /\ mem' = mem
        BY <2>2 DEF RClk, wvars, WbinNext
      <3>2. PICK wdata \in Data : TRUE
        BY DataAssumption
      <3> QED BY <2>2, <3>1, <3>2, StepRefines DEF RClk, ReadSide
    <2>3. ASSUME NEW winc \in BOOLEAN, NEW rinc \in BOOLEAN, NEW wdata \in Data,
                 BothClk(winc, wdata, rinc)
          PROVE  [Queue!Next]_(Queue!vars)
      BY <2>3, StepRefines DEF BothClk, WriteSide, ReadSide
    <2>4. CASE Reset
      <3>1. Contents' = ContentsOf(mem, 0, 0) /\ rdata' = rdata
        BY <2>4 DEF Reset, Contents
      <3>2. Contents' \in Seq(Data) /\ Len(Contents') = 0
        BY <1>0, <3>1, ContentsType, DepthAssumption DEF IInv, TypeOK
      <3>3. Contents' = << >>
        BY <3>2, EmptySeq
      <3> QED BY <3>1, <3>3 DEF Queue!Next, Queue!Flush
    <2>5. CASE UNCHANGED vars
      BY <2>5 DEF vars, Contents, Queue!vars
    <2> QED BY <2>1, <2>2, <2>3, <2>4, <2>5 DEF Next
  <1> QED BY <1>1, <1>2, FifoInvariant, PTL DEF Spec, ImplementsQueue, Queue!Spec
-----------------------------------------------------------------------------
(* What a user of the FIFO can say of it: that it holds a piece of a       *)
(* stream, which goes in at one end and comes out at the other.            *)

(* The cells between the pointers hold stream s from its element k + 1 on. *)
Stored(m, w, r, s, k) ==
    \A j \in 0 .. Ahead(w, r) - 1 : m[AddrOf(Plus(r, j))] = s[k + j + 1]

(* What the users of both sides do in one instant, each or both. *)
Step(winc, wdata, rinc) ==
    /\ wbin' = WbinNext(winc) /\ rbin' = RbinNext(rinc)
    /\ mem' = IF winc /\ ~wfull THEN [mem EXCEPT ![AddrOf(wbin)] = wdata] ELSE mem
    /\ rdata' = IF rinc THEN mem[AddrOf(rbin)] ELSE rdata

(* The next element of the stream may be written. *)
LEMMA StoredPush ==
    ASSUME NEW m \in [Addr -> Data], NEW w \in Position, NEW r \in Position,
           Ahead(w, r) < Depth, NEW s, NEW k \in Nat, Stored(m, w, r, s, k),
           NEW v \in Data, v = s[k + Ahead(w, r) + 1]
    PROVE  Stored([m EXCEPT ![AddrOf(w)] = v], Plus(w, 1), r, s, k)
  <1> DEFINE n  == Ahead(w, r)
             m2 == [m EXCEPT ![AddrOf(w)] = v]
  <1>1. n \in Nat /\ n < Depth /\ Depth \in Nat
    BY FlagTests, DepthAssumption
  <1>2. Ahead(Plus(w, 1), r) = n + 1
    BY <1>1, WriterMoves
  <1>3. Plus(r, n) = w /\ \A j \in 0 .. n - 1 : AddrOf(Plus(r, j)) # AddrOf(w)
    BY CellsDiffer
  <1>4. \A a \in Addr : m2[a] = IF a = AddrOf(w) THEN v ELSE m[a]
    OBVIOUS
  <1>5. \A p \in Position : AddrOf(p) \in Addr
    BY RingTypes
  <1>6. \A j \in 0 .. n : Plus(r, j) \in Position
    BY <1>1, DepthAssumption DEF Position, Plus
  <1>7. \A j \in 0 .. n - 1 : m[AddrOf(Plus(r, j))] = s[k + j + 1]
    BY DEF Stored
  <1>8. v = s[k + n + 1]
    OBVIOUS
  <1> HIDE DEF n, m2
  <1>9. ASSUME NEW j \in 0 .. n PROVE m2[AddrOf(Plus(r, j))] = s[k + j + 1]
    <2>1. CASE j = n
      BY <1>3, <1>4, <1>5, <1>8, <2>1
    <2>2. CASE j # n
      <3>1. j \in 0 .. n - 1
        BY <1>1, <2>2
      <3>2. AddrOf(Plus(r, j)) # AddrOf(w) /\ AddrOf(Plus(r, j)) \in Addr
        BY <1>3, <1>5, <1>6, <3>1
      <3> QED BY <1>4, <1>7, <3>1, <3>2
    <2> QED BY <2>1, <2>2
  <1>10. (n + 1) - 1 = n
    BY <1>1
  <1> QED BY <1>2, <1>9, <1>10 DEF Stored, m2

(* What is read is the oldest element. *)
LEMMA StoredPop ==
    ASSUME NEW m, NEW w \in Position, NEW r \in Position,
           Ahead(w, r) > 0, Ahead(w, r) <= Depth,
           NEW s, NEW k \in Nat, Stored(m, w, r, s, k)
    PROVE  m[AddrOf(r)] = s[k + 1] /\ Stored(m, w, Plus(r, 1), s, k + 1)
  <1> DEFINE n == Ahead(w, r)
  <1>1. n \in Nat /\ n > 0 /\ n <= Depth /\ Depth \in Nat
    BY FlagTests, DepthAssumption
  <1>2. Ahead(w, Plus(r, 1)) = n - 1
    BY ReaderMoves
  <1>3. Plus(r, 0) = r
    BY DepthAssumption DEF Position, Plus
  <1>4. \A j \in 0 .. n - 2 : Plus(Plus(r, 1), j) = Plus(r, j + 1)
    BY <1>1, DepthAssumption DEF Position, Plus
  <1>5. \A j \in 0 .. n - 1 : m[AddrOf(Plus(r, j))] = s[k + j + 1]
    BY DEF Stored
  <1> HIDE DEF n
  <1>6. m[AddrOf(r)] = s[k + 1]
    <2>1. 0 \in 0 .. n - 1 /\ k + 0 + 1 = k + 1
      BY <1>1
    <2> QED BY <1>3, <1>5, <2>1
  <1>7. ASSUME NEW j \in 0 .. (n - 1) - 1
        PROVE  m[AddrOf(Plus(Plus(r, 1), j))] = s[(k + 1) + j + 1]
    <2>1. j \in 0 .. n - 2 /\ j + 1 \in 0 .. n - 1 /\ k + (j + 1) + 1 = (k + 1) + j + 1
      BY <1>1
    <2> QED BY <1>4, <1>5, <2>1
  <1> QED BY <1>2, <1>6, <1>7 DEF Stored

(* A step with whatever both sides ask for: how many elements are stored   *)
(* then, which, and that what is taken is the oldest.                      *)
LEMMA StepStored ==
    ASSUME IInv, NEW wdata \in Data, NEW winc \in BOOLEAN, NEW rinc \in BOOLEAN,
           Step(winc, wdata, rinc),
           NEW s, NEW k \in Nat, Stored(mem, wbin, rbin, s, k),
           winc /\ ~wfull => wdata = s[k + Ahead(wbin, rbin) + 1]
    PROVE  LET pushed == IF winc /\ ~wfull  THEN 1 ELSE 0
               popped == IF rinc /\ ~rempty THEN 1 ELSE 0
           IN  /\ Ahead(wbin', rbin') = Ahead(wbin, rbin) + pushed - popped
               /\ popped = 1 => Ahead(wbin, rbin) > 0 /\ rdata' = s[k + 1]
               /\ Stored(mem', wbin', rbin', s, k + popped)
  <1> DEFINE n == Ahead(wbin, rbin)
  <1>1. /\ mem \in [Addr -> Data] /\ wbin \in Position /\ rbin \in Position
        /\ wfull \in BOOLEAN /\ rempty \in BOOLEAN
    BY DEF IInv, TypeOK
  <1>2. n \in Nat /\ n <= Depth /\ (~wfull => n < Depth) /\ (~rempty => n > 0)
    BY <1>1, FlagTests, DepthAssumption DEF IInv, TypeOK, PointersOrdered
  <1>3. CASE rinc /\ ~rempty
    <2> DEFINE r2 == Plus(rbin, 1)
    <2>1. /\ r2 \in Position /\ Ahead(wbin, r2) = n - 1
          /\ mem[AddrOf(rbin)] = s[k + 1] /\ Stored(mem, wbin, r2, s, k + 1)
      BY <1>1, <1>2, <1>3, RingTypes, ReaderMoves, StoredPop
    <2>2. rbin' = r2 /\ rdata' = s[k + 1]
      BY <1>3, <2>1 DEF Step, RbinNext
    <2> HIDE DEF r2
    <2>3. CASE winc /\ ~wfull
      <3>1. wdata = s[(k + 1) + Ahead(wbin, r2) + 1] /\ Ahead(wbin, r2) < Depth
        <4>1. (k + 1) + (n - 1) + 1 = k + n + 1 /\ n - 1 < Depth
          BY <1>2, DepthAssumption
        <4> QED BY <2>1, <2>3, <4>1
      <3>2. mem' = [mem EXCEPT ![AddrOf(wbin)] = wdata] /\ wbin' = Plus(wbin, 1)
        BY <2>3 DEF Step, WbinNext
      <3>3. Stored(mem', wbin', r2, s, k + 1)
        <4>1. k + 1 \in Nat
          OBVIOUS
        <4>2. Stored([mem EXCEPT ![AddrOf(wbin)] = wdata], Plus(wbin, 1), r2, s, k + 1)
          BY <1>1, <2>1, <3>1, <4>1, StoredPush
        <4> QED BY <3>2, <4>2
      <3>4. Ahead(wbin', r2) = Ahead(wbin, r2) + 1
        <4>1. Ahead(wbin, r2) <= Depth - 1
          BY <1>2, <2>1, DepthAssumption
        <4> QED BY <1>1, <2>1, <3>2, <4>1, WriterMoves
      <3>5. Ahead(wbin', r2) = n + 1 - 1
        BY <1>2, <2>1, <3>4
      <3> QED BY <1>2, <1>3, <2>2, <2>3, <3>3, <3>5
    <2>4. CASE ~(winc /\ ~wfull)
      <3>1. mem' = mem /\ wbin' = wbin
        BY <2>4 DEF Step, WbinNext
      <3>2. n - 1 = n + 0 - 1
        BY <1>2
      <3> QED BY <1>2, <1>3, <2>1, <2>2, <2>4, <3>1, <3>2
    <2> QED BY <2>3, <2>4
  <1>4. CASE ~(rinc /\ ~rempty)
    <2>1. rbin' = rbin /\ k + 0 = k
      BY <1>4 DEF Step, RbinNext
    <2>2. CASE winc /\ ~wfull
      <3>1. mem' = [mem EXCEPT ![AddrOf(wbin)] = wdata] /\ wbin' = Plus(wbin, 1)
        BY <2>2 DEF Step, WbinNext
      <3>2. Stored(mem', wbin', rbin, s, k)
        <4>1. Ahead(wbin, rbin) < Depth /\ wdata = s[k + Ahead(wbin, rbin) + 1]
          BY <1>2, <2>2
        <4> QED BY <1>1, <3>1, <4>1, StoredPush
      <3>3. Ahead(wbin', rbin) = n + 1
        <4>1. Ahead(wbin, rbin) <= Depth - 1
          BY <1>2, <2>2, DepthAssumption
        <4>2. Ahead(Plus(wbin, 1), rbin) = Ahead(wbin, rbin) + 1
          BY <1>1, <4>1, WriterMoves
        <4> QED BY <3>1, <4>2
      <3>4. n + 1 = n + 1 - 0
        BY <1>2
      <3> QED BY <1>4, <2>1, <2>2, <3>2, <3>3, <3>4
    <2>3. CASE ~(winc /\ ~wfull)
      <3>1. mem' = mem /\ wbin' = wbin
        BY <2>3 DEF Step, WbinNext
      <3>2. n = n + 0 - 0
        BY <1>2
      <3> QED BY <1>4, <2>1, <2>3, <3>1, <3>2
    <2> QED BY <2>2, <2>3
  <1> QED BY <1>3, <1>4
=============================================================================
