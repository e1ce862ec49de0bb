----------------------------- MODULE UartProofs -----------------------------
(***************************************************************************)
(* One direction of the serial line, for every number of data bits, every  *)
(* rate and every drift that leaves the receiver's samples inside their    *)
(* bits.                                                                   *)
(***************************************************************************)
EXTENDS UartSerial, TLAPS

-----------------------------------------------------------------------------
(* The frame as both ends see it: bit 0 is the start bit, bit DataBits + 1 *)
(* the stop bit.                                                           *)

\* The bit that the transmitter counts.
TxBit == CASE tx.sm = "START" -> 0
           [] tx.sm = "DATA"  -> tx.idx + 1
           [] tx.sm = "STOP"  -> DataBits + 1
           [] OTHER           -> DataBits + 2

\* The bit in whose middle the receiver last was, and the cycles since.
RxBit == CASE rx.sm = "START" -> 0
           [] rx.sm = "DATA"  -> rx.idx
           [] rx.sm = "STOP"  -> DataBits
           [] OTHER           -> DataBits + 1
RxSince == IF rx.sm = "START" THEN rx.cnt - RxMiddle - 1 ELSE rx.cnt

\* The line, a cycle behind the transmitter's state.
Line ==
    /\ tx.sm = "START" => tx.serial = IF tx.cnt = 0 THEN 1 ELSE 0
    /\ tx.sm = "DATA"  => tx.serial = IF tx.cnt > 0 THEN tx.data[tx.idx]
                                     ELSE IF tx.idx = 0 THEN 0 ELSE tx.data[tx.idx - 1]
    /\ tx.sm = "STOP"  => tx.serial = IF tx.cnt = 0 THEN tx.data[DataBits - 1] ELSE 1
    /\ tx.sm \in {"CLEANUP", "IDLE"} => tx.serial = 1

TxOK == /\ Line
        /\ tx.active <=> tx.sm \in {"START", "DATA", "STOP"}
        /\ polled => tx.sm = "IDLE"
        /\ tx.sm = "START" => tx.idx = 0
        /\ tx.sm = "CLEANUP" => tx.cnt = 0

\* The cycles that the receiver had in this frame before it saw the start bit are few: that is
\* what the two ends have counted since the frame began, one less the other, without the drift.
Apart(n, tc, rs, s) == n * Clks + tc - rs - RxMiddle - 2 - s \in -MaxSlip .. MaxSlip + 1

\* The transmitter is n bits further than the receiver.
Further(n) == TxBit = RxBit + n /\ Apart(n, tx.cnt, RxSince, slip)

\* A cycle more (d = 1) or none leaves a count c in its bit (j = 0) or, after the last cycle of
\* the bit, takes it to the next.
Counted(j, c1, c, d) == \/ j = 0 /\ c1 = c + d
                        \/ j = 1 /\ c1 = 0 /\ c = Clks - 1 /\ d = 1

\* Nobody sends, and nothing is on its way.
Quiet == tx.sm = "IDLE" /\ rx.sm = "IDLE" /\ pending = << >>

\* The start bit is on its way.
Waiting == /\ tx.sm = "START" /\ rx.sm = "IDLE" /\ pending = <<tx.data>>
           /\ tx.cnt - slip \in -MaxSlip .. MaxSlip + 1

\* The receiver counts, at most two bits behind, and has the bits that it has passed.
Receiving ==
    /\ rx.sm \in {"START", "DATA", "STOP"} /\ tx.sm # "IDLE" /\ pending = <<tx.data>>
    /\ \E n \in 0 .. 2 : Further(n)
    /\ \A i \in 0 .. DataBits - 1 : i < RxBit => rx.byte[i] = tx.data[i]

\* The byte is out.  The transmitter may be done before the receiver only with all of the drift
\* on its side.
Delivered ==
    /\ rx.sm = "CLEANUP" /\ pending = << >>
    /\ \/ tx.sm = "IDLE" /\ slip = MaxSlip
       \/ tx.sm \in {"STOP", "CLEANUP"} /\ \E n \in 0 .. 1 : Further(n)

\* The receiver is ready for the next frame before the transmitter is.
Over == /\ rx.sm = "IDLE" /\ tx.sm \in {"STOP", "CLEANUP"} /\ pending = << >>
        /\ tx.sm = "STOP" => tx.cnt > 0

TxTyped ==
    /\ DOMAIN tx = {"sm", "cnt", "idx", "data", "active", "serial"}
    /\ tx.sm \in States /\ tx.cnt \in 0 .. Clks - 1 /\ tx.idx \in 0 .. DataBits - 1
    /\ tx.data \in Byte /\ tx.active \in BOOLEAN /\ tx.serial \in Bit
RxTyped ==
    /\ DOMAIN rx = {"sm", "cnt", "idx", "byte", "dv"}
    /\ rx.sm \in States /\ rx.cnt \in 0 .. Clks - 1 /\ rx.idx \in 0 .. DataBits - 1
    /\ rx.byte \in Byte /\ rx.dv \in BOOLEAN
Typed == TxTyped /\ RxTyped /\ polled \in BOOLEAN /\ slip \in -MaxSlip .. MaxSlip

RxOK == /\ rx.dv <=> rx.sm = "CLEANUP"
        /\ rx.sm = "START" => rx.idx = 0 /\ rx.cnt <= RxMiddle
        /\ rx.sm = "CLEANUP" => rx.cnt = 0

UInv == /\ Typed /\ TxOK /\ RxOK
        /\ Quiet \/ Waiting \/ Receiving \/ Delivered \/ Over

-----------------------------------------------------------------------------
\* What the assumptions say of the receiver's middle: the drift fits before it and after it.
LEMMA Rates ==
  /\ DataBits \in Nat /\ DataBits >= 1 /\ Clks \in Nat /\ Clks >= 2 /\ MaxSlip \in Nat
  /\ RxMiddle \in Nat /\ RxMiddle < Clks
  /\ 2 * MaxSlip <= RxMiddle /\ 2 * MaxSlip + RxMiddle + 2 <= Clks
<1> DEFINE h == Clks \div 2
<1>1. h \in Nat /\ (Clks = 2 * h \/ Clks = 2 * h + 1) /\ 2 * MaxSlip + 1 <= h
  BY UartAssumption, DriftAssumption
<1>2. CASE Clks = 2 * h
  <2>1. RxMiddle = h - 1
    BY <1>1, <1>2 DEF RxMiddle
  <2> QED
    BY <1>1, <1>2, <2>1, UartAssumption
<1>3. CASE Clks = 2 * h + 1
  <2>1. RxMiddle = h
    BY <1>1, <1>3 DEF RxMiddle
  <2> QED
    BY <1>1, <1>3, <2>1, UartAssumption
<1> QED
  BY <1>1, <1>2, <1>3

\* The transmitter's moves: in a frame it goes on by one cycle.
LEMMA TxMoves ==
  ASSUME Typed, TxOK, NEW b \in Byte, NEW op \in {"none", "poll", "write"}, TxCycle(b, op)
  PROVE  /\ TxTyped'
         /\ polled' \in BOOLEAN /\ TxOK'
         /\ tx.sm = "IDLE" =>
               \/ op # "write" /\ tx'.sm = "IDLE"
               \/ op = "write" /\ tx'.sm = "START" /\ tx'.cnt = 0 /\ tx'.data = b
         /\ tx.sm # "IDLE" => op # "write" /\ tx'.data = tx.data
         /\ tx.sm = "CLEANUP" => tx'.sm = "IDLE"
         /\ tx.sm \in {"START", "DATA", "STOP"} =>
               /\ tx'.sm # "IDLE"
               /\ \/ TxBit' = TxBit /\ tx'.cnt = tx.cnt + 1
                  \/ TxBit' = TxBit + 1 /\ tx.cnt = Clks - 1 /\ tx'.cnt = 0
<1> USE DEF Typed, TxOK, States, Line, Bit, TxTyped
<1>0. /\ tx' = TxNext(op = "write", b)
      /\ op = "write" => polled
      /\ op = "poll" => polled' = ~tx.active
      /\ op = "write" => polled' = FALSE
      /\ op = "none" => polled' = polled
  BY DEF TxCycle
<1>a. TxTyped /\ polled' \in BOOLEAN
  BY <1>0
<1>b. tx.sm # "IDLE" => op # "write" /\ (polled' => ~tx.active)
  BY <1>0
<1>1. CASE tx.sm = "IDLE"
  <2>1. tx' = TxIdle(op = "write", b)
    BY <1>0, <1>1 DEF TxNext
  <2>2. CASE op = "write"
    <3>1. tx' = [tx EXCEPT !.serial = 1, !.cnt = 0, !.idx = 0, !.active = TRUE, !.data = b, !.sm = "START"]
      BY <2>1, <2>2 DEF TxIdle
    <3>2. /\ DOMAIN tx' = DOMAIN tx /\ tx'.sm = "START" /\ tx'.cnt = 0 /\ tx'.idx = 0
          /\ tx'.data = b /\ tx'.active = TRUE /\ tx'.serial = 1
      BY <1>a, <3>1
    <3>a. polled' = FALSE
      BY <1>0, <2>2
    <3>3. TxTyped'
      BY <1>a, <3>1, Rates
    <3>4. TxOK'
      BY <3>2, <3>a
    <3> QED
      BY <1>a, <1>1, <2>2, <3>2, <3>3, <3>4
  <2>3. CASE op # "write"
    <3>1. tx' = [tx EXCEPT !.serial = 1, !.cnt = 0, !.idx = 0]
      BY <2>1, <2>3 DEF TxIdle
    <3>2. /\ DOMAIN tx' = DOMAIN tx /\ tx'.sm = tx.sm /\ tx'.cnt = 0 /\ tx'.idx = 0
          /\ tx'.data = tx.data /\ tx'.active = tx.active /\ tx'.serial = 1
      BY <1>a, <3>1
    <3>3. TxTyped' /\ TxOK'
      BY <1>a, <3>2, <1>1, <2>3, Rates
    <3> QED
      BY <3>2, <3>3, <1>a, <1>1, <2>3, Rates
  <2> QED
    BY <2>2, <2>3
<1>2. CASE tx.sm = "START"
  <2>1. tx' = TxStart
    BY <1>0, <1>2 DEF TxNext
  <2>2. CASE tx.cnt = Clks - 1
    <3>1. tx' = [tx EXCEPT !.serial = 0, !.cnt = 0, !.sm = "DATA"]
      BY <2>1, <2>2 DEF TxStart, LastClk
    <3>2. /\ DOMAIN tx' = DOMAIN tx /\ tx'.sm = "DATA" /\ tx'.cnt = 0 /\ tx'.idx = tx.idx
          /\ tx'.data = tx.data /\ tx'.active = tx.active /\ tx'.serial = 0
      BY <1>a, <3>1
    <3>3. TxTyped' /\ TxOK'
      BY <1>a, <3>2, <1>b, <1>2, <2>2, Rates
    <3> QED
      BY <3>2, <3>3, <1>a, <1>b, <1>2, <2>2, Rates DEF TxBit
  <2>3. CASE tx.cnt # Clks - 1
    <3>1. tx' = [tx EXCEPT !.serial = 0, !.cnt = @ + 1]
      BY <2>1, <2>3 DEF TxStart, LastClk, Count
    <3>2. /\ DOMAIN tx' = DOMAIN tx /\ tx'.sm = tx.sm /\ tx'.cnt = tx.cnt + 1 /\ tx'.idx = tx.idx
          /\ tx'.data = tx.data /\ tx'.active = tx.active /\ tx'.serial = 0
      BY <1>a, <3>1
    <3>3. TxTyped' /\ TxOK'
      BY <1>a, <3>2, <1>b, <1>2, <2>3, Rates
    <3> QED
      BY <3>2, <3>3, <1>a, <1>b, <1>2, <2>3, Rates DEF TxBit
  <2> QED
    BY <2>2, <2>3
<1>3. CASE tx.sm = "DATA"
  <2> DEFINE v == tx.data[tx.idx]
  <2>1. tx' = TxData /\ v \in Bit
    BY <1>0, <1>a, <1>3 DEF TxNext, Byte
  <2>2. CASE tx.cnt # Clks - 1
    <3>1. tx' = [tx EXCEPT !.serial = v, !.cnt = @ + 1]
      BY <2>1, <2>2 DEF TxData, LastClk, Count
    <3>2. /\ DOMAIN tx' = DOMAIN tx /\ tx'.sm = tx.sm /\ tx'.cnt = tx.cnt + 1 /\ tx'.idx = tx.idx
          /\ tx'.data = tx.data /\ tx'.active = tx.active /\ tx'.serial = v
      BY <1>a, <3>1
    <3>3. TxTyped' /\ TxOK'
      BY <1>a, <3>2, <1>b, <1>3, <2>1, <2>2, Rates
    <3> QED
      BY <3>2, <3>3, <1>a, <1>b, <1>3, <2>1, <2>2, Rates DEF TxBit
  <2>3. CASE tx.cnt = Clks - 1 /\ tx.idx < DataBits - 1
    <3>1. tx' = [tx EXCEPT !.serial = v, !.cnt = 0, !.idx = @ + 1]
      BY <2>1, <2>3 DEF TxData, LastClk
    <3>2. /\ DOMAIN tx' = DOMAIN tx /\ tx'.sm = tx.sm /\ tx'.cnt = 0 /\ tx'.idx = tx.idx + 1
          /\ tx'.data = tx.data /\ tx'.active = tx.active /\ tx'.serial = v
      BY <1>a, <3>1
    <3>3. TxTyped' /\ TxOK'
      BY <1>a, <3>2, <1>b, <1>3, <2>1, <2>3, Rates
    <3> QED
      BY <3>2, <3>3, <1>a, <1>b, <1>3, <2>1, <2>3, Rates DEF TxBit
  <2>4. CASE tx.cnt = Clks - 1 /\ tx.idx = DataBits - 1
    <3>1. tx' = [tx EXCEPT !.serial = v, !.cnt = 0, !.idx = 0, !.sm = "STOP"]
      BY <2>1, <2>4, Rates DEF TxData, LastClk
    <3>2. /\ DOMAIN tx' = DOMAIN tx /\ tx'.sm = "STOP" /\ tx'.cnt = 0 /\ tx'.idx = 0
          /\ tx'.data = tx.data /\ tx'.active = tx.active /\ tx'.serial = v
      BY <1>a, <3>1
    <3>3. TxTyped' /\ TxOK'
      BY <1>a, <3>2, <1>b, <1>3, <2>1, <2>4, Rates
    <3> QED
      BY <3>2, <3>3, <1>a, <1>b, <1>3, <2>1, <2>4, Rates DEF TxBit
  <2> QED
    BY <1>a, <2>2, <2>3, <2>4, Rates
<1>4. CASE tx.sm = "STOP"
  <2>1. tx' = TxStop
    BY <1>0, <1>4 DEF TxNext
  <2>2. CASE tx.cnt = Clks - 1
    <3>1. tx' = [tx EXCEPT !.serial = 1, !.cnt = 0, !.sm = "CLEANUP", !.active = FALSE]
      BY <2>1, <2>2 DEF TxStop, LastClk
    <3>2. /\ DOMAIN tx' = DOMAIN tx /\ tx'.sm = "CLEANUP" /\ tx'.cnt = 0 /\ tx'.idx = tx.idx
          /\ tx'.data = tx.data /\ tx'.active = FALSE /\ tx'.serial = 1
      BY <1>a, <3>1
    <3>a. polled' = FALSE
      BY <1>a, <1>b, <1>4
    <3>3. TxTyped'
      BY <1>a, <3>1, Rates
    <3>4. TxOK'
      BY <3>2, <3>a
    <3> QED
      BY <1>a, <1>b, <1>4, <2>2, <3>2, <3>3, <3>4, Rates DEF TxBit
  <2>3. CASE tx.cnt # Clks - 1
    <3>1. tx' = [tx EXCEPT !.serial = 1, !.cnt = @ + 1]
      BY <2>1, <2>3 DEF TxStop, LastClk, Count
    <3>2. /\ DOMAIN tx' = DOMAIN tx /\ tx'.sm = tx.sm /\ tx'.cnt = tx.cnt + 1 /\ tx'.idx = tx.idx
          /\ tx'.data = tx.data /\ tx'.active = tx.active /\ tx'.serial = 1
      BY <1>a, <3>1
    <3>3. TxTyped' /\ TxOK'
      BY <1>a, <3>2, <1>b, <1>4, <2>3, Rates
    <3> QED
      BY <3>2, <3>3, <1>a, <1>b, <1>4, <2>3, Rates DEF TxBit
  <2> QED
    BY <2>2, <2>3
<1>5. CASE tx.sm = "CLEANUP"
  <2>1. tx' = [tx EXCEPT !.sm = "IDLE"]
    BY <1>0, <1>5 DEF TxNext
  <2> QED
    BY <1>0, <1>5, <2>1, Rates
<1> QED
  BY <1>a, <1>1, <1>2, <1>3, <1>4, <1>5

\* The receiver's moves: while it counts it goes on by one cycle, and enters the bit it passes.
LEMMA RxMoves ==
  ASSUME Typed, RxOK, NEW reset \in BOOLEAN, RxCycle(reset),
         rx.sm = "START" /\ rx.cnt = RxMiddle => tx.serial = 0
  PROVE  /\ RxTyped' /\ RxOK'
         /\ rx.sm = "IDLE" => \/ tx.serial = 1 /\ rx'.sm = "IDLE"
                              \/ tx.serial = 0 /\ rx'.sm = "START" /\ rx'.cnt = 0
         /\ rx.sm = "CLEANUP" => rx'.sm = "IDLE"
         /\ rx.sm \in {"START", "DATA", "STOP"} =>
               \/ /\ rx'.sm \in {"START", "DATA", "STOP"}
                  /\ RxBit' = RxBit /\ RxSince' = RxSince + 1 /\ rx'.byte = rx.byte
               \/ /\ RxBit' = RxBit + 1 /\ RxSince = Clks - 1 /\ RxSince' = 0
                  /\ \/ /\ rx.sm = "DATA" /\ rx'.sm \in {"DATA", "STOP"}
                        /\ rx'.byte = [rx.byte EXCEPT ![rx.idx] = tx.serial]
                     \/ rx.sm = "STOP" /\ rx'.sm = "CLEANUP" /\ rx'.byte = rx.byte
<1> USE DEF States, RxOK, RxTyped
<1>0. /\ rx' = IF reset THEN RxReset ELSE RxNext(tx.serial)
      /\ reset => rx.sm = "CLEANUP"
  BY DEF RxCycle
<1>a. RxTyped /\ tx.serial \in Bit
  BY DEF Typed, TxTyped
<1>b. rx.sm # "CLEANUP" => rx' = RxNext(tx.serial) /\ ~rx.dv
  BY <1>0
<1>1. CASE rx.sm = "IDLE"
  <2>1. rx' = RxIdle(tx.serial)
    BY <1>b, <1>1 DEF RxNext
  <2>2. CASE tx.serial = 0
    <3>1. rx' = [rx EXCEPT !.dv = FALSE, !.cnt = 0, !.idx = 0, !.sm = "START"]
      BY <2>1, <2>2 DEF RxIdle
    <3>2. /\ DOMAIN rx' = DOMAIN rx /\ rx'.sm = "START" /\ rx'.cnt = 0 /\ rx'.idx = 0
          /\ rx'.byte = rx.byte /\ rx'.dv = FALSE
      BY <1>a, <3>1
    <3>3. RxTyped' /\ RxOK'
      BY <1>a, <3>1, <3>2, Rates
    <3> QED
      BY <1>1, <2>2, <3>2, <3>3
  <2>3. CASE tx.serial = 1
    <3>1. rx' = [rx EXCEPT !.dv = FALSE, !.cnt = 0, !.idx = 0]
      BY <2>1, <2>3 DEF RxIdle
    <3>2. /\ DOMAIN rx' = DOMAIN rx /\ rx'.sm = "IDLE" /\ rx'.cnt = 0 /\ rx'.idx = 0
          /\ rx'.byte = rx.byte /\ rx'.dv = FALSE
      BY <1>a, <1>1, <3>1
    <3>3. RxTyped' /\ RxOK'
      BY <1>a, <3>1, <3>2, Rates
    <3> QED
      BY <1>1, <2>3, <3>2, <3>3
  <2> QED
    BY <1>a, <2>2, <2>3 DEF Bit
<1>2. CASE rx.sm = "START"
  <2>1. rx' = RxStart(tx.serial)
    BY <1>b, <1>2 DEF RxNext
  <2>2. CASE rx.cnt # RxMiddle
    <3>1. rx' = [rx EXCEPT !.cnt = @ + 1]
      BY <2>1, <2>2 DEF RxStart, Count
    <3>2. /\ DOMAIN rx' = DOMAIN rx /\ rx'.sm = "START" /\ rx'.cnt = rx.cnt + 1 /\ rx'.idx = rx.idx
          /\ rx'.byte = rx.byte /\ rx'.dv = rx.dv
      BY <1>a, <1>2, <3>1
    <3>3. RxTyped' /\ RxOK'
      BY <1>a, <1>2, <2>2, <3>2, Rates
    <3> QED
      BY <1>a, <1>2, <3>2, <3>3, Rates DEF RxBit, RxSince
  <2>3. CASE rx.cnt = RxMiddle
    <3>1. rx' = [rx EXCEPT !.cnt = 0, !.sm = "DATA"]
      BY <1>2, <2>1, <2>3 DEF RxStart
    <3>2. /\ DOMAIN rx' = DOMAIN rx /\ rx'.sm = "DATA" /\ rx'.cnt = 0 /\ rx'.idx = 0
          /\ rx'.byte = rx.byte /\ rx'.dv = rx.dv
      BY <1>a, <1>2, <3>1
    <3>3. RxTyped' /\ RxOK'
      BY <1>a, <1>2, <3>2, Rates
    <3> QED
      BY <1>a, <1>2, <2>3, <3>2, <3>3, Rates DEF RxBit, RxSince
  <2> QED
    BY <2>2, <2>3
<1>3. CASE rx.sm = "DATA"
  <2> DEFINE byte == [rx.byte EXCEPT ![rx.idx] = tx.serial]
  <2>1. rx' = RxData(tx.serial) /\ byte \in Byte
    BY <1>a, <1>b, <1>3 DEF RxNext, Byte
  <2>2. CASE rx.cnt # Clks - 1
    <3>1. rx' = [rx EXCEPT !.cnt = @ + 1]
      BY <2>1, <2>2 DEF RxData, LastClk, Count
    <3>2. /\ DOMAIN rx' = DOMAIN rx /\ rx'.sm = "DATA" /\ rx'.cnt = rx.cnt + 1 /\ rx'.idx = rx.idx
          /\ rx'.byte = rx.byte /\ rx'.dv = rx.dv
      BY <1>a, <1>3, <3>1
    <3>3. RxTyped' /\ RxOK'
      BY <1>a, <1>3, <2>2, <3>2, Rates
    <3> QED
      BY <1>a, <1>3, <3>2, <3>3, Rates DEF RxBit, RxSince
  <2>3. CASE rx.cnt = Clks - 1 /\ rx.idx < DataBits - 1
    <3>1. rx' = [rx EXCEPT !.cnt = 0, !.byte = byte, !.idx = @ + 1]
      BY <2>1, <2>3 DEF RxData, LastClk
    <3>2. /\ DOMAIN rx' = DOMAIN rx /\ rx'.sm = "DATA" /\ rx'.cnt = 0 /\ rx'.idx = rx.idx + 1
          /\ rx'.byte = byte /\ rx'.dv = rx.dv
      BY <1>a, <1>3, <3>1
    <3>3. RxTyped' /\ RxOK'
      BY <1>a, <1>3, <2>1, <2>3, <3>2, Rates
    <3> QED
      BY <1>a, <1>3, <2>3, <3>2, <3>3, Rates DEF RxBit, RxSince
  <2>4. CASE rx.cnt = Clks - 1 /\ rx.idx = DataBits - 1
    <3>1. rx' = [rx EXCEPT !.cnt = 0, !.byte = byte, !.idx = 0, !.sm = "STOP"]
      BY <2>1, <2>4, Rates DEF RxData, LastClk
    <3>2. /\ DOMAIN rx' = DOMAIN rx /\ rx'.sm = "STOP" /\ rx'.cnt = 0 /\ rx'.idx = 0
          /\ rx'.byte = byte /\ rx'.dv = rx.dv
      BY <1>a, <1>3, <3>1
    <3>3. RxTyped' /\ RxOK'
      BY <1>a, <1>3, <2>1, <3>2, Rates
    <3> QED
      BY <1>a, <1>3, <2>4, <3>2, <3>3, Rates DEF RxBit, RxSince
  <2> QED
    BY <1>a, <2>2, <2>3, <2>4, Rates
<1>4. CASE rx.sm = "STOP"
  <2>1. rx' = RxStop
    BY <1>b, <1>4 DEF RxNext
  <2>2. CASE rx.cnt # Clks - 1
    <3>1. rx' = [rx EXCEPT !.cnt = @ + 1]
      BY <2>1, <2>2 DEF RxStop, LastClk, Count
    <3>2. /\ DOMAIN rx' = DOMAIN rx /\ rx'.sm = "STOP" /\ rx'.cnt = rx.cnt + 1 /\ rx'.idx = rx.idx
          /\ rx'.byte = rx.byte /\ rx'.dv = rx.dv
      BY <1>a, <1>4, <3>1
    <3>3. RxTyped' /\ RxOK'
      BY <1>a, <1>4, <2>2, <3>2, Rates
    <3> QED
      BY <1>a, <1>4, <3>2, <3>3, Rates DEF RxBit, RxSince
  <2>3. CASE rx.cnt = Clks - 1
    <3>1. rx' = [rx EXCEPT !.cnt = 0, !.sm = "CLEANUP", !.dv = TRUE]
      BY <2>1, <2>3 DEF RxStop, LastClk
    <3>2. /\ DOMAIN rx' = DOMAIN rx /\ rx'.sm = "CLEANUP" /\ rx'.cnt = 0 /\ rx'.idx = rx.idx
          /\ rx'.byte = rx.byte /\ rx'.dv = TRUE
      BY <1>a, <1>4, <3>1
    <3>3. RxTyped' /\ RxOK'
      BY <1>a, <3>1, <3>2, Rates
    <3> QED
      BY <1>a, <1>4, <2>3, <3>2, <3>3, Rates DEF RxBit, RxSince
  <2> QED
    BY <2>2, <2>3
<1>5. CASE rx.sm = "CLEANUP"
  <2>1. CASE reset
    BY <1>0, <1>5, <2>1, Rates DEF RxReset, Zeros, Byte, Bit
  <2>2. CASE ~reset
    <3>1. rx' = [rx EXCEPT !.sm = "IDLE", !.dv = FALSE]
      BY <1>0, <1>5, <2>2 DEF RxNext
    <3>2. /\ DOMAIN rx' = DOMAIN rx /\ rx'.sm = "IDLE" /\ rx'.cnt = rx.cnt /\ rx'.idx = rx.idx
          /\ rx'.byte = rx.byte /\ rx'.dv = FALSE
      BY <1>a, <3>1
    <3>3. RxTyped' /\ RxOK'
      BY <1>a, <3>1, <3>2
    <3> QED
      BY <1>5, <3>2, <3>3
  <2> QED
    BY <2>1, <2>2
<1> QED
  BY <1>a, <1>1, <1>2, <1>3, <1>4, <1>5

-----------------------------------------------------------------------------
\* A step of the line: dt cycles of the transmitter's clock, dr of the receiver's.
Step(b, op, dt, dr) ==
    /\ IF dt = 1 THEN TxCycle(b, op) ELSE UNCHANGED <<tx, polled>> /\ op = "none"
    /\ IF dr = 1 THEN \E reset \in BOOLEAN : RxCycle(reset) ELSE UNCHANGED rx
    /\ dt + dr >= 1 /\ Drift(dt - dr) /\ Account(b, op)

\* Every step of the specification is one.
LEMMA NextIsStep ==
  ASSUME Next
  PROVE  \E b \in Byte, op \in {"none", "poll", "write"}, dt, dr \in {0, 1} : Step(b, op, dt, dr)
<1>1. ASSUME NEW b \in Byte, NEW op \in {"none", "poll", "write"}, NEW reset \in BOOLEAN,
             BothCycle(b, op, reset)
      PROVE  Step(b, op, 1, 1)
  BY <1>1 DEF BothCycle, Step
<1>2. ASSUME NEW b \in Byte, NEW op \in {"none", "poll", "write"}, TxAlone(b, op)
      PROVE  Step(b, op, 1, 0)
  BY <1>2 DEF TxAlone, Step
<1>3. ASSUME NEW reset \in BOOLEAN, RxAlone(reset)
      PROVE  Step(Zeros, "none", 0, 1)
  BY <1>3 DEF RxAlone, Step
<1>4. Zeros \in Byte
  BY DEF Zeros, Byte, Bit
<1> QED
  BY <1>1, <1>2, <1>3, <1>4 DEF Next

\* TxBit and RxBit by state.
LEMMA TxBits ==
  /\ tx.sm = "START" => TxBit = 0
  /\ tx.sm = "DATA"  => TxBit = tx.idx + 1
  /\ tx.sm = "STOP"  => TxBit = DataBits + 1
  /\ tx.sm \notin {"START", "DATA", "STOP"} => TxBit = DataBits + 2
  BY DEF TxBit

\* The receiver looks at the line only when it shows the bit that the receiver takes it for.
LEMMA Samples ==
  ASSUME Typed, TxOK, RxOK, Receiving
  PROVE  /\ rx.sm = "START" /\ rx.cnt = RxMiddle => tx.serial = 0
         /\ rx.sm = "DATA" /\ rx.cnt = Clks - 1 => tx.serial = tx.data[rx.idx]
<1>1. PICK n \in 0 .. 2 : Further(n)
  BY DEF Receiving
<1>2. /\ tx.sm \in {"START", "DATA", "STOP", "CLEANUP"} /\ tx.cnt \in 0 .. Clks - 1 /\ tx.idx \in 0 .. DataBits - 1
      /\ rx.idx \in 0 .. DataBits - 1 /\ slip \in -MaxSlip .. MaxSlip
  BY DEF Typed, TxTyped, RxTyped, Receiving, States
<1>3. CASE rx.sm = "START" /\ rx.cnt = RxMiddle
  <2>1. n * Clks + tx.cnt >= 1 /\ n * Clks + tx.cnt <= Clks /\ TxBit = n
    BY <1>1, <1>2, <1>3, Rates DEF Further, Apart, RxSince, RxBit
  <2>2. (n = 0 /\ tx.cnt > 0) \/ (n = 1 /\ tx.cnt = 0)
    BY <1>1, <1>2, <2>1, Rates
  <2>3. (tx.sm = "START" /\ tx.cnt > 0) \/ (tx.sm = "DATA" /\ tx.cnt = 0 /\ tx.idx = 0)
    BY <1>2, <2>1, <2>2, TxBits, Rates
  <2>4. tx.serial = 0
    BY <1>2, <2>3 DEF TxOK, Line
  <2> QED
    BY <1>3, <2>4
<1>4. CASE rx.sm = "DATA" /\ rx.cnt = Clks - 1
  <2>1. n * Clks + tx.cnt >= Clks + 1 /\ n * Clks + tx.cnt <= 2 * Clks /\ TxBit = rx.idx + n
    BY <1>1, <1>2, <1>4, Rates DEF Further, Apart, RxSince, RxBit
  <2>2. (n = 1 /\ tx.cnt > 0) \/ (n = 2 /\ tx.cnt = 0)
    BY <1>1, <1>2, <2>1, Rates
  <2>3. \/ tx.sm = "DATA" /\ tx.cnt > 0 /\ tx.idx = rx.idx
        \/ tx.sm = "DATA" /\ tx.cnt = 0 /\ tx.idx = rx.idx + 1
        \/ tx.sm = "STOP" /\ tx.cnt = 0 /\ rx.idx = DataBits - 1
    BY <1>2, <2>1, <2>2, TxBits, Rates
  <2>4. tx.serial = tx.data[rx.idx]
    BY <1>2, <2>3, Rates DEF TxOK, Line
  <2> QED
    BY <1>4, <2>4
<1> QED
  BY <1>3, <1>4

\* What both ends are after a step, in every phase of a frame.
LEMMA Shapes ==
  ASSUME UInv, NEW b \in Byte, NEW op \in {"none", "poll", "write"},
         NEW dt \in {0, 1}, NEW dr \in {0, 1}, Step(b, op, dt, dr)
  PROVE  /\ Typed' /\ TxOK' /\ RxOK'
         /\ rx.sm = "START" /\ rx.cnt = RxMiddle => tx.serial = 0
<1>1. rx.sm = "START" /\ rx.cnt = RxMiddle => tx.serial = 0
  BY Samples DEF UInv, Quiet, Waiting, Delivered, Over
<1>2. TxTyped' /\ TxOK' /\ polled' \in BOOLEAN
  <2>1. CASE dt = 1
    BY <2>1, TxMoves DEF Step, UInv
  <2>2. CASE dt = 0
    BY <2>2 DEF Step, UInv, Typed, TxTyped, TxOK, Line
  <2> QED
    BY <2>1, <2>2
<1>3. RxTyped' /\ RxOK'
  <2>1. CASE dr = 1
    BY <1>1, <2>1, RxMoves DEF Step, UInv
  <2>2. CASE dr = 0
    BY <2>2 DEF Step, UInv, Typed, RxTyped, RxOK
  <2> QED
    BY <2>1, <2>2
<1>4. slip' \in -MaxSlip .. MaxSlip
  BY DEF Step, Drift
<1> QED
  BY <1>1, <1>2, <1>3, <1>4 DEF Typed

-----------------------------------------------------------------------------
\* Where the two ends are after a step that ends neither end's frame, in numbers: tb and rb are
\* the bits, tc and rs the cycles in them.
LEMMA Distance ==
  ASSUME NEW n \in 0 .. 2, NEW tc \in 0 .. Clks - 1, NEW rs \in -RxMiddle - 1 .. Clks - 1,
         NEW s \in -MaxSlip .. MaxSlip, NEW dt \in {0, 1}, NEW dr \in {0, 1},
         Apart(n, tc, rs, s),
         NEW s1 \in -MaxSlip .. MaxSlip, s1 = s + dt - dr,
         NEW tj \in {0, 1}, NEW tc1 \in 0 .. Clks - 1, Counted(tj, tc1, tc, dt),
         NEW rj \in {0, 1}, NEW rs1 \in -RxMiddle - 1 .. Clks - 1, Counted(rj, rs1, rs, dr)
  PROVE  \E m \in 0 .. 2 : m = n + tj - rj /\ Apart(m, tc1, rs1, s1)
<1> USE DEF Apart, Counted
<1> DEFINE m == n + tj - rj
           q == m * Clks + tc1 - rs1 - RxMiddle - 2 - s1
<1>1. m \in -1 .. 3
  OBVIOUS
<1>2. /\ m * Clks = n * Clks + tj * Clks - rj * Clks
      /\ tj * Clks + tc1 = tc + dt /\ rj * Clks + rs1 = rs + dr
  BY Rates
<1>3. q \in -MaxSlip .. MaxSlip + 1
  <2> DEFINE nC == n * Clks
             tC == tj * Clks
             rC == rj * Clks
  <2>1. nC \in Int /\ tC \in Int /\ rC \in Int /\ m * Clks = nC + tC - rC
    BY <1>2, Rates
  <2>2. nC + tc - rs - RxMiddle - 2 - s \in -MaxSlip .. MaxSlip + 1 /\ tC + tc1 = tc + dt /\ rC + rs1 = rs + dr
    BY <1>2
  <2> HIDE DEF nC, tC, rC
  <2> QED
    BY <2>1, <2>2, Rates
<1>4. m # -1
  BY <1>3, Rates
<1>5. m # 3
  BY <1>3, Rates
<1> QED
  BY <1>1, <1>3, <1>4, <1>5

LEMMA RxBits ==
  /\ rx.sm = "START" => RxBit = 0 /\ RxSince = rx.cnt - RxMiddle - 1
  /\ rx.sm = "DATA"  => RxBit = rx.idx
  /\ rx.sm = "STOP"  => RxBit = DataBits
  /\ rx.sm \notin {"START", "DATA", "STOP"} => RxBit = DataBits + 1
  /\ rx.sm # "START" => RxSince = rx.cnt
  BY DEF RxBit, RxSince

\* In its start bit the receiver has yet to reach the middle.
LEMMA SinceRange ==
  ASSUME RxTyped, RxOK
  PROVE  RxSince \in -RxMiddle - 1 .. Clks - 1 /\ (rx.sm # "START" => RxSince >= 0)
  BY RxBits, Rates DEF RxTyped, RxOK

\* In the receiver's part of a frame.
LEMMA RxGoesOn ==
  ASSUME UInv, Receiving, NEW b \in Byte, NEW op \in {"none", "poll", "write"},
         NEW dt \in {0, 1}, NEW dr \in {0, 1}, Step(b, op, dt, dr)
  PROVE  /\ rx'.sm \in {"START", "DATA", "STOP", "CLEANUP"}
         /\ rx'.sm = "CLEANUP" => rx.sm = "STOP" /\ dr = 1 /\ rx'.byte = tx.data
         /\ \A i \in 0 .. DataBits - 1 : i < RxBit' => rx'.byte[i] = tx.data[i]
         /\ \E rj \in {0, 1} : RxBit' = RxBit + rj /\ Counted(rj, RxSince', RxSince, dr)
<1> USE DEF Counted
<1>1. /\ rx.sm \in {"START", "DATA", "STOP"} /\ rx.idx \in 0 .. DataBits - 1 /\ rx.byte \in Byte
      /\ \A i \in 0 .. DataBits - 1 : i < RxBit => rx.byte[i] = tx.data[i]
      /\ tx.data \in Byte
  BY DEF Receiving, UInv, Typed, TxTyped, RxTyped
<1>2. RxSince \in Int
  BY SinceRange, Rates DEF UInv, Typed
<1>3. CASE dr = 0
  <2>1. rx' = rx
    BY <1>3 DEF Step
  <2>2. RxBit' = RxBit /\ RxSince' = RxSince
    BY <2>1 DEF RxBit, RxSince
  <2>3. RxSince' = RxSince + dr /\ RxBit \in Int /\ RxBit' = RxBit + 0
    BY <1>1, <1>2, <1>3, <2>2, RxBits, Rates
  <2> QED
    BY <1>1, <2>1, <2>2, <2>3
<1>4. CASE dr = 1
  <2>1. /\ rx.sm = "START" /\ rx.cnt = RxMiddle => tx.serial = 0
        /\ rx.sm = "DATA" /\ rx.cnt = Clks - 1 => tx.serial = tx.data[rx.idx]
    BY Samples DEF UInv
  <2>2. \/ /\ rx'.sm \in {"START", "DATA", "STOP"}
           /\ RxBit' = RxBit /\ RxSince' = RxSince + 1 /\ rx'.byte = rx.byte
        \/ /\ RxBit' = RxBit + 1 /\ RxSince = Clks - 1 /\ RxSince' = 0
           /\ \/ /\ rx.sm = "DATA" /\ rx'.sm \in {"DATA", "STOP"}
                 /\ rx'.byte = [rx.byte EXCEPT ![rx.idx] = tx.serial]
              \/ rx.sm = "STOP" /\ rx'.sm = "CLEANUP" /\ rx'.byte = rx.byte
    BY <1>1, <1>4, <2>1, RxMoves DEF Step, UInv
  <2>3. CASE RxBit' = RxBit /\ RxSince' = RxSince + 1 /\ rx'.byte = rx.byte /\ rx'.sm \in {"START", "DATA", "STOP"}
    <3>1. RxSince' = RxSince + dr /\ RxBit \in Int /\ RxBit' = RxBit + 0
      BY <1>1, <1>2, <1>4, <2>3, RxBits, Rates
    <3> QED
      BY <1>1, <2>3, <3>1
  <2>5. CASE /\ rx.sm = "DATA" /\ rx'.sm \in {"DATA", "STOP"}
             /\ rx'.byte = [rx.byte EXCEPT ![rx.idx] = tx.serial]
             /\ RxBit' = RxBit + 1 /\ RxSince = Clks - 1 /\ RxSince' = 0
    <3>1. RxBit = rx.idx /\ tx.serial = tx.data[rx.idx]
      BY <2>1, <2>5, RxBits
    <3>2. \A i \in 0 .. DataBits - 1 : i < RxBit' => rx'.byte[i] = tx.data[i]
      <4> SUFFICES ASSUME NEW i \in 0 .. DataBits - 1, i < RxBit' PROVE rx'.byte[i] = tx.data[i]
        OBVIOUS
      <4>1. rx'.byte[i] = IF i = rx.idx THEN tx.serial ELSE rx.byte[i]
        BY <1>1, <2>5 DEF Byte
      <4>2. i # rx.idx => i < RxBit
        BY <1>1, <2>5, <3>1, Rates
      <4> QED
        BY <1>1, <3>1, <4>1, <4>2
    <3>3. \E rj \in {0, 1} : RxBit' = RxBit + rj /\ Counted(rj, RxSince', RxSince, dr)
      BY <1>4, <2>5
    <3> QED
      BY <2>5, <3>2, <3>3
  <2>6. CASE /\ rx.sm = "STOP" /\ rx'.sm = "CLEANUP" /\ rx'.byte = rx.byte
             /\ RxBit' = RxBit + 1 /\ RxSince = Clks - 1 /\ RxSince' = 0
    <3>1. \A i \in 0 .. DataBits - 1 : rx'.byte[i] = tx.data[i]
      BY <1>1, <2>6, RxBits, Rates
    <3>2. rx'.byte = tx.data
      <4>1. rx'.byte \in Byte /\ tx.data \in Byte
        BY <1>1, <2>6
      <4>2. /\ rx'.byte = [i \in 0 .. DataBits - 1 |-> rx'.byte[i]]
            /\ tx.data = [i \in 0 .. DataBits - 1 |-> tx.data[i]]
        BY <4>1 DEF Byte
      <4> QED
        BY <3>1, <4>2
    <3>3. \E rj \in {0, 1} : RxBit' = RxBit + rj /\ Counted(rj, RxSince', RxSince, dr)
      BY <1>4, <2>6
    <3> QED
      BY <1>4, <2>6, <3>1, <3>2, <3>3
  <2> QED
    BY <2>2, <2>3, <2>5, <2>6
<1> QED
  BY <1>3, <1>4

\* In the transmitter's part of a frame, the last cycle of the frame left out.
LEMMA TxGoesOn ==
  ASSUME UInv, tx.sm # "IDLE", NEW b \in Byte, NEW op \in {"none", "poll", "write"},
         NEW dt \in {0, 1}, NEW dr \in {0, 1}, Step(b, op, dt, dr),
         ~(tx.sm = "CLEANUP" /\ dt = 1)
  PROVE  /\ tx'.sm # "IDLE" /\ tx'.data = tx.data /\ op # "write"
         /\ tx.sm = "STOP" => tx'.sm \in {"STOP", "CLEANUP"}
         /\ tx'.sm \in {"STOP", "CLEANUP"} /\ tx.sm \notin {"STOP", "CLEANUP"} => tx'.cnt = 0
         /\ \E tj \in {0, 1} : TxBit' = TxBit + tj /\ Counted(tj, tx'.cnt, tx.cnt, dt)
<1> USE DEF Counted
<1>1. tx.sm \in States /\ tx.cnt \in 0 .. Clks - 1 /\ tx.idx \in 0 .. DataBits - 1
  BY DEF UInv, Typed, TxTyped
<1>2. TxBit \in Int
  BY <1>1, TxBits, Rates DEF States
<1>3. CASE dt = 0
  <2>1. tx' = tx /\ op = "none"
    BY <1>3 DEF Step
  <2>2. TxBit' = TxBit
    BY <2>1 DEF TxBit
  <2>3. TxBit' = TxBit + 0 /\ tx'.cnt = tx.cnt + dt
    BY <1>1, <1>2, <1>3, <2>1, <2>2, Rates
  <2> QED
    BY <2>1, <2>3
<1>4. CASE dt = 1
  <2>1. tx.sm \in {"START", "DATA", "STOP"}
    BY <1>1, <1>4 DEF States
  <2>2. /\ op # "write" /\ tx'.data = tx.data /\ tx'.sm # "IDLE" /\ TxTyped'
        /\ \/ TxBit' = TxBit /\ tx'.cnt = tx.cnt + 1
           \/ TxBit' = TxBit + 1 /\ tx.cnt = Clks - 1 /\ tx'.cnt = 0
    BY <1>4, <2>1, TxMoves DEF Step, UInv
  <2>3. /\ tx'.sm \in States /\ tx'.idx \in 0 .. DataBits - 1
        /\ tx'.sm = "START" => TxBit' = 0
        /\ tx'.sm = "DATA"  => TxBit' = tx'.idx + 1
        /\ tx'.sm = "STOP"  => TxBit' = DataBits + 1
        /\ tx'.sm \notin {"START", "DATA", "STOP"} => TxBit' = DataBits + 2
    BY <2>2 DEF TxTyped, TxBit
  <2>4. tx.sm = "STOP" => tx'.sm \in {"STOP", "CLEANUP"}
    BY <1>1, <2>2, <2>3, TxBits, Rates DEF States
  <2>5. tx'.sm \in {"STOP", "CLEANUP"} /\ tx.sm \notin {"STOP", "CLEANUP"} => tx'.cnt = 0
    BY <1>1, <2>1, <2>2, <2>3, TxBits, Rates DEF States
  <2>6. CASE TxBit' = TxBit /\ tx'.cnt = tx.cnt + 1
    <3>1. TxBit' = TxBit + 0 /\ tx'.cnt = tx.cnt + dt
      BY <1>1, <1>2, <1>4, <2>6, Rates
    <3> QED
      BY <2>2, <2>4, <2>5, <3>1
  <2>7. CASE TxBit' = TxBit + 1 /\ tx.cnt = Clks - 1 /\ tx'.cnt = 0
    BY <1>4, <2>2, <2>4, <2>5, <2>7
  <2> QED
    BY <2>2, <2>6, <2>7
<1> QED
  BY <1>3, <1>4

\* A frame that the receiver is in goes on, or its byte is out.
LEMMA ReceivingStep ==
  ASSUME UInv, Receiving, NEW b \in Byte, NEW op \in {"none", "poll", "write"},
         NEW dt \in {0, 1}, NEW dr \in {0, 1}, Step(b, op, dt, dr)
  PROVE  (Receiving \/ Delivered)'
<1>1. PICK n \in 0 .. 2 : Further(n)
  BY DEF Receiving
<1>2. /\ rx.sm \in {"START", "DATA", "STOP"} /\ tx.sm # "IDLE" /\ pending = <<tx.data>>
      /\ tx.sm \in States /\ tx.cnt \in 0 .. Clks - 1 /\ slip \in -MaxSlip .. MaxSlip
      /\ RxSince \in -RxMiddle - 1 .. Clks - 1 /\ ~rx.dv
      /\ RxBit \in 0 .. DataBits
  <2>1. rx.idx \in 0 .. DataBits - 1
    BY DEF UInv, Typed, RxTyped
  <2> QED
    BY <2>1, SinceRange, RxBits, Rates DEF Receiving, UInv, Typed, TxTyped, RxOK
<1>3. /\ Typed' /\ TxOK' /\ RxOK'
      /\ tx'.sm \in States /\ tx'.cnt \in 0 .. Clks - 1
      /\ slip' \in -MaxSlip .. MaxSlip /\ slip' = slip + dt - dr
      /\ RxSince' \in -RxMiddle - 1 .. Clks - 1
  <2>1. Typed' /\ TxOK' /\ RxOK'
    BY Shapes
  <2>2. RxSince' \in -RxMiddle - 1 .. Clks - 1
    <3>1. /\ rx'.sm # "START" => RxSince' = rx'.cnt
          /\ rx'.sm = "START" => RxSince' = rx'.cnt - RxMiddle - 1
      BY DEF RxSince
    <3>2. rx'.cnt \in 0 .. Clks - 1
      BY <2>1 DEF Typed, RxTyped
    <3> QED
      BY <2>1, <3>1, <3>2, Rates DEF RxOK
  <2>3. slip' = slip + dt - dr
    BY <1>2, Rates DEF Step, Drift
  <2> QED
    BY <2>1, <2>2, <2>3 DEF Typed, TxTyped
<1>4. /\ rx'.sm \in {"START", "DATA", "STOP", "CLEANUP"}
      /\ \A i \in 0 .. DataBits - 1 : i < RxBit' => rx'.byte[i] = tx.data[i]
  BY RxGoesOn
<1>5. PICK rj \in {0, 1} : RxBit' = RxBit + rj /\ Counted(rj, RxSince', RxSince, dr)
  BY RxGoesOn
<1>6. /\ rx'.sm # "CLEANUP" /\ op # "write" => pending' = <<tx.data>>
      /\ rx'.sm = "CLEANUP" /\ op # "write" => pending' = << >>
  BY <1>2, <1>3 DEF Step, Account, RxOK
<1>7. CASE tx.sm = "CLEANUP" /\ dt = 1
  <2>1. TxBit = DataBits + 2 /\ tx.cnt = 0
    BY <1>7, TxBits DEF UInv, TxOK
  <2>2. n = 2 /\ RxBit = DataBits
    BY <1>1, <1>2, <2>1, Rates DEF Further, Apart
  <2>3. RxSince = Clks - 1 /\ slip = MaxSlip
    BY <1>1, <1>2, <2>1, <2>2, Rates DEF Further, Apart
  <2>4. dr = 1 /\ slip' = MaxSlip
    BY <1>3, <1>7, <2>3, Rates
  <2>5. rj = 1
    BY <1>3, <1>5, <2>3, <2>4, Rates DEF Counted
  <2>6. rx'.sm = "CLEANUP"
    <3>1. /\ rx'.sm = "START" => RxBit' = 0
          /\ rx'.sm = "DATA" => RxBit' = rx'.idx
          /\ rx'.sm = "STOP" => RxBit' = DataBits
      BY DEF RxBit
    <3>2. rx'.idx \in 0 .. DataBits - 1
      BY <1>3 DEF Typed, RxTyped
    <3> QED
      BY <1>4, <1>5, <2>2, <2>5, <3>1, <3>2, Rates
  <2>7. tx'.sm = "IDLE" /\ op # "write"
    BY <1>7, TxMoves DEF Step, UInv
  <2> QED
    BY <1>6, <2>4, <2>6, <2>7 DEF Delivered
<1>8. CASE ~(tx.sm = "CLEANUP" /\ dt = 1)
  <2>1. tx'.sm # "IDLE" /\ tx'.data = tx.data /\ op # "write"
    BY <1>2, <1>8, TxGoesOn
  <2>2. PICK tj \in {0, 1} : TxBit' = TxBit + tj /\ Counted(tj, tx'.cnt, tx.cnt, dt)
    BY <1>2, <1>8, TxGoesOn
  <2>3. Apart(n, tx.cnt, RxSince, slip)
    BY <1>1 DEF Further
  <2>4. \E m \in 0 .. 2 : m = n + tj - rj /\ Apart(m, tx'.cnt, RxSince', slip')
    <3>1. /\ tx.cnt \in 0 .. Clks - 1 /\ RxSince \in -RxMiddle - 1 .. Clks - 1 /\ slip \in -MaxSlip .. MaxSlip
          /\ tx'.cnt \in 0 .. Clks - 1 /\ RxSince' \in -RxMiddle - 1 .. Clks - 1
          /\ slip' \in -MaxSlip .. MaxSlip /\ slip' = slip + dt - dr
      BY <1>2, <1>3
    <3>2. Counted(rj, RxSince', RxSince, dr) /\ Counted(tj, tx'.cnt, tx.cnt, dt)
      BY <1>5, <2>2
    <3> QED
      BY <2>3, <3>1, <3>2, Distance
  <2>5. PICK m \in 0 .. 2 : m = n + tj - rj /\ Apart(m, tx'.cnt, RxSince', slip')
    BY <2>4
  <2>6. TxBit' = RxBit' + m
    <3>1. TxBit = RxBit + n
      BY <1>1 DEF Further
    <3> QED
      BY <1>2, <1>5, <2>2, <2>5, <3>1, Rates
  <2>7. Further(m)'
    BY <2>5, <2>6 DEF Further, Apart
  <2>8. CASE rx'.sm = "CLEANUP"
    <3>1. RxBit' = DataBits + 1
      BY <2>8 DEF RxBit
    <3>2. /\ tx'.sm = "START" => TxBit' = 0
          /\ tx'.sm = "DATA"  => TxBit' = tx'.idx + 1
          /\ tx'.sm = "CLEANUP" => TxBit' = DataBits + 2
          /\ tx'.sm = "STOP" => TxBit' = DataBits + 1
      BY DEF TxBit
    <3>3. tx'.idx \in 0 .. DataBits - 1
      BY <1>3 DEF Typed, TxTyped
    <3>4. tx'.sm \in {"STOP", "CLEANUP"} /\ m \in 0 .. 1
      BY <1>3, <2>1, <2>6, <3>1, <3>2, <3>3, Rates DEF States
    <3>5. \E k \in 0 .. 1 : Further(k)'
      BY <2>7, <3>4
    <3> QED
      BY <1>6, <2>1, <2>8, <3>4, <3>5 DEF Delivered
  <2>9. CASE rx'.sm \in {"START", "DATA", "STOP"}
    <3>1. \E k \in 0 .. 2 : Further(k)'
      BY <2>7
    <3>2. \A i \in 0 .. DataBits - 1 : i < RxBit' => rx'.byte[i] = tx'.data[i]
      BY <1>4, <2>1
    <3> QED
      BY <1>6, <2>1, <2>9, <3>1, <3>2 DEF Receiving
  <2> QED
    BY <1>4, <2>8, <2>9
<1> QED
  BY <1>7, <1>8

\* Where nothing is delivered, only a write changes what is pending.
LEMMA Accounts ==
  ASSUME NEW b \in Byte, NEW op \in {"none", "poll", "write"}, NEW dt, NEW dr, Step(b, op, dt, dr),
         RxOK, RxOK', rx.sm = "CLEANUP" \/ rx'.sm # "CLEANUP", pending = << >> \/ op # "write"
  PROVE  /\ op = "write" => pending' = <<b>>
         /\ op # "write" => pending' = pending
<1>1. ~(rx'.dv /\ ~rx.dv)
  BY DEF RxOK
<1>2. pending' = IF op = "write" THEN Append(pending, b) ELSE pending
  BY <1>1 DEF Step, Account
<1>3. Append(<< >>, b) = <<b>>
  OBVIOUS
<1> QED
  BY <1>2, <1>3

\* With the line idle the receiver stays idle, and a byte may be written.
LEMMA QuietStep ==
  ASSUME UInv, Quiet, NEW b \in Byte, NEW op \in {"none", "poll", "write"},
         NEW dt \in {0, 1}, NEW dr \in {0, 1}, Step(b, op, dt, dr)
  PROVE  (Quiet \/ Waiting)'
<1>1. tx.sm = "IDLE" /\ rx.sm = "IDLE" /\ pending = << >> /\ tx.serial = 1
  BY DEF Quiet, UInv, TxOK, Line
<1>2. slip' = 0 /\ RxOK'
  BY <1>1, Shapes DEF Step, Drift
<1>3. rx'.sm = "IDLE"
  <2>1. CASE dr = 1
    BY <1>1, <2>1, RxMoves DEF Step, UInv
  <2>2. CASE dr = 0
    BY <1>1, <2>2 DEF Step
  <2> QED
    BY <2>1, <2>2
<1>4. /\ op = "write" => pending' = <<b>>
      /\ op # "write" => pending' = << >>
  BY <1>1, <1>2, <1>3, Accounts DEF UInv
<1>5. \/ op # "write" /\ tx'.sm = "IDLE"
      \/ op = "write" /\ tx'.sm = "START" /\ tx'.cnt = 0 /\ tx'.data = b
  <2>1. CASE dt = 1
    BY <1>1, <2>1, TxMoves DEF Step, UInv
  <2>2. CASE dt = 0
    BY <1>1, <2>2 DEF Step
  <2> QED
    BY <2>1, <2>2
<1> QED
  BY <1>2, <1>3, <1>4, <1>5, Rates DEF Quiet, Waiting

\* While the transmitter ends its stop bit the line is idle.
LEMMA OverStep ==
  ASSUME UInv, Over, NEW b \in Byte, NEW op \in {"none", "poll", "write"},
         NEW dt \in {0, 1}, NEW dr \in {0, 1}, Step(b, op, dt, dr)
  PROVE  (Quiet \/ Over)'
<1>1. /\ tx.sm \in {"STOP", "CLEANUP"} /\ rx.sm = "IDLE" /\ pending = << >> /\ tx.serial = 1
      /\ tx.sm = "STOP" => tx.cnt > 0
      /\ tx.cnt \in 0 .. Clks - 1
  BY DEF Over, UInv, TxOK, Line, Typed, TxTyped
<1>2. rx'.sm = "IDLE" /\ RxOK'
  <2>1. CASE dr = 1
    BY <1>1, <2>1, RxMoves DEF Step, UInv
  <2>2. CASE dr = 0
    BY <1>1, <2>2 DEF Step, UInv, RxOK
  <2> QED
    BY <2>1, <2>2
<1>3. op # "write" => pending' = << >>
  BY <1>1, <1>2, Accounts DEF UInv
<1>4. CASE tx.sm = "CLEANUP" /\ dt = 1
  <2>1. op # "write" /\ tx'.sm = "IDLE"
    BY <1>4, TxMoves DEF Step, UInv
  <2> QED
    BY <1>2, <1>3, <2>1 DEF Quiet
<1>5. CASE ~(tx.sm = "CLEANUP" /\ dt = 1)
  <2>1. /\ op # "write"
        /\ tx.sm = "STOP" => tx'.sm \in {"STOP", "CLEANUP"}
    BY <1>1, <1>5, TxGoesOn
  <2>2. PICK tj \in {0, 1} : TxBit' = TxBit + tj /\ Counted(tj, tx'.cnt, tx.cnt, dt)
    BY <1>1, <1>5, TxGoesOn
  <2>3. tx.sm = "CLEANUP" => tx' = tx
    BY <1>5 DEF Step
  <2>4. tx'.sm = "STOP" => tx'.cnt > 0
    <3>1. SUFFICES ASSUME tx'.sm = "STOP" PROVE tx'.cnt > 0
      OBVIOUS
    <3>2. tx.sm = "STOP" /\ TxBit = DataBits + 1 /\ TxBit' = DataBits + 1
      BY <1>1, <2>3, <3>1 DEF TxBit
    <3> QED
      BY <1>1, <2>2, <3>2, Rates DEF Counted
  <2> QED
    BY <1>1, <1>2, <1>3, <2>1, <2>3, <2>4 DEF Over
<1> QED
  BY <1>4, <1>5

\* The start bit is seen before it ends.
LEMMA WaitingStep ==
  ASSUME UInv, Waiting, NEW b \in Byte, NEW op \in {"none", "poll", "write"},
         NEW dt \in {0, 1}, NEW dr \in {0, 1}, Step(b, op, dt, dr)
  PROVE  (Waiting \/ Receiving)'
<1>1. /\ tx.sm = "START" /\ rx.sm = "IDLE" /\ pending = <<tx.data>>
      /\ tx.cnt - slip \in -MaxSlip .. MaxSlip + 1
      /\ tx.serial = IF tx.cnt = 0 THEN 1 ELSE 0
      /\ tx.cnt \in 0 .. Clks - 1 /\ slip \in -MaxSlip .. MaxSlip /\ TxBit = 0
  BY TxBits DEF Waiting, UInv, TxOK, Line, Typed, TxTyped
<1>2. /\ slip' = slip + dt - dr /\ slip' \in -MaxSlip .. MaxSlip /\ RxOK' /\ dt + dr >= 1
      /\ tx'.idx \in 0 .. DataBits - 1 /\ tx'.cnt \in 0 .. Clks - 1
  <2>1. slip' = slip + dt - dr /\ dt + dr >= 1
    BY <1>1, Rates DEF Step, Drift
  <2> QED
    BY <2>1, Shapes DEF Typed, TxTyped
<1>3. tx'.sm # "IDLE" /\ tx'.data = tx.data /\ op # "write"
  BY <1>1, TxGoesOn
<1>4. PICK tj \in {0, 1} : TxBit' = TxBit + tj /\ Counted(tj, tx'.cnt, tx.cnt, dt)
  BY <1>1, TxGoesOn
<1>5. TxBit' = 0 => tx'.sm = "START"
  <2>1. /\ tx'.sm = "DATA"  => TxBit' = tx'.idx + 1
        /\ tx'.sm = "STOP"  => TxBit' = DataBits + 1
        /\ tx'.sm \notin {"START", "DATA", "STOP"} => TxBit' = DataBits + 2
    BY DEF TxBit
  <2> QED
    BY <1>2, <2>1, Rates
<1>6. ASSUME rx'.sm = "IDLE" \/ rx'.sm = "START"
      PROVE  pending' = <<tx'.data>>
  BY <1>1, <1>2, <1>3, <1>6, Accounts DEF UInv
<1>7. CASE dr = 0
  <2>1. rx'.sm = "IDLE" /\ dt = 1 /\ slip' = slip + 1
    BY <1>1, <1>2, <1>7, Rates DEF Step
  <2>2. tx.cnt # Clks - 1
    BY <1>1, <1>2, <2>1, Rates
  <2>3. TxBit' = 0 /\ tx'.cnt = tx.cnt + 1
    BY <1>1, <1>4, <2>1, <2>2 DEF Counted
  <2> QED
    BY <1>1, <1>2, <1>5, <1>6, <2>1, <2>3, Rates DEF Waiting
<1>8. CASE dr = 1 /\ tx.cnt = 0
  <2>1. rx'.sm = "IDLE"
    BY <1>1, <1>8, RxMoves DEF Step, UInv
  <2>2. TxBit' = 0 /\ tx'.cnt = dt
    BY <1>1, <1>4, <1>8, Rates DEF Counted
  <2> QED
    BY <1>1, <1>2, <1>5, <1>6, <1>8, <2>1, <2>2, Rates DEF Waiting
<1>9. CASE dr = 1 /\ tx.cnt > 0
  <2>1. rx'.sm = "START" /\ rx'.cnt = 0
    BY <1>1, <1>9, RxMoves DEF Step, UInv
  <2>2. RxBit' = 0 /\ RxSince' = -RxMiddle - 1
    BY <2>1, Rates DEF RxBit, RxSince
  <2>3. Apart(tj, tx'.cnt, RxSince', slip')
    BY <1>1, <1>2, <1>4, <1>9, <2>2, Rates DEF Counted, Apart
  <2>4. Further(tj)'
    BY <1>1, <1>4, <2>2, <2>3 DEF Further, Apart
  <2> QED
    BY <1>3, <1>6, <2>1, <2>2, <2>4 DEF Receiving
<1> QED
  BY <1>1, <1>7, <1>8, <1>9

\* When the byte is out, the receiver is soon idle; the transmitter is in its stop bit, or its next
\* frame begins with all of the drift used up.
LEMMA DeliveredStep ==
  ASSUME UInv, Delivered, NEW b \in Byte, NEW op \in {"none", "poll", "write"},
         NEW dt \in {0, 1}, NEW dr \in {0, 1}, Step(b, op, dt, dr)
  PROVE  (Quiet \/ Waiting \/ Delivered \/ Over)'
<1>1. /\ rx.sm = "CLEANUP" /\ pending = << >> /\ rx.cnt = 0
      /\ tx.cnt \in 0 .. Clks - 1 /\ slip \in -MaxSlip .. MaxSlip
      /\ RxBit = DataBits + 1 /\ RxSince = 0
  BY RxBits DEF Delivered, UInv, RxOK, Typed, TxTyped
<1>2. /\ slip' = slip + dt - dr /\ slip' \in -MaxSlip .. MaxSlip /\ RxOK' /\ dt + dr >= 1
      /\ tx'.cnt \in 0 .. Clks - 1
  <2>1. slip' = slip + dt - dr /\ dt + dr >= 1
    BY <1>1, Rates DEF Step, Drift
  <2> QED
    BY <2>1, Shapes DEF Typed, TxTyped
<1>3. /\ dr = 1 => rx'.sm = "IDLE"
      /\ dr = 0 => rx' = rx
  BY <1>1, RxMoves DEF Step, UInv
<1>4. /\ op = "write" => pending' = <<b>>
      /\ op # "write" => pending' = << >>
  BY <1>1, <1>2, Accounts DEF UInv
<1>5. CASE tx.sm = "IDLE" /\ slip = MaxSlip
  <2>1. dr = 1 /\ rx'.sm = "IDLE"
    BY <1>1, <1>2, <1>3, <1>5, Rates
  <2>2. \/ op # "write" /\ tx'.sm = "IDLE"
        \/ op = "write" /\ dt = 1 /\ tx'.sm = "START" /\ tx'.cnt = 0 /\ tx'.data = b
    <3>1. CASE dt = 1
      BY <1>5, <3>1, TxMoves DEF Step, UInv
    <3>2. CASE dt = 0
      BY <1>5, <3>2 DEF Step
    <3> QED
      BY <3>1, <3>2
  <2> QED
    BY <1>1, <1>2, <1>4, <1>5, <2>1, <2>2, Rates DEF Quiet, Waiting
<1>6. CASE tx.sm = "CLEANUP" /\ dt = 1 /\ \E n \in 0 .. 1 : Further(n)
  <2>1. op # "write" /\ tx'.sm = "IDLE" /\ TxBit = DataBits + 2 /\ tx.cnt = 0
    BY <1>6, TxMoves, TxBits DEF Step, UInv, TxOK
  <2>2. CASE dr = 1
    BY <1>3, <1>4, <2>1, <2>2 DEF Quiet
  <2>3. CASE dr = 0
    <3>1. PICK n \in 0 .. 1 : Further(n)
      BY <1>6
    <3>2. n = 1
      BY <1>1, <2>1, <3>1, Rates DEF Further
    <3>3. slip' = MaxSlip
      BY <1>1, <1>2, <1>6, <2>1, <2>3, <3>1, <3>2, Rates DEF Further, Apart
    <3> QED
      BY <1>1, <1>3, <1>4, <2>1, <2>3, <3>3 DEF Delivered
  <2> QED
    BY <2>2, <2>3
<1>7. CASE /\ tx.sm \in {"STOP", "CLEANUP"} /\ \E n \in 0 .. 1 : Further(n)
           /\ ~(tx.sm = "CLEANUP" /\ dt = 1)
  <2>1. PICK n \in 0 .. 1 : Further(n)
    BY <1>7
  <2>2. op # "write" /\ (tx.sm = "STOP" => tx'.sm \in {"STOP", "CLEANUP"})
    BY <1>7, TxGoesOn
  <2>3. PICK tj \in {0, 1} : TxBit' = TxBit + tj /\ Counted(tj, tx'.cnt, tx.cnt, dt)
    BY <1>7, TxGoesOn
  <2>4. tx.sm = "CLEANUP" => tx' = tx
    BY <1>7 DEF Step
  <2>5. tx'.sm \in {"STOP", "CLEANUP"}
    BY <1>7, <2>2, <2>4
  <2>6. TxBit = DataBits + 1 + n
    BY <1>1, <2>1 DEF Further
  <2>7. CASE dr = 1
    <3>1. tx'.sm = "STOP" => tx'.cnt > 0
      <4>1. SUFFICES ASSUME tx'.sm = "STOP" PROVE tx'.cnt > 0
        OBVIOUS
      <4>2. TxBit = DataBits + 1 /\ TxBit' = DataBits + 1
        BY <1>7, <2>4, <4>1 DEF TxBit
      <4>3. n = 0
        BY <2>6, <4>2, Rates
      <4>4. Apart(0, tx.cnt, 0, slip)
        BY <1>1, <2>1, <4>3 DEF Further
      <4>5. tx.cnt > 0
        BY <1>1, <4>4, Rates DEF Apart
      <4> QED
        BY <1>1, <2>3, <4>2, <4>5, Rates DEF Counted
    <3> QED
      BY <1>3, <1>4, <2>2, <2>5, <2>7, <3>1 DEF Over
  <2>8. CASE dr = 0
    <3>1. dt = 1 /\ tx.sm = "STOP" /\ rx' = rx
      BY <1>2, <1>3, <1>7, <2>8
    <3>2. n = 0
      BY <2>6, <3>1, TxBits, Rates
    <3>3. RxBit' = RxBit /\ RxSince' = RxSince
      BY <3>1 DEF RxBit, RxSince
    <3>4. Apart(tj, tx'.cnt, RxSince', slip')
      <4>1. Apart(0, tx.cnt, 0, slip)
        BY <1>1, <2>1, <3>2 DEF Further
      <4>a. slip' = slip + 1
        BY <1>1, <1>2, <2>8, <3>1, Rates
      <4>2. CASE tj = 0
        <5>a. tx'.cnt = tx.cnt + 1
          BY <2>3, <3>1, <4>2 DEF Counted
        <5>1. Apart(0, tx'.cnt, 0, slip')
          <6>1. tx.cnt \in Int /\ slip \in Int /\ RxMiddle \in Int /\ Clks \in Int
            BY <1>1, Rates
          <6>2. 0 * Clks + tx'.cnt - 0 - RxMiddle - 2 - slip' = 0 * Clks + tx.cnt - 0 - RxMiddle - 2 - slip
            BY <4>a, <5>a, <6>1
          <6> QED
            BY <4>1, <6>2 DEF Apart
        <5> QED
          BY <1>1, <3>3, <4>2, <5>1
      <4>3. CASE tj = 1
        <5>a. tx'.cnt = 0 /\ tx.cnt = Clks - 1
          BY <2>3, <3>1, <4>3 DEF Counted
        <5>1. Apart(1, tx'.cnt, 0, slip')
          BY <1>1, <4>1, <4>a, <5>a, Rates DEF Apart
        <5> QED
          BY <1>1, <3>3, <4>3, <5>1
      <4> QED
        BY <4>2, <4>3
    <3>5. Further(tj)'
      BY <1>1, <2>3, <2>6, <3>2, <3>3, <3>4, Rates DEF Further, Apart
    <3> QED
      BY <1>1, <1>4, <2>2, <2>5, <3>1, <3>5 DEF Delivered
  <2> QED
    BY <2>7, <2>8
<1> QED
  BY <1>5, <1>6, <1>7 DEF Delivered

-----------------------------------------------------------------------------
\* UInv is inductive.
LEMMA UInit == Init => UInv
<1>1. SUFFICES ASSUME Init PROVE UInv
  OBVIOUS
<1>2. Zeros \in Byte
  BY DEF Zeros, Byte, Bit
<1>3. /\ DOMAIN tx = {"sm", "cnt", "idx", "data", "active", "serial"}
      /\ tx.sm = "IDLE" /\ tx.cnt = 0 /\ tx.idx = 0 /\ tx.data = Zeros /\ tx.active = FALSE
      /\ tx.serial = 1
  BY <1>1 DEF Init
<1>4. /\ DOMAIN rx = {"sm", "cnt", "idx", "byte", "dv"}
      /\ rx.sm = "IDLE" /\ rx.cnt = 0 /\ rx.idx = 0 /\ rx.byte = Zeros /\ rx.dv = FALSE
  BY <1>1 DEF Init, RxReset
<1>5. polled = FALSE /\ slip = 0 /\ pending = << >>
  BY <1>1 DEF Init
<1>a. tx.active \in BOOLEAN /\ rx.dv \in BOOLEAN /\ polled \in BOOLEAN
  BY <1>3, <1>4, <1>5
<1>b. 0 \in 0 .. Clks - 1 /\ 0 \in 0 .. DataBits - 1 /\ 1 \in Bit
  BY Rates DEF Bit
<1>6. TxTyped
  BY <1>2, <1>3, <1>a, <1>b DEF TxTyped, States
<1>7. RxTyped
  BY <1>2, <1>4, <1>a, <1>b DEF RxTyped, States
<1>8. slip \in -MaxSlip .. MaxSlip
  BY <1>5, Rates
<1>9. TxOK /\ RxOK
  BY <1>3, <1>4, <1>5 DEF TxOK, RxOK, Line
<1> QED
  BY <1>3, <1>4, <1>5, <1>a, <1>6, <1>7, <1>8, <1>9 DEF UInv, Typed, Quiet

LEMMA UNext == UInv /\ [Next]_vars => UInv'
<1>1. ASSUME UInv, Next
      PROVE  UInv'
  <2>1. PICK b \in Byte, op \in {"none", "poll", "write"}, dt \in {0, 1}, dr \in {0, 1} :
            Step(b, op, dt, dr)
    BY <1>1, NextIsStep
  <2>2. Typed' /\ TxOK' /\ RxOK'
    BY <1>1, <2>1, Shapes
  <2>3. (Quiet \/ Waiting \/ Receiving \/ Delivered \/ Over)'
    BY <1>1, <2>1, QuietStep, WaitingStep, ReceivingStep, DeliveredStep, OverStep DEF UInv
  <2> QED
    BY <2>2, <2>3 DEF UInv
<1>2. ASSUME UInv, UNCHANGED vars
      PROVE  UInv'
  BY <1>2 DEF vars, UInv, Typed, TxTyped, RxTyped, TxOK, RxOK, Line, Quiet, Waiting, Receiving,
              Delivered, Over, Further, Apart, TxBit, RxBit, RxSince
<1> QED
  BY <1>1, <1>2

\* What a receiver delivers is the byte on the line.
LEMMA DeliveryIsRight ==
  ASSUME UInv, Next, rx'.dv, ~rx.dv
  PROVE  pending # << >> /\ rx'.byte = Head(pending)
<1>1. PICK b \in Byte, op \in {"none", "poll", "write"}, dt \in {0, 1}, dr \in {0, 1} :
          Step(b, op, dt, dr)
  BY NextIsStep
<1>2. RxOK' /\ rx'.sm = "CLEANUP" /\ rx.sm # "CLEANUP"
  BY <1>1, Shapes DEF UInv, RxOK
<1>3. Receiving
  <2>1. ASSUME rx.sm = "IDLE"
        PROVE  rx'.sm # "CLEANUP"
    <3>1. CASE dr = 1
      BY <1>1, <2>1, <3>1, RxMoves DEF Step, UInv
    <3>2. CASE dr = 0
      BY <1>1, <2>1, <3>2 DEF Step
    <3> QED
      BY <3>1, <3>2
  <2> QED
    BY <1>2, <2>1 DEF UInv, Quiet, Waiting, Delivered, Over
<1>4. rx'.byte = tx.data
  BY <1>1, <1>2, <1>3, RxGoesOn
<1>5. pending = <<tx.data>>
  BY <1>3 DEF Receiving
<1> QED
  BY <1>4, <1>5

-----------------------------------------------------------------------------
\* A program that polls before it writes never has two bytes on the line, whatever the phase of
\* the two clocks and wherever the drift goes within its bound (UART_TX, uart_transmit_byte).
THEOREM OneFrameHolds == Spec => []OneFrameAtATime
<1>1. UInv => OneFrameAtATime
  <2>1. SUFFICES ASSUME UInv PROVE Len(pending) <= 1
    BY DEF OneFrameAtATime
  <2>2. pending = << >> \/ pending = <<tx.data>>
    BY <2>1 DEF UInv, Quiet, Waiting, Receiving, Delivered, Over
  <2>3. CASE pending = << >>
    BY <2>3
  <2>4. CASE pending = <<tx.data>>
    <3>1. Len(<<tx.data>>) = 1
      OBVIOUS
    <3> QED
      BY <2>4, <3>1
  <2> QED
    BY <2>2, <2>3, <2>4
<1> QED
  BY <1>1, UInit, UNext, PTL DEF Spec

\* The receiver delivers each byte that was written, unchanged and in order (UART_RX).
THEOREM DeliversHolds == Spec => DeliversInOrder
<1>1. UInv /\ [Next]_vars => [rx'.dv /\ ~rx.dv => pending # << >> /\ rx'.byte = Head(pending)]_vars
  BY DeliveryIsRight
<1> QED
  BY <1>1, UInit, UNext, PTL DEF Spec, DeliversInOrder
=============================================================================
