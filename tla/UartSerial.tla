----------------------------- MODULE UartSerial -----------------------------
(***************************************************************************)
(* One direction of the serial line: the transmitter (UART_TX) of one      *)
(* clock domain, driven by a program that polls its status                 *)
(* (uart_transmit_byte), and the receiver (UART_RX) of another.  The two   *)
(* clocks have nearly the same rate: within one frame one may run ahead of *)
(* the other by MaxSlip cycles.                                            *)
(*                                                                         *)
(* A frame is a start bit, the data bits and a stop bit of Clks cycles     *)
(* each.  The receiver aims at the middle of the start bit and then counts *)
(* whole bits; it never looks at the stop bit.                             *)
(***************************************************************************)
EXTENDS Integers, Sequences

CONSTANTS DataBits,  \* the data bits of a frame (8)
          Clks,      \* CLKS_PER_BIT
          MaxSlip    \* cycles the clocks may drift apart within a frame

ASSUME UartAssumption == DataBits \in Nat \ {0} /\ Clks \in Nat \ {0} /\ MaxSlip \in Nat

\* The receiver may be ahead by the drift when it sees the start bit and behind by it when it
\* samples, or the other way round; half a bit takes both, and one cycle.
ASSUME DriftAssumption == 2 * MaxSlip + 1 <= Clks \div 2

VARIABLES tx,       \* UART_TX: sm, cnt, idx, data, active, serial
          rx,       \* UART_RX: sm, cnt, idx, byte, dv
          polled,   \* the program has read an idle transmitter since its last write
          slip,     \* cycles the transmitter's clock is ahead in this frame
          pending   \* bytes the program has written that the receiver has not delivered

vars == <<tx, rx, polled, slip, pending>>

Bit   == {0, 1}
Byte  == [0 .. DataBits - 1 -> Bit]
Zeros == [i \in 0 .. DataBits - 1 |-> 0]
States == {"IDLE", "START", "DATA", "STOP", "CLEANUP"}

TypeOK ==
    /\ tx \in [sm : States, cnt : 0 .. Clks - 1, idx : 0 .. DataBits - 1, data : Byte,
               active : BOOLEAN, serial : Bit]
    /\ rx \in [sm : States, cnt : 0 .. Clks - 1, idx : 0 .. DataBits - 1, byte : Byte,
               dv : BOOLEAN]
    /\ polled \in BOOLEAN /\ slip \in -MaxSlip .. MaxSlip /\ pending \in Seq(Byte)

RxReset == [sm |-> "IDLE", cnt |-> 0, idx |-> 0, byte |-> Zeros, dv |-> FALSE]

Init ==
    /\ tx = [sm |-> "IDLE", cnt |-> 0, idx |-> 0, data |-> Zeros, active |-> FALSE, serial |-> 1]
    /\ rx = RxReset
    /\ polled = FALSE /\ slip = 0 /\ pending = << >>

-----------------------------------------------------------------------------
(* The transmitter *)

LastClk(u) == u.cnt = Clks - 1
Count(u)   == [u EXCEPT !.cnt = @ + 1]

\* Wrong variant: a stop bit of one cycle.
TxStop_Short == [tx EXCEPT !.serial = 1, !.cnt = 0, !.sm = "CLEANUP", !.active = FALSE]

\* IDLE takes a byte when the write strobe is up.
TxIdle(write, b) ==
    LET t == [tx EXCEPT !.serial = 1, !.cnt = 0, !.idx = 0] IN
    IF write THEN [t EXCEPT !.active = TRUE, !.data = b, !.sm = "START"] ELSE t

TxStart == LET t == [tx EXCEPT !.serial = 0] IN
           IF LastClk(tx) THEN [t EXCEPT !.cnt = 0, !.sm = "DATA"] ELSE Count(t)

TxData ==
    LET t == [tx EXCEPT !.serial = tx.data[tx.idx]] IN
    IF ~LastClk(tx) THEN Count(t)
    ELSE IF tx.idx < DataBits - 1 THEN [t EXCEPT !.cnt = 0, !.idx = @ + 1]
    ELSE [t EXCEPT !.cnt = 0, !.idx = 0, !.sm = "STOP"]

TxStop == LET t == [tx EXCEPT !.serial = 1] IN
          IF LastClk(tx) THEN [t EXCEPT !.cnt = 0, !.sm = "CLEANUP", !.active = FALSE]
          ELSE Count(t)

\* In every state but IDLE a write strobe is ignored.
TxNext(write, b) ==
    CASE tx.sm = "IDLE"  -> TxIdle(write, b)
      [] tx.sm = "START" -> TxStart
      [] tx.sm = "DATA"  -> TxData
      [] tx.sm = "STOP"  -> TxStop
      [] OTHER           -> [tx EXCEPT !.sm = "IDLE"]

-----------------------------------------------------------------------------
(* The receiver; it reads the line of the cycle that ends *)

\* Wrong variant: a receiver that aims at the edge of a bit instead of its middle.
RxMiddle_Edge == Clks - 1

RxMiddle == (Clks - 1) \div 2

RxIdle(v) == LET r == [rx EXCEPT !.dv = FALSE, !.cnt = 0, !.idx = 0] IN
             IF v = 0 THEN [r EXCEPT !.sm = "START"] ELSE r

RxStart(v) == IF rx.cnt # RxMiddle THEN Count(rx)
              ELSE IF v = 0 THEN [rx EXCEPT !.cnt = 0, !.sm = "DATA"]
              ELSE [rx EXCEPT !.sm = "IDLE"]

\* Wrong variant: the first bit of a frame is taken for the highest.
RxData_MsbFirst(v) ==
    LET r == [rx EXCEPT !.cnt = 0, !.byte[DataBits - 1 - rx.idx] = v] IN
    IF ~LastClk(rx) THEN Count(rx)
    ELSE IF rx.idx < DataBits - 1 THEN [r EXCEPT !.idx = @ + 1]
    ELSE [r EXCEPT !.idx = 0, !.sm = "STOP"]

RxData(v) ==
    LET r == [rx EXCEPT !.cnt = 0, !.byte[rx.idx] = v] IN
    IF ~LastClk(rx) THEN Count(rx)
    ELSE IF rx.idx < DataBits - 1 THEN [r EXCEPT !.idx = @ + 1]
    ELSE [r EXCEPT !.idx = 0, !.sm = "STOP"]

RxStop == IF LastClk(rx) THEN [rx EXCEPT !.cnt = 0, !.sm = "CLEANUP", !.dv = TRUE]
          ELSE Count(rx)

RxNext(v) ==
    CASE rx.sm = "IDLE"  -> RxIdle(v)
      [] rx.sm = "START" -> RxStart(v)
      [] rx.sm = "DATA"  -> RxData(v)
      [] rx.sm = "STOP"  -> RxStop
      [] OTHER           -> [rx EXCEPT !.sm = "IDLE", !.dv = FALSE]

-----------------------------------------------------------------------------
(* Clocks *)

\* One cycle of the transmitter's clock.  The bus carries one access per cycle: the
\* program may poll the status or, having seen it idle, write; a status read of the
\* cycle after a write already sees the transmitter active.
TxCycle(b, op) ==
    /\ op = "write" => polled
    /\ tx' = TxNext(op = "write", b)
    /\ polled' = (CASE op = "poll"  -> ~tx.active
                    [] op = "write" -> FALSE
                    [] OTHER        -> polled)

\* One cycle of the receiver's clock.  When dv is up the loader may reset the core and
\* the UART with it: that is how the command that starts a load ends.
RxCycle(reset) == /\ reset => rx.dv
                  /\ rx' = IF reset THEN RxReset ELSE RxNext(tx.serial)

\* What was written, less what the receiver has delivered.
Account(b, op) ==
    LET left == IF rx'.dv /\ ~rx.dv /\ pending # << >> THEN Tail(pending) ELSE pending
    IN pending' = IF op = "write" THEN Append(left, b) ELSE left

\* The drift counts from the moment both ends are idle: one idle cycle realigns them.
Drift(d) ==
    LET s == IF tx.sm = "IDLE" /\ rx.sm = "IDLE" THEN 0 ELSE slip + d
    IN  s \in -MaxSlip .. MaxSlip /\ slip' = s

BothCycle(b, op, reset) ==
    TxCycle(b, op) /\ RxCycle(reset) /\ Drift(0) /\ Account(b, op)

TxAlone(b, op) == TxCycle(b, op) /\ UNCHANGED rx /\ Drift(1) /\ Account(b, op)

RxAlone(reset) ==
    RxCycle(reset) /\ UNCHANGED <<tx, polled>> /\ Drift(-1) /\ Account(Zeros, "none")

Next == \/ \E b \in Byte, op \in {"none", "poll", "write"}, reset \in BOOLEAN :
              BothCycle(b, op, reset)
        \/ \E b \in Byte, op \in {"none", "poll", "write"} : TxAlone(b, op)
        \/ \E reset \in BOOLEAN : RxAlone(reset)

Spec == Init /\ [][Next]_vars

\* Both clocks run, and not every cycle brings an access.
FairSpec == Spec /\ WF_vars(BothCycle(Zeros, "none", FALSE))

-----------------------------------------------------------------------------
(* Properties *)

\* What the receiver delivers is what the program wrote, byte by byte and in order, at
\* every phase and drift of the two clocks, back to back or with pauses.
DeliversInOrder ==
    [][rx'.dv /\ ~rx.dv => pending # << >> /\ rx'.byte = Head(pending)]_vars

\* A written byte is never dropped by a transmitter that looked idle, and the receiver is
\* done with a frame before the next one can begin.
OneFrameAtATime == Len(pending) <= 1

\* A written byte arrives.
Arrives == pending # << >> ~> pending = << >>
=============================================================================
