----------------------------- MODULE X2xProofs -----------------------------
(***************************************************************************)
(* The accelerator, for every burst length, latency of the core, program   *)
(* and supply of random words: its DMA ports take turns (PortsTakeTurns),  *)
(* and what a conversion leaves in memory is its own (ResultIsOwn).        *)
(*                                                                         *)
(* PortsTakeTurns needs only the order of the states.  ResultIsOwn needs   *)
(* all of X2xInvariant: each state of x2x_acc_fsm has a lemma that its     *)
(* cycles keep the state's predicate or establish the next one's, and each *)
(* part of the driver one that it keeps Protocol, Settings and Contents.   *)
(***************************************************************************)
EXTENDS X2xInvariant, TLAPS

-----------------------------------------------------------------------------
(* The ports *)

\* A word to write waits only in states that do not read, and only at one port.
Fetching == {"FETCH_DATA_0", "FETCH_DATA_1"}
Apart ==
    /\ "st" \in DOMAIN fsm
    /\ \A i \in Shares : dma[i].wr # None => fsm.st \notin Fetching
    /\ \A i, j \in Shares : dma[i].wr # None /\ dma[j].wr # None => i = j

\* What a cycle leaves at the ports when it writes nothing, or at one port.
LEMMA NothingWritten ==
  ASSUME NEW reads, NEW datum, NEW first, Datapath(reads, NoAccess, datum, first)
  PROVE  \A i \in Shares : dma'[i].wr = None
  BY DEF Datapath, NoAccess

LEMMA OnePortWritten ==
  ASSUME NEW reads, NEW datum, NEW first, NEW port, NEW word,
         Datapath(reads, Only(port, word), datum, first)
  PROVE  \A i \in Shares : i # port => dma'[i].wr = None
  BY DEF Datapath, Only

LEMMA PutPortWritten ==
  ASSUME NEW port, NEW datum, NEW first, Datapath(NoAccess, Put(port), datum, first)
  PROVE  \A i \in Shares : i # port => dma'[i].wr = None
<1> DEFINE word == <<ctl.dout[port], OutAddr(fsm.r_mem, fsm.off[port]), Held(port, fsm.r_mem)>>
<1>1. Datapath(NoAccess, Only(port, word), datum, first)
  BY DEF Put
<1> HIDE DEF word
<1> QED
  BY <1>1, OnePortWritten

LEMMA EarlyPortWritten ==
  ASSUME NEW datum, NEW first, Datapath(NoAccess, EarlyWrite, datum, first)
  PROVE  \A i \in Shares : i # Early => dma'[i].wr = None
<1>1. CASE EarlyDue
  <2> DEFINE word == <<ctl.dout[Early], OutAddr(fsm.r_mem, fsm.off[Early]), Held(Early, fsm.r_mem)>>
  <2>1. EarlyWrite = Only(Early, word)
    BY <1>1 DEF EarlyWrite
  <2>2. Datapath(NoAccess, Only(Early, word), datum, first)
    BY <2>1
  <2> HIDE DEF word
  <2> QED
    BY <2>2, OnePortWritten
<1>2. CASE ~EarlyDue
  <2>1. Datapath(NoAccess, NoAccess, datum, first)
    BY <1>2 DEF EarlyWrite
  <2> QED
    BY <2>1, NothingWritten
<1> QED
  BY <1>1, <1>2

\* A cycle that writes nothing keeps the ports apart whatever state comes next.
LEMMA QuietApart ==
  ASSUME "st" \in DOMAIN fsm', \A i \in Shares : dma'[i].wr = None
  PROVE  Apart'
  BY DEF Apart

\* One that writes at one port does when the next state does not read.
LEMMA WriteApart ==
  ASSUME "st" \in DOMAIN fsm', fsm'.st \notin Fetching,
         NEW port, \A i \in Shares : i # port => dma'[i].wr = None
  PROVE  Apart'
  BY DEF Apart

LEMMA InitApart == Init => Apart
  BY DEF Init, Apart, FsmStart, Fetching

LEMMA FsmApart ==
  ASSUME Apart, NEW rdy, Fsm(rdy)
  PROVE  Apart'
<1>0. "st" \in DOMAIN fsm
  BY DEF Apart
<1>1. CASE Idle
  <2>1. "st" \in DOMAIN fsm'
    BY <1>0, <1>1 DEF Idle
  <2>2. \A i \in Shares : dma'[i].wr = None
    BY <1>1, NothingWritten DEF Idle
  <2> QED
    BY <2>1, <2>2, QuietApart
<1>2. CASE Prng
  <2>1. "st" \in DOMAIN fsm'
    BY <1>0, <1>2 DEF Prng
  <2>2. \A i \in Shares : dma'[i].wr = None
    BY <1>2, NothingWritten DEF Prng
  <2> QED
    BY <2>1, <2>2, QuietApart
<1>3. CASE FetchData0
  <2>1. "st" \in DOMAIN fsm'
    BY <1>0, <1>3 DEF FetchData0
  <2>2. \A i \in Shares : dma'[i].wr = None
    BY <1>3, NothingWritten DEF FetchData0
  <2> QED
    BY <2>1, <2>2, QuietApart
<1>4. CASE FetchData1
  <2>1. "st" \in DOMAIN fsm'
    BY <1>0, <1>4 DEF FetchData1
  <2>2. \A i \in Shares : dma'[i].wr = None
    BY <1>4, NothingWritten DEF FetchData1
  <2> QED
    BY <2>1, <2>2, QuietApart
<1>5. CASE MaskSend(rdy)
  <2>1. "st" \in DOMAIN fsm' /\ fsm'.st \in {"MASK_SEND", "MASK_WAIT"}
    BY <1>0, <1>5 DEF MaskSend
  <2>2. \A i \in Shares : i # Early => dma'[i].wr = None
    BY <1>5, EarlyPortWritten DEF MaskSend
  <2> QED
    BY <2>1, <2>2, WriteApart DEF Fetching
<1>6. CASE MaskWait(rdy)
  <2>1. "st" \in DOMAIN fsm' /\ fsm'.st \in {"MASK_WAIT", "PUT_DATA_0", "PUT_DATA_1"}
    BY <1>0, <1>6 DEF MaskWait
  <2>2. \A i \in Shares : i # Early => dma'[i].wr = None
    BY <1>6, EarlyPortWritten DEF MaskWait
  <2> QED
    BY <2>1, <2>2, WriteApart DEF Fetching
<1>7. CASE PutData0
  <2>1. "st" \in DOMAIN fsm' /\ fsm'.st \in {"PUT_DATA_0", "PUT_DATA_1"}
    BY <1>0, <1>7 DEF PutData0
  <2>2. \A i \in Shares : i # 0 => dma'[i].wr = None
    BY <1>7, PutPortWritten DEF PutData0
  <2> QED
    BY <2>1, <2>2, WriteApart DEF Fetching
\* The state after the last write of a burst is never one that reads: this is what DELAY is for.
<1>8. CASE PutData1
  <2>1. AfterBurst \in {"DONE", "DELAY", "MASK_SEND"}
    BY DEF AfterBurst
  <2>2. "st" \in DOMAIN fsm' /\ fsm'.st \in {"PUT_DATA_1", AfterBurst}
    BY <1>0, <1>8 DEF PutData1
  <2>3. \A i \in Shares : i # 1 => dma'[i].wr = None
    BY <1>8, PutPortWritten DEF PutData1
  <2>4. fsm'.st \notin Fetching
    BY <2>1, <2>2 DEF Fetching
  <2> QED
    BY <2>2, <2>3, <2>4, WriteApart
<1>9. CASE Delay
  <2>1. "st" \in DOMAIN fsm'
    BY <1>0, <1>9 DEF Delay
  <2>2. \A i \in Shares : dma'[i].wr = None
    BY <1>9, NothingWritten DEF Delay
  <2> QED
    BY <2>1, <2>2, QuietApart
<1>10. CASE Done
  <2>1. "st" \in DOMAIN fsm'
    BY <1>10 DEF Done, FsmStart
  <2>2. \A i \in Shares : dma'[i].wr = None
    BY <1>10, NothingWritten DEF Done
  <2> QED
    BY <2>1, <2>2, QuietApart
<1> QED
  BY <1>1, <1>2, <1>3, <1>4, <1>5, <1>6, <1>7, <1>8, <1>9, <1>10 DEF Fsm

LEMMA NextApart == Apart /\ [Next]_vars => Apart'
<1> SUFFICES ASSUME Apart, [Next]_vars PROVE Apart'
  OBVIOUS
<1>1. CASE Next
  BY <1>1, FsmApart DEF Next, Cycle
<1>2. CASE UNCHANGED vars
  BY <1>2 DEF vars, hwVars, Apart
<1> QED
  BY <1>1, <1>2

LEMMA ApartTakesTurns == Apart => PortsTakeTurns
  BY DEF Apart, PortsTakeTurns, Reads, Shares, Fetching

\* Whatever the program calls and however long the core and the random words take: the two
\* ports of the accelerator's DMA never strobe in the same cycle, so that the memory, which
\* serves one of them, serves all; and no write is lost to a read of its own port.
THEOREM PortsTakeTurnsHolds == Spec => []PortsTakeTurns
<1>1. Spec => []Apart
  BY InitApart, NextApart, PTL DEF Spec
<1> QED
  BY <1>1, ApartTakesTurns, PTL

-----------------------------------------------------------------------------
(* Quotients, remainders and numbers of three digits *)

\* Quotient and remainder.
LEMMA Quotient ==
  ASSUME NEW d \in Nat \ {0}, NEW a \in Nat
  PROVE  a \div d \in Nat /\ a % d \in 0 .. d - 1 /\ a = d * (a \div d) + (a % d)
  BY SMT

\* A number below 2d has one of two quotients by d.
LEMMA HalfSplit ==
  ASSUME NEW d \in Nat \ {0}, NEW m \in 0 .. 2 * d - 1
  PROVE  m \div d \in {0, 1} /\ m % d \in 0 .. d - 1 /\ m = (m \div d) * d + (m % d)
<1> DEFINE y == m \div d
           r == m % d
<1>0. m \in Nat
  OBVIOUS
<1>1. y \in Nat /\ r \in 0 .. d - 1 /\ m = d * y + r
  BY <1>0, Quotient
<1> HIDE DEF y, r
<1>2. ASSUME y >= 2 PROVE FALSE
  <2>1. y - 2 \in Nat
    BY <1>1, <1>2
  <2>2. d * (y - 2) \in Nat /\ d * y \in Nat
    BY <1>1, <2>1
  <2>3. d * (y - 2) = d * y - d * 2
    BY <1>1
  <2> QED
    BY <1>1, <2>2, <2>3
<1>3. d * y = y * d
  BY <1>1
<1> QED
  BY <1>1, <1>2, <1>3 DEF y, r

\* They are the only ones there are.
LEMMA Compose ==
  ASSUME NEW d \in Nat \ {0}, NEW x \in Nat, NEW t \in 0 .. d - 1
  PROVE  (x * d + t) \div d = x /\ (x * d + t) % d = t
<1> DEFINE a == x * d + t
           y == a \div d
           r == a % d
<1>1. a \in Nat
  OBVIOUS
<1>2. y \in Int /\ r \in Nat /\ r < d /\ a = d * y + r
  <2> HIDE DEF a
  <2> QED
    BY <1>1, SMT
<1> HIDE DEF y, r
<1>3. ASSUME NEW k \in Nat, NEW s \in Int, NEW u \in Int, s = u + 1 + k
      PROVE  d * s >= d * u + d
  <2>1. d * s = d * u + d + d * k
    BY <1>3
  <2>2. d * k \in Nat /\ d * u \in Int
    OBVIOUS
  <2> QED
    BY <2>1, <2>2
<1>4. d * x \in Int /\ d * y \in Int /\ a = d * x + t
  BY <1>2
<1>5. ASSUME y < x PROVE FALSE
  <2>1. x - y - 1 \in Nat /\ x = y + 1 + (x - y - 1)
    BY <1>2, <1>5
  <2>2. d * x >= d * y + d
    BY <1>2, <1>3, <2>1
  <2> HIDE DEF a
  <2> QED
    BY <1>2, <1>4, <2>2
<1>6. ASSUME x < y PROVE FALSE
  <2>1. y - x - 1 \in Nat /\ y = x + 1 + (y - x - 1)
    BY <1>2, <1>6
  <2>2. d * y >= d * x + d
    BY <1>2, <1>3, <2>1
  <2> HIDE DEF a
  <2> QED
    BY <1>2, <1>4, <2>2
<1>7. y = x
  BY <1>2, <1>5, <1>6
<1>8. r = t
  <2> HIDE DEF a
  <2> QED
    BY <1>2, <1>4, <1>7
<1> QED
  BY <1>7, <1>8 DEF y, r, a

\* Rows of d below row n end before it does.
LEMMA Times ==
  ASSUME NEW n \in Nat, NEW d \in Nat, NEW x \in Nat, x < n
  PROVE  x * d + d <= n * d /\ x * d \in Nat /\ n * d \in Nat
<1>1. n - x - 1 \in Nat /\ n = x + 1 + (n - x - 1)
  OBVIOUS
<1>2. (n - x - 1) * d \in Nat /\ x * d \in Nat /\ n * d \in Nat
  BY <1>1
<1>3. n * d = x * d + d + (n - x - 1) * d
  BY <1>1
<1> QED
  BY <1>2, <1>3

\* A place in a table of n rows of d.
LEMMA Within ==
  ASSUME NEW n \in Nat, NEW d \in Nat, NEW x \in 0 .. n - 1, NEW t \in 0 .. d - 1
  PROVE  x * d + t \in 0 .. n * d - 1
<1>1. x \in Nat /\ x < n /\ t \in Nat /\ t < d
  OBVIOUS
<1>2. x * d + d <= n * d /\ x * d \in Nat /\ n * d \in Nat
  BY <1>1, Times
<1> QED
  BY <1>1, <1>2

\* The row and the column of such a place.
LEMMA Split ==
  ASSUME NEW n \in Nat, NEW d \in Nat \ {0}, NEW m \in 0 .. n * d - 1
  PROVE  m \div d \in 0 .. n - 1 /\ m % d \in 0 .. d - 1 /\ m = (m \div d) * d + (m % d)
<1> DEFINE x == m \div d
           t == m % d
<1>0. n * d \in Nat /\ m \in Nat /\ m < n * d
  OBVIOUS
<1>1. x \in Nat /\ t \in Nat /\ t < d /\ m = d * x + t
  BY <1>0, SMT
<1> HIDE DEF x, t
<1>2. ASSUME x >= n PROVE FALSE
  <2>1. CASE x = n
    BY <1>0, <1>1, <2>1
  <2>2. CASE x > n
    <3>1. n * d + d <= x * d
      BY <1>1, <2>2, Times
    <3> QED
      BY <1>0, <1>1, <3>1
  <2> QED
    BY <1>1, <1>2, <2>1, <2>2
<1> QED
  BY <1>1, <1>2 DEF x, t

\* A number with three digits, of the bases n, s and r from the top.
\* o is the number of three digits: of a, of c below s and of t below r.
DigitsAre(o, s, r, a, c, t) == a \in Nat /\ c \in 0 .. s - 1 /\ t \in 0 .. r - 1 /\ o = a * (s * r) + (c * r + t)

\* Reading the digits.
LEMMA DigitsRead ==
  ASSUME NEW s \in Nat \ {0}, NEW r \in Nat \ {0}, NEW o, NEW a, NEW c, NEW t, DigitsAre(o, s, r, a, c, t)
  PROVE  /\ o \in Nat /\ a \in Nat /\ c \in 0 .. s - 1 /\ t \in 0 .. r - 1
         /\ o \div (s * r) = a /\ (o % (s * r)) \div r = c /\ o % r = t
         /\ o % (s * r) = c * r + t
<1> DEFINE g == s * r
           l == c * r + t
<1>0. a \in Nat /\ c \in 0 .. s - 1 /\ t \in 0 .. r - 1 /\ o = a * g + l
  BY DEF DigitsAre
<1>1. l \in 0 .. g - 1 /\ g \in Nat \ {0}
  <2>1. l \in 0 .. g - 1
    BY <1>0, Within
  <2> HIDE DEF l
  <2> QED
    BY <2>1
<1>2. l \div r = c /\ l % r = t
  BY <1>0, Compose
<1>3. o \div g = a /\ o % g = l /\ o \in Nat
  <2> HIDE DEF g, l
  <2>2. a * g \in Nat
    BY <1>0, <1>1
  <2>3. (a * g + l) \div g = a /\ (a * g + l) % g = l
    BY <1>0, <1>1, Compose
  <2>4. o = a * g + l /\ l \in Nat
    BY <1>0, <1>1
  <2> QED
    BY <2>2, <2>3, <2>4
<1>4. o % r = t
  <2> DEFINE m == a * s + c
  <2>1. a * (s * r) = (a * s) * r
    BY <1>0
  <2>2. o = m * r + t
    BY <1>0, <2>1
  <2>3. m \in Nat
    BY <1>0
  <2> HIDE DEF m
  <2> QED
    BY <1>0, <2>2, <2>3, Compose
<1> HIDE DEF g, l
<1>5. o \div g = a /\ (o % g) \div r = c /\ o % r = t /\ o % g = l /\ o \in Nat
  BY <1>2, <1>3, <1>4
<1> QED
  BY <1>0, <1>5 DEF g, l

\* A number has no others.
LEMMA DigitsUnique ==
  ASSUME NEW s \in Nat \ {0}, NEW r \in Nat \ {0}, NEW o, NEW a, NEW c, NEW t, DigitsAre(o, s, r, a, c, t),
         NEW a1, NEW c1, NEW t1, DigitsAre(o, s, r, a1, c1, t1)
  PROVE  a = a1 /\ c = c1 /\ t = t1
<1>1. o \div (s * r) = a /\ (o % (s * r)) \div r = c /\ o % r = t
  BY DigitsRead
<1>2. o \div (s * r) = a1 /\ (o % (s * r)) \div r = c1 /\ o % r = t1
  BY DigitsRead
<1> QED
  BY <1>1, <1>2

\* Every number below n * s * r has digits.
LEMMA DigitsExist ==
  ASSUME NEW n \in Nat \ {0}, NEW s \in Nat \ {0}, NEW r \in Nat \ {0}, NEW o \in 0 .. n * (s * r) - 1
  PROVE  \E a \in 0 .. n - 1, c \in 0 .. s - 1, t \in 0 .. r - 1 : DigitsAre(o, s, r, a, c, t)
<1> DEFINE g == s * r
           l == o % g
<1>1. g \in Nat \ {0}
  OBVIOUS
<1>2. o \div g \in 0 .. n - 1 /\ l \in 0 .. g - 1 /\ o = (o \div g) * g + l
  <2> HIDE DEF g
  <2> QED
    BY <1>1, Split DEF g
<1>3. l \div r \in 0 .. s - 1 /\ l % r \in 0 .. r - 1 /\ l = (l \div r) * r + (l % r)
  <2> HIDE DEF l
  <2> QED
    BY <1>2, Split DEF g
<1> DEFINE a == o \div g
           c == l \div r
           t == l % r
<1>4. o = a * g + (c * r + t)
  BY <1>2, <1>3
<1>5. a \in 0 .. n - 1 /\ a \in Nat /\ c \in 0 .. s - 1 /\ t \in 0 .. r - 1
  BY <1>2, <1>3
<1> HIDE DEF a, c, t, l
<1>6. DigitsAre(o, s, r, a, c, t)
  BY <1>4, <1>5 DEF DigitsAre, g
<1> QED
  BY <1>5, <1>6

\* Digits give a number below n * s * r.
LEMMA DigitsRange ==
  ASSUME NEW n \in Nat \ {0}, NEW s \in Nat \ {0}, NEW r \in Nat \ {0}, NEW o, NEW a \in 0 .. n - 1, NEW c, NEW t,
         DigitsAre(o, s, r, a, c, t)
  PROVE  o \in 0 .. n * (s * r) - 1
<1> DEFINE g == s * r
           l == c * r + t
<1>1. o = a * g + l /\ c \in 0 .. s - 1 /\ t \in 0 .. r - 1
  BY DEF DigitsAre
<1>2. l \in 0 .. g - 1 /\ g \in Nat
  BY <1>1, Within
<1> HIDE DEF g, l
<1>3. a * g + l \in 0 .. n * g - 1
  BY <1>2, Within
<1> QED
  BY <1>1, <1>3 DEF g

-----------------------------------------------------------------------------
(* What is asked for, and where the result is put *)

Answer == {a \in [op : Opcodes, b2a : BOOLEAN, share : BOOLEAN, onebit : BOOLEAN] :
             a.onebit => ~a.share /\ a.op \notin {"PRNG", "REF"}}
\* What a function of x2x.c asks for has its type.
LEMMA CallType ==
  ASSUME NEW op \in Opcodes, NEW b2a \in BOOLEAN, NEW share \in BOOLEAN, NEW onebit \in BOOLEAN,
         onebit => ~share /\ op \notin {"PRNG", "REF"}
  PROVE  Call(op, b2a, share, onebit) \in Answer
  BY DEF Call, Answer

\* Each of the twelve functions: one-bit conversions have two sources and no refreshing alone.
LEMMA WrapperFacts ==
  ASSUME NEW c \in DOMAIN Wrapper
  PROVE  Wrapper[c] \in Answer
<1>0. /\ "PRNG" \in Opcodes /\ "X2X" \in Opcodes /\ "REF" \in Opcodes /\ "REFX2X" \in Opcodes
  BY DEF Opcodes
<1>1. CASE c = "a2b"
  <2>1. Wrapper[c] = Call("X2X", FALSE, FALSE, FALSE)
    BY <1>1 DEF Wrapper
  <2> QED
    BY <1>0, <2>1, CallType
<1>2. CASE c = "b2a"
  <2>1. Wrapper[c] = Call("X2X", TRUE, FALSE, FALSE)
    BY <1>2 DEF Wrapper
  <2> QED
    BY <1>0, <2>1, CallType
<1>3. CASE c = "b2a_1bit"
  <2>1. Wrapper[c] = Call("X2X", TRUE, FALSE, TRUE)
    BY <1>3 DEF Wrapper
  <2> QED
    BY <1>0, <2>1, CallType
<1>4. CASE c = "b_share"
  <2>1. Wrapper[c] = Call("REF", TRUE, TRUE, FALSE)
    BY <1>4 DEF Wrapper
  <2> QED
    BY <1>0, <2>1, CallType
<1>5. CASE c = "a_share"
  <2>1. Wrapper[c] = Call("REF", FALSE, TRUE, FALSE)
    BY <1>5 DEF Wrapper
  <2> QED
    BY <1>0, <2>1, CallType
<1>6. CASE c = "b_ref"
  <2>1. Wrapper[c] = Call("REF", TRUE, FALSE, FALSE)
    BY <1>6 DEF Wrapper
  <2> QED
    BY <1>0, <2>1, CallType
<1>7. CASE c = "ref_b2a"
  <2>1. Wrapper[c] = Call("REFX2X", TRUE, FALSE, FALSE)
    BY <1>7 DEF Wrapper
  <2> QED
    BY <1>0, <2>1, CallType
<1>8. CASE c = "ref_b2a_1bit"
  <2>1. Wrapper[c] = Call("REFX2X", TRUE, FALSE, TRUE)
    BY <1>8 DEF Wrapper
  <2> QED
    BY <1>0, <2>1, CallType
<1>9. CASE c = "ref_a2b"
  <2>1. Wrapper[c] = Call("REFX2X", FALSE, FALSE, FALSE)
    BY <1>9 DEF Wrapper
  <2> QED
    BY <1>0, <2>1, CallType
<1>10. CASE c = "a_ref"
  <2>1. Wrapper[c] = Call("REF", FALSE, FALSE, FALSE)
    BY <1>10 DEF Wrapper
  <2> QED
    BY <1>0, <2>1, CallType
<1>11. CASE c = "prng_read"
  <2>1. Wrapper[c] = Call("PRNG", FALSE, FALSE, FALSE)
    BY <1>11 DEF Wrapper
  <2> QED
    BY <1>0, <2>1, CallType
<1>12. CASE c = "prng_read_nonzero"
  <2>1. Wrapper[c] = Call("PRNG", FALSE, TRUE, FALSE)
    BY <1>12 DEF Wrapper
  <2> QED
    BY <1>0, <2>1, CallType
<1>13. c \in {"a2b", "b2a", "b2a_1bit", "b_share", "a_share", "b_ref", "ref_b2a", "ref_b2a_1bit", "ref_a2b", "a_ref", "prng_read", "prng_read_nonzero"}
  BY DEF Wrapper
<1> QED
  BY <1>1, <1>2, <1>3, <1>4, <1>5, <1>6, <1>7, <1>8, <1>9, <1>10, <1>11, <1>12, <1>13
\* What follows from the registers being as asked.
LEMMA AskedFacts ==
  ASSUME Regular, Asked
  PROVE  /\ ctl.op \in Opcodes /\ ctl.share \in BOOLEAN /\ ctl.onebit \in BOOLEAN
         /\ ctl.onebit => ~ctl.share /\ ctl.op \notin {"PRNG", "REF"} /\ (ctl.dual => ctl.prime)
                          /\ drv.bursts % (IF ctl.dual THEN 2 ELSE 4) = 0
         /\ drv.bursts \in Nat \ {0} /\ BurstLen \in Nat /\ BurstLen >= 3 /\ Total \in Nat
         /\ Total <= LenMod /\ LenMod \in Nat
         /\ ctl.op = "PRNG" /\ RefLate => drv.bursts = 1
         /\ HalfWise = dualprime
<1>1. drv.call \in DOMAIN Wrapper
  BY DEF Asked, Regular
<1>2. This \in Answer
  BY <1>1, WrapperFacts DEF This
<1>3. drv.bursts \in Nat \ {0} /\ BurstLen \in Nat /\ BurstLen >= 3
  <2>1. ConvCycles \in Nat \ {0} /\ BurstLen \in Nat /\ Bursts \subseteq Nat \ {0}
    BY X2xAssumption
  <2>2. 3 + ConvCycles <= BurstLen + 1
    BY DEF Regular, MaxLatency
  <2>3. drv.bursts \in Nat \ {0}
    BY <2>1 DEF Asked
  <2>4. BurstLen >= 3
    BY <2>1, <2>2
  <2> QED
    BY <2>1, <2>3, <2>4
<1>4. Total \in Nat /\ Total <= LenMod
  <2>1. drv.bursts * BurstLen <= LenMod
    <3>1. PICK n \in Bursts : \A m \in Bursts : m <= n /\ m * BurstLen <= LenMod
      BY DEF Regular
    <3> QED
      BY <3>1 DEF Asked
  <2>2. drv.bursts * BurstLen \in Nat
    BY <1>3
  <2> QED
    BY <2>1, <2>2 DEF Total
<1>5. ctl.onebit => (ctl.dual => ctl.prime) /\ drv.bursts % (IF ctl.dual THEN 2 ELSE 4) = 0
  BY DEF Asked, Lawful
<1>6. ctl.op = "PRNG" /\ RefLate => drv.bursts = 1
  BY <1>3 DEF Asked, Lawful, RefLate, Regular
<1>7. ctl.op \in Opcodes /\ ctl.share \in BOOLEAN /\ ctl.onebit \in BOOLEAN
  BY <1>2 DEF Asked, Answer
<1>8. ctl.onebit => ~ctl.share /\ ctl.op \notin {"PRNG", "REF"}
  BY <1>2 DEF Asked, Answer
<1>9. HalfWise = dualprime
  BY <1>5, <1>7 DEF Asked, HalfWise, dualprime
<1>10. LenMod \in Nat
  BY DEF Regular
<1> QED
  BY <1>3, <1>4, <1>5, <1>6, <1>7, <1>8, <1>9, <1>10

\* The result of a one-bit conversion is a table of ctl.stride rows.
Table(s, q, r) ==
    /\ s \in Nat \ {0} /\ q \in Nat \ {0} /\ r \in Nat \ {0}
    /\ s = ctl.stride /\ OneBitGroup = s * r /\ OneBitRun = r
    /\ Total = q * (s * r) /\ Step = q * r
    /\ ctl.len \div s = (IF ctl.dual THEN 2 ELSE 1) * (q * r)
    /\ 4 * BurstLen = (IF ctl.dual THEN 2 ELSE 1) * (s * r)
    /\ drv.bursts = q * (IF ctl.dual THEN 2 ELSE 4)

\* The numbers s, q and r of the table.
LEMMA Layout ==
  ASSUME Regular, Asked, ctl.onebit
  PROVE  \E s, q, r : Table(s, q, r)
<1> DEFINE s == ctl.stride
           h == (2 * BurstLen) \div s
           r == IF ctl.dual THEN h ELSE 2 * h
           k == IF ctl.dual THEN 2 ELSE 4
           q == drv.bursts \div k
<1>1. s \in Nat \ {0} /\ (2 * BurstLen) % s = 0
  BY X2xAssumption DEF Asked, Regular
<1>2. drv.bursts \in Nat \ {0} /\ BurstLen \in Nat \ {0} /\ drv.bursts % k = 0 /\ ctl.dual \in BOOLEAN
  BY AskedFacts DEF Asked
<1>3. h \in Nat /\ 2 * BurstLen = s * h
  <2>1. 2 * BurstLen \in Nat
    BY <1>2
  <2> HIDE DEF s
  <2>2. 2 * BurstLen = s * h + ((2 * BurstLen) % s) /\ h \in Nat
    BY <1>1, <2>1, Quotient
  <2> HIDE DEF h
  <2> QED
    BY <1>1, <2>2
<1>4. q \in Nat /\ drv.bursts = k * q
  <2>1. k \in Nat \ {0}
    OBVIOUS
  <2> HIDE DEF k
  <2>2. drv.bursts = k * q + (drv.bursts % k) /\ q \in Nat
    BY <1>2, <2>1, Quotient
  <2> HIDE DEF q
  <2> QED
    BY <1>2, <2>1, <2>2
<1> HIDE DEF s, h, q
<1>5. h # 0 /\ q # 0
  <2>1. s * 0 = 0 /\ k * 0 = 0
    BY <1>1
  <2> QED
    BY <1>2, <1>3, <1>4, <2>1
<1>6. OneBitGroup = s * r /\ 4 * BurstLen = (IF ctl.dual THEN 2 ELSE 1) * (s * r)
  BY <1>1, <1>2, <1>3 DEF OneBitGroup
<1>7. r \in Nat \ {0}
  BY <1>3, <1>5
<1> HIDE DEF r
<1>8. OneBitRun = r
  <2>1. s * r = r * s + 0
    BY <1>1, <1>7
  <2> QED
    BY <1>1, <1>6, <1>7, <2>1, Compose DEF OneBitRun, s
<1>9. Total = q * (s * r)
  <2>1. CASE ctl.dual
    <3>1. Total = (2 * q) * BurstLen
      BY <1>4, <2>1 DEF Total
    <3>2. Total = q * (2 * BurstLen)
      BY <3>1, <1>2, <1>4
    <3> QED
      BY <3>2, <1>6, <2>1 DEF OneBitGroup
  <2>2. CASE ~ctl.dual
    <3>1. Total = (4 * q) * BurstLen
      BY <1>4, <2>2 DEF Total
    <3>2. Total = q * (4 * BurstLen)
      BY <3>1, <1>2, <1>4
    <3> QED
      BY <3>2, <1>6, <2>2 DEF OneBitGroup
  <2> QED
    BY <2>1, <2>2
<1> DEFINE m == q * r
<1>10. m \in Nat /\ Total = m * s
  BY <1>1, <1>4, <1>7, <1>9
<1> HIDE DEF m
<1>11. Step = m
  <2>1. CASE ctl.dual
    <3>1. ctl.len = m * (2 * s) + 0 /\ 2 * s \in Nat \ {0}
      BY <1>1, <1>10, <2>1 DEF Asked
    <3>2. (m * (2 * s) + 0) \div (2 * s) = m
      BY <3>1, <1>10, Compose
    <3> QED
      BY <3>1, <3>2, <2>1 DEF Step, s
  <2>2. CASE ~ctl.dual
    <3>1. ctl.len = m * s + 0
      BY <1>1, <1>10, <2>2 DEF Asked
    <3>2. (m * s + 0) \div s = m
      BY <1>1, <1>10, Compose
    <3> QED
      BY <3>1, <3>2, <2>2 DEF Step, s
  <2> QED
    BY <2>1, <2>2
<1>12. ctl.len \div s = (IF ctl.dual THEN 2 ELSE 1) * m
  <2>1. CASE ctl.dual
    <3>1. ctl.len = (2 * m) * s + 0 /\ 2 * m \in Nat
      BY <1>1, <1>10, <2>1 DEF Asked
    <3> QED
      BY <3>1, <2>1, <1>1, Compose
  <2>2. CASE ~ctl.dual
    <3>1. ctl.len = m * s + 0
      BY <1>1, <1>10, <2>2 DEF Asked
    <3> QED
      BY <3>1, <2>2, <1>1, <1>10, Compose
  <2> QED
    BY <2>1, <2>2
<1>13. Table(s, q, r)
  BY <1>1, <1>4, <1>5, <1>6, <1>7, <1>8, <1>9, <1>11, <1>12 DEF s, m, Table
<1> QED
  BY <1>13

\* Where the words of a one-bit result are put: their numbers are those of their order of
\* production with two digits swapped.
LEMMA OneBitPlace ==
  ASSUME ctl.onebit, NEW s, NEW q, NEW r, Table(s, q, r),
         NEW o, NEW a, NEW c, NEW t, DigitsAre(o, s, r, a, c, t)
  PROVE  /\ OffAt(o) = c * (q * r)
         /\ o % OneBitRun = t /\ (o % OneBitGroup) \div OneBitRun = c
         /\ a < q => DigitsAre(Place(o), q, r, c, a, t)
<1>0. s \in Nat \ {0} /\ q \in Nat \ {0} /\ r \in Nat \ {0} /\ OneBitGroup = s * r /\ OneBitRun = r /\ Step = q * r
  BY DEF Table
<1>1. /\ a \in Nat /\ c \in 0 .. s - 1 /\ t \in 0 .. r - 1
      /\ o \div (s * r) = a /\ (o % (s * r)) \div r = c /\ o % r = t
  BY <1>0, DigitsRead
<1>2. OffAt(o) = c * (q * r)
  BY <1>0, <1>1 DEF OffAt
<1>3. Place(o) = a * r + t + c * (q * r)
  BY <1>0, <1>1, <1>2 DEF Place
<1>4. ASSUME a < q PROVE DigitsAre(Place(o), q, r, c, a, t)
  <2>1. c \in Nat /\ t \in Nat /\ a \in 0 .. q - 1 /\ a * r \in Nat /\ c * (q * r) \in Nat
    BY <1>0, <1>1, <1>4
  <2>2. Place(o) = c * (q * r) + (a * r + t)
    BY <1>3, <2>1
  <2> QED
    BY <1>1, <2>1, <2>2 DEF DigitsAre
<1> QED
  BY <1>0, <1>1, <1>2, <1>4

\* Every word of the result has its place in the table.
LEMMA Produced ==
  ASSUME NEW s, NEW q, NEW r, Table(s, q, r), NEW o \in 0 .. Total - 1
  PROVE  \E a \in 0 .. q - 1, c \in 0 .. s - 1, t \in 0 .. r - 1 : DigitsAre(o, s, r, a, c, t)
<1>1. s \in Nat \ {0} /\ q \in Nat \ {0} /\ r \in Nat \ {0} /\ o \in 0 .. q * (s * r) - 1
  BY DEF Table
<1> QED
  BY <1>1, DigitsExist

\* The words of the result are put into distinct places, and into all of them.
LEMMA PlaceRange ==
  ASSUME Regular, Asked, NEW o \in 0 .. Total - 1
  PROVE  Place(o) \in 0 .. Total - 1
<1>1. CASE ~ctl.onebit
  BY <1>1 DEF Place
<1>2. CASE ctl.onebit
  <2>1. PICK s, q, r : Table(s, q, r)
    BY <1>2, Layout
  <2>2. PICK a \in 0 .. q - 1, c \in 0 .. s - 1, t \in 0 .. r - 1 : DigitsAre(o, s, r, a, c, t)
    BY <2>1, Produced
  <2>3. s \in Nat \ {0} /\ q \in Nat \ {0} /\ r \in Nat \ {0} /\ Total = s * (q * r)
    BY <2>1 DEF Table
  <2>4. DigitsAre(Place(o), q, r, c, a, t)
    <3>1. a < q
      BY <2>3
    <3> QED
      BY <3>1, <1>2, <2>1, <2>2, OneBitPlace
  <2>5. Place(o) \in 0 .. s * (q * r) - 1
    BY <2>3, <2>4, DigitsRange
  <2> QED
    BY <2>3, <2>5
<1> QED
  BY <1>1, <1>2

\* No two words of the result are put into one place.
LEMMA PlaceInjective ==
  ASSUME Regular, Asked, NEW o \in 0 .. Total - 1, NEW p \in 0 .. Total - 1, Place(o) = Place(p)
  PROVE  o = p
<1>1. CASE ~ctl.onebit
  BY <1>1 DEF Place
<1>2. CASE ctl.onebit
  <2>1. PICK s, q, r : Table(s, q, r)
    BY <1>2, Layout
  <2>2. s \in Nat \ {0} /\ q \in Nat \ {0} /\ r \in Nat \ {0}
    BY <2>1 DEF Table
  <2>3. PICK a \in 0 .. q - 1, c \in 0 .. s - 1, t \in 0 .. r - 1 : DigitsAre(o, s, r, a, c, t)
    BY <2>1, Produced
  <2>4. PICK a1 \in 0 .. q - 1, c1 \in 0 .. s - 1, t1 \in 0 .. r - 1 : DigitsAre(p, s, r, a1, c1, t1)
    BY <2>1, Produced
  <2>5. a < q /\ a1 < q
    BY <2>2
  <2>6. DigitsAre(Place(o), q, r, c, a, t) /\ DigitsAre(Place(o), q, r, c1, a1, t1)
    BY <1>2, <2>1, <2>3, <2>4, <2>5, OneBitPlace
  <2>7. c = c1 /\ a = a1 /\ t = t1
    BY <2>2, <2>6, DigitsUnique
  <2> QED
    BY <2>3, <2>4, <2>7 DEF DigitsAre
<1> QED
  BY <1>1, <1>2

\* No place is left out.
LEMMA PlaceOnto ==
  ASSUME Regular, Asked, NEW p \in 0 .. Total - 1
  PROVE  \E o \in 0 .. Total - 1 : Place(o) = p
<1>1. CASE ~ctl.onebit
  BY <1>1 DEF Place
<1>2. CASE ctl.onebit
  <2>1. PICK s, q, r : Table(s, q, r)
    BY <1>2, Layout
  <2>2. s \in Nat \ {0} /\ q \in Nat \ {0} /\ r \in Nat \ {0} /\ Total = s * (q * r) /\ Total = q * (s * r)
    BY <2>1 DEF Table
  <2>3. PICK c \in 0 .. s - 1, a \in 0 .. q - 1, t \in 0 .. r - 1 : DigitsAre(p, q, r, c, a, t)
    <3>1. p \in 0 .. s * (q * r) - 1
      BY <2>2
    <3> QED
      BY <3>1, <2>2, DigitsExist
  <2> DEFINE o == a * (s * r) + (c * r + t)
  <2>4. DigitsAre(o, s, r, a, c, t) /\ a < q
    BY <2>2, <2>3 DEF DigitsAre
  <2> HIDE DEF o
  <2>5. o \in 0 .. q * (s * r) - 1
    BY <2>2, <2>4, DigitsRange
  <2>6. DigitsAre(Place(o), q, r, c, a, t)
    BY <1>2, <2>1, <2>4, OneBitPlace
  <2>7. Place(o) = p
    BY <2>3, <2>6 DEF DigitsAre
  <2> QED
    BY <2>2, <2>5, <2>7
<1> QED
  BY <1>1, <1>2

\* The state machine's column offsets, one word after the other.
LEMMA OffsetStarts ==
  ASSUME Regular, Asked
  PROVE  OffAt(0) = 0
<1>1. CASE ~ctl.onebit
  BY <1>1 DEF OffAt
<1>2. CASE ctl.onebit
  <2>1. PICK s, q, r : Table(s, q, r)
    BY <1>2, Layout
  <2>2. s \in Nat \ {0} /\ q \in Nat \ {0} /\ r \in Nat \ {0}
    BY <2>1 DEF Table
  <2>3. DigitsAre(0, s, r, 0, 0, 0)
    BY <2>2 DEF DigitsAre
  <2>4. OffAt(0) = 0 * (q * r)
    BY <1>2, <2>1, <2>3, OneBitPlace
  <2> QED
    BY <2>2, <2>4
<1> QED
  BY <1>1, <1>2

\* onebit_addr_routine computes the place from the column offset.
LEMMA OutAddrIsPlace ==
  ASSUME NEW n, NEW o, o = ctr_array + n
  PROVE  OutAddr(n, OffAt(o)) = Place(o)
  BY DEF OutAddr, OneBitAddr, Place

\* It also steps the offset from one word to the next.
LEMMA NextOffIsOffAt ==
  ASSUME Regular, Asked, NEW n, NEW o \in 0 .. Total - 1, o = ctr_array + n
  PROVE  NextOff(n, OffAt(o)) = OffAt(o + 1)
<1>1. CASE ~ctl.onebit
  BY <1>1 DEF NextOff, OffAt
<1>2. CASE ctl.onebit
  <2>1. PICK s, q, r : Table(s, q, r)
    BY <1>2, Layout
  <2>2. s \in Nat \ {0} /\ q \in Nat \ {0} /\ r \in Nat \ {0} /\ Step = q * r /\ OneBitRun = r /\ s = ctl.stride
    BY <2>1 DEF Table
  <2>3. PICK a \in 0 .. q - 1, c \in 0 .. s - 1, t \in 0 .. r - 1 : DigitsAre(o, s, r, a, c, t)
    BY <2>1, Produced
  <2>4. OffAt(o) = c * (q * r) /\ o % OneBitRun = t /\ (o % OneBitGroup) \div OneBitRun = c
    BY <1>2, <2>1, <2>3, OneBitPlace
  <2>5. o = a * (s * r) + (c * r + t) /\ a \in Nat
    BY <2>3 DEF DigitsAre
  <2>6. CASE t # r - 1
    <3>1. o + 1 = a * (s * r) + (c * r + (t + 1)) /\ t + 1 \in 0 .. r - 1
      BY <2>2, <2>5, <2>6
    <3>2. DigitsAre(o + 1, s, r, a, c, t + 1)
      BY <3>1, <2>5 DEF DigitsAre
    <3>3. OffAt(o + 1) = c * (q * r)
      BY <1>2, <2>1, <3>2, OneBitPlace
    <3>4. NextOff(n, OffAt(o)) = OffAt(o)
      BY <1>2, <2>2, <2>4, <2>6 DEF NextOff, OneBitOff
    <3> QED
      BY <2>4, <3>3, <3>4
  <2>7. CASE t = r - 1 /\ c # s - 1
    <3>0. (c + 1) * r = c * r + r
      BY <2>2
    <3>1. o + 1 = a * (s * r) + ((c + 1) * r + 0) /\ c + 1 \in 0 .. s - 1 /\ 0 \in 0 .. r - 1
      BY <3>0, <2>2, <2>5, <2>7
    <3>2. DigitsAre(o + 1, s, r, a, c + 1, 0)
      BY <3>1, <2>5 DEF DigitsAre
    <3>3. OffAt(o + 1) = (c + 1) * (q * r)
      BY <1>2, <2>1, <3>2, OneBitPlace
    <3>4. NextOff(n, OffAt(o)) = OffAt(o) + Step
      BY <1>2, <2>2, <2>4, <2>7 DEF NextOff, OneBitOff, Step
    <3>5. (c + 1) * (q * r) = c * (q * r) + q * r
      BY <2>2
    <3> QED
      BY <2>2, <2>4, <3>3, <3>4, <3>5
  <2>8. CASE t = r - 1 /\ c = s - 1
    <3>1. o + 1 = (a + 1) * (s * r) + (0 * r + 0) /\ a + 1 \in Nat /\ 0 \in 0 .. s - 1 /\ 0 \in 0 .. r - 1
      <4>1. (s - 1) * r = s * r - r /\ (a + 1) * (s * r) = a * (s * r) + s * r
        BY <2>2, <2>5
      <4> QED
        BY <4>1, <2>2, <2>5, <2>8
    <3>2. DigitsAre(o + 1, s, r, a + 1, 0, 0)
      BY <3>1 DEF DigitsAre
    <3>3. OffAt(o + 1) = 0 * (q * r)
      BY <1>2, <2>1, <3>2, OneBitPlace
    <3>4. NextOff(n, OffAt(o)) = 0
      BY <1>2, <2>2, <2>4, <2>8 DEF NextOff, OneBitOff
    <3> QED
      BY <2>2, <3>3, <3>4
  <2> QED
    BY <2>6, <2>7, <2>8
<1> QED
  BY <1>1, <1>2

\* The bits of two values in one word.
LEMMA DigitsDouble ==
  ASSUME NEW s \in Nat \ {0}, NEW r \in Nat \ {0}, NEW o, NEW a, NEW c, NEW t, DigitsAre(o, s, r, a, c, t),
         NEW h \in {0, 1}
  PROVE  DigitsAre(2 * o + h, s, 2 * r, a, c, 2 * t + h)
<1>1. a \in Nat /\ c \in 0 .. s - 1 /\ t \in 0 .. r - 1 /\ o = a * (s * r) + (c * r + t)
  BY DEF DigitsAre
<1>2. a * (s * (2 * r)) = 2 * (a * (s * r)) /\ c * (2 * r) = 2 * (c * r)
  BY <1>1
<1>3. a * (s * r) \in Nat /\ c * r \in Nat
  BY <1>1
<1>4. 2 * o + h = a * (s * (2 * r)) + (c * (2 * r) + (2 * t + h))
  BY <1>1, <1>2, <1>3
<1>5. 2 * t + h \in 0 .. 2 * r - 1
  BY <1>1
<1> QED
  BY <1>1, <1>4, <1>5 DEF DigitsAre

\* Multiplying the number of a bit in its group by the stride, and adding the carry, swaps the
\* digits back.
LEMMA CarriedBack ==
  ASSUME NEW s \in Nat \ {0}, NEW r \in Nat \ {0}, NEW o, NEW a, NEW c, NEW t, DigitsAre(o, s, r, a, c, t),
         NEW g, g = s * r, NEW x, x = (o % g) * s
  PROVE  ((x % g) + (x \div g)) % g = t * s + c /\ t * s + c \in 0 .. g - 1
<1> DEFINE y == t * s
<1>0. c \in 0 .. s - 1 /\ t \in 0 .. r - 1 /\ o % g = c * r + t
  BY DigitsRead
<1>1. y + c \in 0 .. r * s - 1
  BY <1>0, Within
<1>2. g \in Nat \ {0} /\ r * s = g
  OBVIOUS
<1>3. x = c * g + y
  BY <1>0
<1>4. y \in Nat /\ c \in Nat
  BY <1>0
<1> HIDE DEF y
<1>5. y \in 0 .. g - 1
  BY <1>1, <1>2, <1>4
<1>6. (c * g + y) \div g = c /\ (c * g + y) % g = y
  BY <1>2, <1>4, <1>5, Compose
<1>7. (0 * g + (y + c)) % g = y + c
  BY <1>1, <1>2, Compose
<1>8. (y + c) % g = y + c
  BY <1>2, <1>4, <1>7
<1> QED
  BY <1>1, <1>2, <1>3, <1>6, <1>8 DEF y

BitTable(s, q, r) ==
    /\ s \in Nat \ {0} /\ q \in Nat \ {0} /\ r \in Nat \ {0}
    /\ s = ctl.stride /\ ctl.len \div s = q * r /\ 4 * BurstLen = s * r
BitNumber(n) == ctr_array * (IF ctl.dual THEN 2 ELSE 1) + n

\* The bits of one-bit conversions are converted in the order in which their results are written.
LEMMA BitOrder ==
  ASSUME NEW s, NEW q, NEW r,
         BitTable(s, q, r),
         NEW o, NEW p, NEW a, NEW c, NEW t, DigitsAre(o, s, r, a, c, t), DigitsAre(p, q, r, c, a, t),
         NEW n, o = BitNumber(n)
  PROVE  /\ OneBitIndex(n) \in 0 .. 4 * BurstLen - 1
         /\ a * (4 * BurstLen) + OneBitIndex(n) = SourceBit(p)
         /\ o \div (4 * BurstLen) = a
<1>0. /\ s \in Nat \ {0} /\ q \in Nat \ {0} /\ r \in Nat \ {0}
      /\ s = ctl.stride /\ ctl.len \div s = q * r /\ 4 * BurstLen = s * r
  BY DEF BitTable
<1> DEFINE g == 4 * BurstLen
           x == (o % g) * s
<1>1. a \in Nat /\ c \in 0 .. s - 1 /\ t \in 0 .. r - 1 /\ o \div g = a
  BY <1>0, DigitsRead
<1>3. ((x % g) + (x \div g)) % g = t * s + c /\ t * s + c \in 0 .. g - 1
  BY <1>0, CarriedBack
<1>4. OneBitIndex(n) = ((x % g) + (x \div g)) % g
  <2> DEFINE y == (BitNumber(n) % g) * ctl.stride
  <2>1. OneBitIndex(n) = ((y % g) + (y \div g)) % g
    BY Zenon DEF OneBitIndex, BitNumber
  <2>2. x = y
    BY <1>0
  <2> HIDE DEF x, y
  <2> QED
    BY <2>1, <2>2
<1>5. p \div (q * r) = c /\ p % (q * r) = a * r + t
  BY <1>0, DigitsRead
<1>6. SourceBit(p) = (a * r + t) * s + c
  <2>1. SourceBit(p) = (p % (ctl.len \div ctl.stride)) * ctl.stride + (p \div (ctl.len \div ctl.stride))
    BY Zenon DEF SourceBit
  <2> QED
    BY <1>0, <1>5, <2>1
<1>7. (a * r + t) * s + c = a * g + (t * s + c)
  <2>1. t \in Nat /\ c \in Nat
    BY <1>1
  <2>2. a * g = a * (s * r)
    BY <1>0
  <2>3. (a * r + t) * s = a * (s * r) + t * s
    BY <1>0, <1>1, <2>1
  <2> QED
    BY <1>0, <1>1, <2>1, <2>2, <2>3
<1> QED
  BY <1>1, <1>3, <1>4, <1>6, <1>7

-----------------------------------------------------------------------------
(* What the core makes of a burst *)

\* The counter of bursts does not wrap, and the last burst is found.
LEMMA BurstFacts ==
  ASSUME Regular, Asked, fsm.iter \in Nat, fsm.iter < drv.bursts
  PROVE  /\ ctr_array = Burst /\ Burst \in Nat /\ Burst + BurstLen <= Total
         /\ (fsm.iter + 1) % LenMod = fsm.iter + 1
         /\ (fsm.iter + 1) * BurstLen = Burst + BurstLen
         /\ Length = Total
         /\ ctr_array = Length - BurstLen <=> fsm.iter + 1 = drv.bursts
<1>1. drv.bursts \in Nat \ {0} /\ BurstLen \in Nat /\ BurstLen >= 3 /\ Total \in Nat /\ Total <= LenMod /\ LenMod \in Nat
      /\ ctl.onebit \in BOOLEAN
  BY AskedFacts
<1>2. Burst + BurstLen <= Total /\ Burst \in Nat
  BY <1>1, Times DEF Burst, Total
<1>3. ctr_array = Burst
  <2>1. Burst \in 0 .. LenMod - 1
    BY <1>1, <1>2
  <2>2. Burst % LenMod = Burst
    BY <1>1, <2>1
  <2> QED
    BY <2>2 DEF ctr_array, Burst
<1>4. (fsm.iter + 1) * BurstLen = Burst + BurstLen
  BY <1>1 DEF Burst
<1>5. fsm.iter + 1 < LenMod
  <2> DEFINE i == fsm.iter
  <2>1. i \in Nat /\ i * BurstLen + BurstLen <= LenMod
    BY <1>1, <1>2 DEF Burst
  <2> HIDE DEF i
  <2>2. i * BurstLen >= i * 3
    <3>1. BurstLen - 3 \in Nat /\ i * (BurstLen - 3) \in Nat
      BY <1>1, <2>1
    <3>2. i * (BurstLen - 3) = i * BurstLen - i * 3
      BY <1>1, <2>1
    <3>3. i * BurstLen \in Nat /\ i * 3 \in Nat
      BY <1>1, <2>1
    <3> QED
      BY <3>1, <3>2, <3>3
  <2>3. i * BurstLen \in Nat
    BY <1>1, <2>1
  <2>4. i + 1 < LenMod
    BY <1>1, <2>1, <2>2, <2>3
  <2> QED
    BY <2>4 DEF i
<1>6. (fsm.iter + 1) % LenMod = fsm.iter + 1
  <2>1. fsm.iter + 1 \in 0 .. LenMod - 1
    BY <1>1, <1>5
  <2> QED
    BY <1>1, <2>1
<1>7. Length = Total
  <2>1. CASE ctl.onebit /\ ctl.dual
    <3>1. ctl.len = Total * 2
      BY <2>1 DEF Asked
    <3> QED
      BY <1>1, <2>1, <3>1 DEF Length
  <2>2. CASE ~(ctl.onebit /\ ctl.dual)
    <3>1. ctl.len = Total * 1
      BY <2>2 DEF Asked
    <3> QED
      BY <1>1, <2>2, <3>1 DEF Length
  <2> QED
    BY <2>1, <2>2
<1>8. Burst = Total - BurstLen <=> fsm.iter + 1 = drv.bursts
  <2>1. CASE fsm.iter + 1 = drv.bursts
    BY <1>1, <1>2, <1>4, <2>1 DEF Total
  <2>2. CASE fsm.iter + 1 # drv.bursts
    <3>1. fsm.iter + 1 \in Nat /\ fsm.iter + 1 < drv.bursts
      BY <1>1, <2>2
    <3>2. (fsm.iter + 1) * BurstLen + BurstLen <= Total
      BY <1>1, <3>1, Times DEF Total
    <3> QED
      BY <1>1, <1>2, <1>4, <2>2, <3>2
  <2> QED
    BY <2>1, <2>2
<1> QED
  BY <1>2, <1>3, <1>4, <1>6, <1>7, <1>8

\* What is produced from the words of a source.
LEMMA ProductFacts ==
  ASSUME Regular, Asked, NEW i \in Shares, NEW o
  PROVE  /\ ctl.op = "PRNG" => Product(i, o) = Both(Random)
         /\ ctl.op # "PRNG" /\ ~ctl.onebit => Product(i, o) = <<Out(i, o, 0), Out(i, o, 1)>>
         /\ ctl.onebit /\ ctl.dual => Product(i, o) = <<Bit(i, SourceBit(2 * Place(o))), Bit(i, SourceBit(2 * Place(o) + 1))>>
         /\ ctl.onebit /\ ~ctl.dual => Product(i, o) = Both(Bit(i, SourceBit(Place(o))))
<1>1. ctl.op = This.op /\ ctl.onebit = This.onebit /\ (ctl.onebit => ctl.op # "PRNG")
  BY AskedFacts DEF Asked
<1>2. CASE ctl.op = "PRNG"
  <2>1. Product(i, o) = Both(Random)
    BY <1>1, <1>2 DEF Product, Wanted
  <2> QED
    BY <1>1, <1>2, <2>1
<1>3. CASE ctl.op # "PRNG" /\ ~ctl.onebit
  <2>1. Product(i, o) = <<Out(i, o, 0), Out(i, o, 1)>>
    BY <1>1, <1>3 DEF Product, Wanted, Place
  <2> QED
    BY <1>3, <2>1
<1>4. CASE ctl.op # "PRNG" /\ ctl.onebit
  <2>1. ctl.dual => Product(i, o) = <<Bit(i, SourceBit(2 * Place(o))), Bit(i, SourceBit(2 * Place(o) + 1))>>
    BY <1>1, <1>4 DEF Product, Wanted
  <2>2. ~ctl.dual => Product(i, o) = Both(Bit(i, SourceBit(Place(o))))
    BY <1>1, <1>4 DEF Product, Wanted
  <2> QED
    BY <1>4, <2>1, <2>2
<1> QED
  BY <1>2, <1>3, <1>4

\* A word is put together from its halves.
LEMMA ProductIsPair ==
  ASSUME Regular, Asked, NEW i \in Shares, NEW o
  PROVE  Product(i, o) = <<Product(i, o)[1], Product(i, o)[2]>>
<1>1. \E x, y : Product(i, o) = <<x, y>>
  BY ProductFacts, AskedFacts DEF Both
<1> QED
  BY <1>1

\* The two shares' halves of one word meet in the core.
LEMMA ConvIsOut ==
  ASSUME NEW i, NEW k, NEW h \in {1, 2}
  PROVE  Conv(i, Source(0, k)[h], Source(1, k)[h]) = <<Out(i, k, 0), Out(i, k, 1)>>[h]
  BY DEF Conv, Source, Src, Out, Both, Zero

\* In half-wise modes each half of a word is a datum of its own.
LEMMA ItemFacts ==
  ASSUME Regular, Asked, NEW b, NEW m
  PROVE  /\ HalfWise => Item(b, m) = [i \in Shares |-> Both(Product(i, b + (m \div 2))[(m % 2) + 1])]
         /\ ~HalfWise => Item(b, m) = [i \in Shares |-> Product(i, b + m)]
  BY DEF Item

\* The bit that is converted is the one whose place comes next.
LEMMA BitOperand ==
  ASSUME Regular, Asked, ctl.onebit, fsm.iter \in Nat, fsm.iter < drv.bursts, NEW n \in 0 .. Items - 1,
         \A i \in Shares, k \in {0, 1} : bits[i][k] = Source(i, BitBase + k)
  PROVE  ConvertBit(OneBitIndex(n)) = Item(Burst, n)
<1>1. PICK s, q, r : Table(s, q, r)
  BY Layout
<1> DEFINE k == IF ctl.dual THEN 2 ELSE 4
           o == IF ctl.dual THEN Burst + (n \div 2) ELSE Burst + n
           h == n % 2
           R == IF ctl.dual THEN 2 * r ELSE r
           O == IF ctl.dual THEN 2 * o + h ELSE o
           p == IF ctl.dual THEN 2 * Place(o) + h ELSE Place(o)
<1>2. /\ s \in Nat \ {0} /\ q \in Nat \ {0} /\ r \in Nat \ {0} /\ s = ctl.stride
      /\ ctl.len \div s = (IF ctl.dual THEN 2 ELSE 1) * (q * r)
      /\ 4 * BurstLen = (IF ctl.dual THEN 2 ELSE 1) * (s * r)
      /\ drv.bursts = q * k
  BY <1>1 DEF Table
<1>3. /\ ctr_array = Burst /\ Burst \in Nat /\ Burst + BurstLen <= Total
      /\ BurstLen \in Nat /\ BurstLen >= 3 /\ ctl.dual \in BOOLEAN /\ ~ctl.share /\ ctl.op # "PRNG"
      /\ (ctl.dual => ctl.prime) /\ Total \in Nat
  BY BurstFacts, AskedFacts DEF Asked
<1>4. Items = IF ctl.dual THEN 2 * BurstLen ELSE BurstLen
  BY <1>3 DEF Items, HalfWise
<1>5. o \in 0 .. Total - 1 /\ h \in {0, 1}
  <2>1. CASE ctl.dual
    <3>1. n \in 0 .. 2 * BurstLen - 1
      BY <1>4, <2>1
    <3>2. n \div 2 \in 0 .. BurstLen - 1 /\ n % 2 \in {0, 1}
      BY <1>3, <3>1
    <3> QED
      BY <1>3, <2>1, <3>2
  <2>2. CASE ~ctl.dual
    <3>1. n \in 0 .. BurstLen - 1
      BY <1>4, <2>2
    <3>2. n % 2 \in {0, 1}
      BY <1>3, <3>1
    <3> QED
      BY <1>3, <2>2, <3>1, <3>2
  <2> QED
    BY <2>1, <2>2
<1>6. PICK a \in 0 .. q - 1, c \in 0 .. s - 1, t \in 0 .. r - 1 : DigitsAre(o, s, r, a, c, t)
  BY <1>1, <1>5, Produced
<1>7. DigitsAre(Place(o), q, r, c, a, t)
  <2>1. a < q
    BY <1>2
  <2> HIDE DEF o
  <2> QED
    BY <1>1, <1>6, <2>1, OneBitPlace
<1> DEFINE T == IF ctl.dual THEN 2 * t + h ELSE t
<1>8. DigitsAre(O, s, R, a, c, T) /\ DigitsAre(p, q, R, c, a, T)
  <2>1. CASE ctl.dual
    <3> HIDE DEF o, h
    <3>1. DigitsAre(2 * o + h, s, 2 * r, a, c, 2 * t + h) /\ DigitsAre(2 * Place(o) + h, q, 2 * r, c, a, 2 * t + h)
      BY <1>2, <1>5, <1>6, <1>7, DigitsDouble
    <3> QED
      BY <2>1, <3>1
  <2>2. CASE ~ctl.dual
    BY <1>6, <1>7, <2>2
  <2> QED
    BY <2>1, <2>2
<1>9. R \in Nat \ {0} /\ ctl.len \div s = q * R /\ 4 * BurstLen = s * R
  <2>1. 2 * (q * r) = q * (2 * r) /\ 2 * (s * r) = s * (2 * r)
    BY <1>2
  <2> QED
    BY <1>2, <1>3, <2>1
<1>10. O = BitNumber(n)
  <2>1. n \in Nat
    BY <1>3, <1>4
  <2>2. CASE ctl.dual
    <3>1. n = 2 * (n \div 2) + (n % 2) /\ n \div 2 \in Nat
      BY <2>1
    <3> QED
      BY <1>3, <2>2, <3>1 DEF BitNumber
  <2>3. CASE ~ctl.dual
    BY <1>3, <2>3, <2>1 DEF BitNumber
  <2> QED
    BY <2>2, <2>3
<1> HIDE DEF O, p, R, T
<1> DEFINE x == OneBitIndex(n)
<1>11. /\ x \in 0 .. 4 * BurstLen - 1
       /\ a * (4 * BurstLen) + x = SourceBit(p)
       /\ O \div (4 * BurstLen) = a
  <2>1. BitTable(s, q, R)
    BY <1>2, <1>9 DEF BitTable
  <2> QED
    BY <2>1, <1>8, <1>10, BitOrder
\* The fetched words are those of the group.
<1>12. fsm.iter \div k = a
  <2> DEFINE u == fsm.iter \div k
             v == fsm.iter % k
  <2>1. u \in Nat /\ v \in 0 .. k - 1 /\ fsm.iter = k * u + v
    <3>1. k \in Nat \ {0}
      OBVIOUS
    <3> HIDE DEF k
    <3> QED
      BY <3>1, Quotient
  <2> HIDE DEF u, v
  <2>2. O = u * (4 * BurstLen) + (v * Items + n)
    <3>1. CASE ctl.dual
      <4>1. Burst = (2 * u) * BurstLen + v * BurstLen
        BY <1>3, <2>1, <3>1 DEF Burst
      <4>2. (2 * u) * BurstLen * 2 = u * (4 * BurstLen) /\ (v * BurstLen) * 2 = v * (2 * BurstLen)
        BY <1>3, <2>1
      <4>3. (2 * u) * BurstLen \in Nat /\ v * BurstLen \in Nat
        BY <1>3, <2>1, <3>1
      <4>4. Burst * 2 = u * (4 * BurstLen) + v * (2 * BurstLen)
        BY <4>1, <4>2, <4>3
      <4> QED
        BY <1>3, <1>4, <1>10, <3>1, <4>4, <2>1 DEF BitNumber
    <3>2. CASE ~ctl.dual
      <4>1. Burst = (4 * u) * BurstLen + v * BurstLen
        BY <1>3, <2>1, <3>2 DEF Burst
      <4>2. (4 * u) * BurstLen = u * (4 * BurstLen)
        BY <1>3, <2>1
      <4>3. u * (4 * BurstLen) \in Nat /\ v * BurstLen \in Nat
        BY <1>3, <2>1, <3>2
      <4> QED
        BY <1>3, <1>4, <1>10, <3>2, <4>1, <4>2, <4>3, <2>1 DEF BitNumber
    <3> QED
      BY <3>1, <3>2
  <2>3. v * Items + n \in 0 .. k * Items - 1 /\ k * Items = 4 * BurstLen
    <3>1. k \in Nat /\ Items \in Nat /\ k * Items = 4 * BurstLen
      BY <1>3, <1>4
    <3> HIDE DEF k
    <3> QED
      BY <2>1, <3>1, Within
  <2> DEFINE w == v * Items + n
             g == 4 * BurstLen
  <2>4. g \in Nat \ {0} /\ w \in 0 .. g - 1
    BY <1>3, <2>3
  <2> HIDE DEF w, g
  <2>5. (u * g + w) \div g = u
    BY <2>1, <2>4, Compose
  <2> QED
    BY <1>11, <2>2, <2>5 DEF w, g, u
<1> DEFINE half == 2 * BurstLen
           d == x \div half
<1> HIDE DEF x
<1>13. d \in {0, 1} /\ x % half \in Nat /\ x = d * half + (x % half) /\ x \in Nat
  <2>1. half \in Nat \ {0} /\ x \in 0 .. 2 * half - 1
    BY <1>3, <1>11
  <2> HIDE DEF half
  <2>2. d \in {0, 1} /\ x % half \in 0 .. half - 1 /\ x = d * half + (x % half)
    BY <2>1, HalfSplit
  <2> QED
    BY <2>1, <2>2
<1>14. (BitBase + d) * half + (x % half) = SourceBit(p)
  <2>1. BitBase = 2 * a
    BY <1>12 DEF BitBase
  <2>2. (2 * a) * half = a * (4 * BurstLen)
    BY <1>3
  <2>3. (2 * a + d) * half = (2 * a) * half + d * half
    BY <1>3, <1>13
  <2>4. (2 * a) * half \in Nat /\ d * half \in Nat
    <3>1. a \in Nat /\ d \in Nat /\ half \in Nat
      BY <1>3, <1>13
    <3> HIDE DEF d, half
    <3> QED
      BY <3>1
  <2> HIDE DEF d, half
  <2> QED
    BY <1>11, <1>13, <2>1, <2>2, <2>3, <2>4
<1>15. ConvertBit(x) = [i \in Shares |-> Both(Bit(i, SourceBit(p)))]
  <2>1. /\ bits[0][d] = <<Src(0, BitBase + d, 0), Src(0, BitBase + d, 1)>>
        /\ bits[1][d] = <<Src(1, BitBase + d, 0), Src(1, BitBase + d, 1)>>
    BY <1>3, <1>13 DEF Source, Shares
  <2> HIDE DEF d
  <2>2. /\ bits[0][d][1] = Src(0, BitBase + d, 0)
        /\ bits[1][d][1] = Src(1, BitBase + d, 0)
    BY <2>1
  <2>3. ConvertBit(x) = [i \in Shares |-> Both(Bit(i, (BitBase + d) * half + (x % half)))]
    BY <2>2 DEF ConvertBit, Src, d
  <2> QED
    BY <1>14, <2>3
<1>16. Item(Burst, n) = [i \in Shares |-> Both(Bit(i, SourceBit(p)))]
  <2>1. CASE ctl.dual
    <3>1. HalfWise
      BY <1>3, <2>1 DEF HalfWise
    <3>2. ASSUME NEW i \in Shares PROVE Product(i, o)[h + 1] = Bit(i, SourceBit(p))
      <4>1. Product(i, o) = <<Bit(i, SourceBit(2 * Place(o))), Bit(i, SourceBit(2 * Place(o) + 1))>>
        BY <2>1, ProductFacts
      <4> HIDE DEF o
      <4>2. CASE h = 0
        <5>1. p = 2 * Place(o)
          BY <1>7, <2>1, <4>2, DigitsRead, <1>2 DEF p
        <5> HIDE DEF h
        <5> QED
          BY <4>1, <4>2, <5>1
      <4>3. CASE h = 1
        <5>1. p = 2 * Place(o) + 1
          BY <2>1, <4>3 DEF p
        <5> HIDE DEF h
        <5> QED
          BY <4>1, <4>3, <5>1
      <4> QED
        BY <1>5, <4>2, <4>3
    <3> QED
      BY <2>1, <3>1, <3>2, ItemFacts
  <2>2. CASE ~ctl.dual
    <3>1. ~HalfWise
      BY <2>2 DEF HalfWise
    <3>2. ASSUME NEW i \in Shares PROVE Product(i, o) = Both(Bit(i, SourceBit(p)))
      BY <2>2, ProductFacts DEF p
    <3> QED
      BY <2>2, <3>1, <3>2, ItemFacts
  <2> QED
    BY <2>1, <2>2
<1> QED
  BY <1>15, <1>16 DEF x

\* MASK_SEND puts the right operands into the core.
LEMMA OperandIsItem ==
  ASSUME Regular, Asked, fsm.iter \in Nat, fsm.iter < drv.bursts, NEW n \in 0 .. Items - 1, Sendable(n)
  PROVE  Operand(n) = Item(Burst, n)
<1>1. HalfWise = dualprime /\ (ctl.onebit => ctl.op # "PRNG") /\ ctl.onebit \in BOOLEAN
      /\ BurstLen \in Nat /\ n \in Nat
  <2>1. HalfWise = dualprime /\ (ctl.onebit => ctl.op # "PRNG") /\ ctl.onebit \in BOOLEAN /\ BurstLen \in Nat
    BY AskedFacts
  <2>2. Items \in Nat
    BY <2>1 DEF Items
  <2> QED
    BY <2>1, <2>2
<1>2. n % 2 \in {0, 1}
  BY <1>1
<1> DEFINE h == n % 2
           k == n \div 2
<1>3. CASE ctl.op = "PRNG"
  <2>1. ASSUME NEW i \in Shares, NEW o PROVE Product(i, o) = Both(Random)
    BY <1>3, ProductFacts
  <2>2. Both(Random)[h + 1] = Random
    <3> HIDE DEF h
    <3> QED
      BY <1>2 DEF Both, h
  <2>3. Item(Burst, n) = [i \in Shares |-> Both(Random)]
    <3>1. CASE HalfWise
      BY <2>1, <2>2, <3>1, ItemFacts
    <3>2. CASE ~HalfWise
      BY <2>1, <3>2, ItemFacts
    <3> QED
      BY <3>1, <3>2
  <2> QED
    BY <1>3, <2>3 DEF Operand
<1>4. CASE ctl.op # "PRNG" /\ ctl.onebit
  <2>1. Operand(n) = ConvertBit(OneBitIndex(n))
    BY <1>4 DEF Operand
  <2> QED
    BY <1>4, <2>1, BitOperand DEF Sendable
<1>5. CASE ctl.op # "PRNG" /\ ~ctl.onebit /\ HalfWise
  <2>1. ASSUME NEW i \in Shares
        PROVE  Conv(i, shares[0][k][h + 1], shares[1][k][h + 1]) = Product(i, Burst + k)[h + 1]
    <3>1. /\ shares[0][k][h + 1] = Source(0, Burst + k)[h + 1]
          /\ shares[1][k][h + 1] = Source(1, Burst + k)[h + 1]
      BY <1>5 DEF Sendable, Shares
    <3>2. Product(i, Burst + k) = <<Out(i, Burst + k, 0), Out(i, Burst + k, 1)>>
      BY <1>5, ProductFacts
    <3>3. h + 1 \in {1, 2}
      BY <1>2
    <3> HIDE DEF h, k
    <3> QED
      BY <3>1, <3>2, <3>3, ConvIsOut
  <2>2. Item(Burst, n) = [i \in Shares |-> Both(Product(i, Burst + k)[h + 1])]
    BY <1>5, ItemFacts
  <2>3. Operand(n) = [i \in Shares |-> Both(Conv(i, shares[0][k][h + 1], shares[1][k][h + 1]))]
    BY <1>1, <1>5 DEF Operand
  <2> HIDE DEF h, k
  <2> QED
    BY <2>1, <2>2, <2>3
<1>6. CASE ctl.op # "PRNG" /\ ~ctl.onebit /\ ~HalfWise
  <2>1. shares[0][n] = Source(0, Burst + n) /\ shares[1][n] = Source(1, Burst + n)
    BY <1>6 DEF Sendable, Shares
  <2>2. Operand(n) = Convert(Source(0, Burst + n), Source(1, Burst + n))
    BY <1>1, <1>6, <2>1 DEF Operand
  <2>3. ASSUME NEW i \in Shares
        PROVE  <<Conv(i, Source(0, Burst + n)[1], Source(1, Burst + n)[1]), Conv(i, Source(0, Burst + n)[2], Source(1, Burst + n)[2])>>
               = Product(i, Burst + n)
    <3>1. Product(i, Burst + n) = <<Out(i, Burst + n, 0), Out(i, Burst + n, 1)>>
      BY <1>6, ProductFacts
    <3>2. /\ Conv(i, Source(0, Burst + n)[1], Source(1, Burst + n)[1]) = Out(i, Burst + n, 0)
          /\ Conv(i, Source(0, Burst + n)[2], Source(1, Burst + n)[2]) = Out(i, Burst + n, 1)
      BY ConvIsOut
    <3> QED
      BY <3>1, <3>2
  <2>4. Item(Burst, n) = [i \in Shares |-> Product(i, Burst + n)]
    BY <1>6, ItemFacts
  <2> QED
    BY <2>2, <2>3, <2>4 DEF Convert
<1> QED
  BY <1>1, <1>3, <1>4, <1>5, <1>6

-----------------------------------------------------------------------------
(* A cycle of the ports and of the core *)

\* While a call runs, the registers and what was asked for stay.
Same ==
    /\ ctl' = ctl /\ drv'.call = drv.call /\ drv'.bursts = drv.bursts /\ drv'.stride = drv.stride
    /\ drv'.inplace = drv.inplace

\* Then what depends on the mode stays.
LEMMA SameMode ==
  ASSUME Same
  PROVE  /\ HalfWise' = HalfWise /\ Items' = Items /\ Fetched' = Fetched /\ Latency' = Latency
         /\ Total' = Total /\ This' = This /\ NeverLate' = NeverLate /\ Batch' = Batch
         /\ dualprime' = dualprime /\ Asked' = Asked /\ Length' = Length
<1>1. HalfWise' = HalfWise /\ Items' = Items /\ Fetched' = Fetched /\ Total' = Total /\ This' = This
      /\ Batch' = Batch /\ dualprime' = dualprime /\ Length' = Length
  BY DEF Same, HalfWise, Items, Fetched, Total, This, Batch, dualprime, Length
<1>2. Latency' = Latency
  BY DEF Same, Latency
<1>3. NeverLate' = NeverLate
  BY DEF Same, NeverLate, RefLate
<1>4. Asked' = Asked
  BY <1>1 DEF Same, Asked, Lawful, Dst
<1> QED
  BY <1>1, <1>2, <1>3, <1>4

\* So does what the words of the result are to be.
LEMMA SameProducts ==
  ASSUME Same
  PROVE  /\ \A o : Place(o)' = Place(o) /\ OffAt(o)' = OffAt(o)
         /\ \A i, o : Product(i, o)' = Product(i, o)
         /\ \A b, m : Item(b, m)' = Item(b, m)
         /\ \A i, k : Source(i, k)' = Source(i, k)
         /\ \A i : Dst(i)' = Dst(i)
<1>1. This' = This /\ HalfWise' = HalfWise
  BY SameMode
<1>2. \A o : Place(o)' = Place(o) /\ OffAt(o)' = OffAt(o)
  BY DEF Same, Place, OffAt, OneBitGroup, OneBitRun, Step
<1>3. \A p : SourceBit(p)' = SourceBit(p)
  BY DEF Same, SourceBit
<1>4. \A i, k : Wanted(i, k)' = Wanted(i, k)
  BY <1>1, <1>3 DEF Same, Wanted
<1>5. \A i, o : Product(i, o)' = Product(i, o)
  BY <1>2, <1>4 DEF Product
<1>6. \A b, m : Item(b, m)' = Item(b, m)
  BY <1>1, <1>5 DEF Item
<1>7. \A i, k : Source(i, k)' = Source(i, k)
  BY DEF Same, Source
<1>8. \A i : Dst(i)' = Dst(i)
  BY <1>1 DEF Same, Dst
<1> QED
  BY <1>2, <1>5, <1>6, <1>7, <1>8

\* A cycle of the ports and of the core.
LEMMA PathStep ==
  ASSUME NEW reads, NEW writes, NEW datum, NEW first, Datapath(reads, writes, datum, first), ConvCycles \in Nat
  PROVE  /\ pipe'[1] = datum
         /\ \A n \in 2 .. MaxLatency : pipe'[n] = IF n <= Latency THEN pipe[n - 1] ELSE None
         /\ init_q' = (first \/ (init_q /\ pipe[Latency] = None))
         /\ \A i \in Shares : /\ dma'[i].data = dma[i].re
                              /\ dma'[i].re = IF i \in DOMAIN reads THEN mem[reads[i][1]][reads[i][2]] ELSE None
                              /\ dma'[i].wr = IF i \in DOMAIN writes THEN writes[i] ELSE None
         /\ mem' = Memory(reads)
<1>1. MaxLatency \in Nat /\ 1 \in 1 .. MaxLatency
  BY DEF MaxLatency
<1> QED
  BY <1>1 DEF Datapath, Reading

\* The addresses of the two ports.
LEMMA Ports ==
  /\ DOMAIN NoAccess = {}
  /\ \A i, x : DOMAIN Only(i, x) = {i} /\ Only(i, x)[i] = x
  BY DEF NoAccess, Only

\* The core has at least the two registers around it and one between.
LEMMA LatencyFacts ==
  ASSUME ConvCycles \in Nat \ {0}
  PROVE  /\ MaxLatency \in Nat /\ Latency \in 3 .. MaxLatency /\ (ctl.op = "PRNG" => Latency = 3)
  BY DEF MaxLatency, Latency

\* The destinations are two regions, and no other share's source.
LEMMA Destinations ==
  ASSUME Regular, Asked
  PROVE  /\ ctl.dout[1] \in Regions /\ (ctl.op # "PRNG" => ctl.dout[0] \in Regions)
         /\ ctl.dout[0] # ctl.dout[1]
         /\ ctl.dout[0] \in {"null", "a", "c"} /\ ctl.dout[1] \in {"b", "d"}
         /\ ctl.dout[0] = "a" \/ ctl.dout[1] = "b" => ~ctl.onebit
<1>1. ctl.dout[0] = Dst(0) /\ ctl.dout[1] = Dst(1) /\ This.op = ctl.op /\ This.onebit = ctl.onebit
  BY DEF Asked, Shares
<1>2. drv.inplace => ~ctl.onebit
  BY <1>1 DEF Asked
<1> QED
  BY <1>1, <1>2 DEF Dst, Regions

\* The buffers are long enough.
LEMMA WordsFacts ==
  ASSUME Regular, Asked, NEW k \in 0 .. Total - 1
  PROVE  k \in Words
<1>1. PICK n \in Bursts : \A m \in Bursts : m <= n
  BY DEF Regular
<1>2. drv.bursts \in Bursts /\ BurstLen \in Nat /\ Bursts \subseteq Nat \ {0} /\ Total \in Nat
  BY X2xAssumption, AskedFacts DEF Asked
<1>3. MaxOf(Bursts) \in Bursts /\ \A m \in Bursts : m <= MaxOf(Bursts)
  BY <1>1 DEF MaxOf
<1>4. drv.bursts \in Nat /\ MaxOf(Bursts) + 1 \in Nat /\ drv.bursts < MaxOf(Bursts) + 1
  <2> DEFINE x == MaxOf(Bursts)
  <2>1. x \in Nat
    BY <1>2, <1>3
  <2>2. drv.bursts <= x /\ drv.bursts \in Nat
    BY <1>2, <1>3
  <2> HIDE DEF x
  <2>3. drv.bursts \in Nat /\ x + 1 \in Nat /\ drv.bursts < x + 1
    BY <2>1, <2>2
  <2> QED
    BY <2>3 DEF x
<1> DEFINE M == MaxOf(Bursts) + 1
<1> HIDE DEF M
<1>5. drv.bursts * BurstLen + BurstLen <= M * BurstLen /\ M * BurstLen \in Nat /\ drv.bursts * BurstLen \in Nat
  BY <1>2, <1>4, Times DEF M
<1>6. k \in 0 .. M * BurstLen - 1
  BY <1>2, <1>5 DEF Total
<1> QED
  BY <1>6 DEF Words, M

Shaped(m) == DOMAIN m = Regions /\ \A r \in Regions : DOMAIN m[r] = Words

\* What one port does to a memory.
LEMMA WriteOne ==
  ASSUME NEW m, Shaped(m), NEW i \in Shares, NEW reads,
         NEW r0 \in Regions, NEW k0 \in Words, NEW w, Pending(i) => dma[i].wr = <<r0, k0, w>>,
         i \in DOMAIN reads => ~Pending(i)
  PROVE  /\ Shaped(Write(m, i, reads))
         /\ Pending(i) => Write(m, i, reads)[r0][k0] = w
         /\ \A r \in Regions, k \in Words : ~(Pending(i) /\ r = r0 /\ k = k0) => Write(m, i, reads)[r][k] = m[r][k]
<1>1. CASE Pending(i)
  <2>1. Write(m, i, reads) = [m EXCEPT ![r0][k0] = w]
    <3> DEFINE x == dma[i].wr
    <3>1. x[1] = r0 /\ x[2] = k0 /\ x[3] = w
      BY <1>1
    <3>2. Write(m, i, reads) = [m EXCEPT ![x[1]][x[2]] = x[3]]
      BY <1>1 DEF Write, Writing, Reading, Pending
    <3> HIDE DEF x
    <3> QED
      BY <3>1, <3>2
  <2> DEFINE m1 == [m EXCEPT ![r0][k0] = w]
  <2>2. DOMAIN m1 = Regions /\ \A r \in Regions : m1[r] = IF r = r0 THEN [m[r] EXCEPT ![k0] = w] ELSE m[r]
    BY DEF Shaped
  <2> HIDE DEF m1
  <2>3. Shaped(m1)
    BY <2>2 DEF Shaped
  <2>4. m1[r0][k0] = w
    BY <2>2 DEF Shaped
  <2>5. \A r \in Regions, k \in Words : ~(r = r0 /\ k = k0) => m1[r][k] = m[r][k]
    BY <2>2 DEF Shaped
  <2> QED
    BY <1>1, <2>1, <2>3, <2>4, <2>5 DEF m1
<1>2. CASE ~Pending(i)
  <2>1. Write(m, i, reads) = m
    BY <1>2 DEF Write, Writing, Pending
  <2> QED
    BY <1>2, <2>1
<1> QED
  BY <1>1, <1>2

\* A port without a word writes nothing.
LEMMA WriteNone ==
  ASSUME NEW m, NEW i, NEW reads, ~Pending(i)
  PROVE  Write(m, i, reads) = m
  BY DEF Write, Writing, Pending

\* After a cycle the words that waited at the ports are written, and nothing else is.
LEMMA MemStep ==
  ASSUME Regular, Asked, Shaped(mem), NEW n, MemHolds(n), ctl.op = "PRNG" => n[0] = 0,
         NEW reads, \A i \in Shares : i \in DOMAIN reads => ~Pending(i),
         drv.pc # "idle", mem' = Memory(reads)
  PROVE  /\ Shaped(mem')
         /\ \A i \in Shares : Pending(i) => mem'[ctl.dout[i]][Place(n[i] - 1)] = Product(i, n[i] - 1)
         /\ \A r \in Regions, k \in Words :
              (\A i \in Shares : Pending(i) => ~(r = ctl.dout[i] /\ k = Place(n[i] - 1))) => mem'[r][k] = mem[r][k]
<1> DEFINE m0 == Write(mem, 0, reads)
           m1 == Write(m0, 1, reads)
           p(i) == Place(n[i] - 1)
           w(i) == Product(i, n[i] - 1)
<1>1. mem' = m1
  BY DEF Memory
<1>2. ASSUME NEW i \in Shares, Pending(i)
      PROVE  ctl.dout[i] \in Regions /\ p(i) \in Words /\ dma[i].wr = <<ctl.dout[i], p(i), w(i)>>
  <2>1. n[i] \in 0 .. Total /\ n[i] > 0 /\ dma[i].wr = <<ctl.dout[i], p(i), w(i)>>
    BY <1>2 DEF MemHolds
  <2>2. Total \in Nat
    BY AskedFacts
  <2>3. n[i] - 1 \in 0 .. Total - 1
    BY <2>1, <2>2
  <2>4. p(i) \in Words
    BY <2>3, PlaceRange, WordsFacts
  <2>5. ctl.dout[i] \in Regions
    BY <2>1, Destinations DEF Shares
  <2> QED
    BY <2>1, <2>4, <2>5
<1> HIDE DEF p, w
<1>3. /\ Shaped(m0)
      /\ Pending(0) => m0[ctl.dout[0]][p(0)] = w(0)
      /\ \A r \in Regions, k \in Words : ~(Pending(0) /\ r = ctl.dout[0] /\ k = p(0)) => m0[r][k] = mem[r][k]
  <2>1. CASE Pending(0)
    BY <1>2, <2>1, WriteOne DEF Shares
  <2>2. CASE ~Pending(0)
    BY <2>2, WriteNone
  <2> QED
    BY <2>1, <2>2
<1> HIDE DEF m0
<1>4. /\ Shaped(m1)
      /\ Pending(1) => m1[ctl.dout[1]][p(1)] = w(1)
      /\ \A r \in Regions, k \in Words : ~(Pending(1) /\ r = ctl.dout[1] /\ k = p(1)) => m1[r][k] = m0[r][k]
  <2>1. CASE Pending(1)
    BY <1>2, <1>3, <2>1, WriteOne DEF Shares
  <2>2. CASE ~Pending(1)
    BY <1>3, <2>2, WriteNone
  <2> QED
    BY <2>1, <2>2
<1> HIDE DEF m1
<1>5. ctl.dout[0] # ctl.dout[1]
  BY Destinations
<1>6. ASSUME NEW i \in Shares, Pending(i) PROVE m1[ctl.dout[i]][p(i)] = w(i)
  <2>1. CASE i = 1
    BY <1>4, <1>6, <2>1
  <2>2. CASE i = 0
    BY <1>2, <1>3, <1>4, <1>5, <1>6, <2>2
  <2> QED
    BY <2>1, <2>2 DEF Shares
<1>7. ASSUME NEW r \in Regions, NEW k \in Words,
             \A i \in Shares : Pending(i) => ~(r = ctl.dout[i] /\ k = p(i))
      PROVE  m1[r][k] = mem[r][k]
  BY <1>3, <1>4, <1>7 DEF Shares
<1> QED
  BY <1>1, <1>4, <1>6, <1>7 DEF p, w

\* The contents after a cycle in which a port takes one more word, or none does.
LEMMA MemHoldsStep ==
  ASSUME Regular, Asked, Shaped(mem), NEW n, MemHolds(n), ctl.op = "PRNG" => n[0] = 0,
         NEW reads, \A i \in Shares : i \in DOMAIN reads => ~Pending(i),
         drv.pc # "idle", mem' = Memory(reads), Same,
         NEW m, \A i \in Shares : \/ m[i] = n[i] /\ dma'[i].wr = None
                                  \/ /\ m[i] = n[i] + 1 /\ n[i] < Total
                                     /\ dma'[i].wr = <<ctl.dout[i], Place(n[i]), Product(i, n[i])>>
  PROVE  MemHolds(m)' /\ Shaped(mem')
<1>1. /\ Shaped(mem')
      /\ \A i \in Shares : Pending(i) => mem'[ctl.dout[i]][Place(n[i] - 1)] = Product(i, n[i] - 1)
      /\ \A r \in Regions, k \in Words :
              (\A i \in Shares : Pending(i) => ~(r = ctl.dout[i] /\ k = Place(n[i] - 1))) => mem'[r][k] = mem[r][k]
  BY MemStep
<1>2. /\ Total' = Total /\ ctl' = ctl /\ (\A o : Place(o)' = Place(o)) /\ (\A i, o : Product(i, o)' = Product(i, o))
      /\ \A r \in Regions, k \in Words : Fresh[r][k]' = Fresh[r][k]
  BY SameMode, SameProducts DEF Same
<1>3. Total \in Nat /\ \A i \in Shares : n[i] \in 0 .. Total
  BY AskedFacts DEF MemHolds
<1>4. \A i \in Shares : m[i] \in 0 .. Total
  BY <1>3
<1>5. \A i \in Shares : Pending(i)' => /\ m[i] > 0
                                       /\ dma'[i].wr = <<ctl.dout[i], Place(m[i] - 1), Product(i, m[i] - 1)>>
  <2> SUFFICES ASSUME NEW i \in Shares, Pending(i)'
               PROVE  m[i] > 0 /\ dma'[i].wr = <<ctl.dout[i], Place(m[i] - 1), Product(i, m[i] - 1)>>
    OBVIOUS
  <2>1. /\ m[i] = n[i] + 1 /\ dma'[i].wr = <<ctl.dout[i], Place(n[i]), Product(i, n[i])>>
    BY DEF Pending
  <2>2. m[i] - 1 = n[i] /\ m[i] > 0
    BY <1>3, <2>1
  <2> QED
    BY <2>1, <2>2
<1>6. ASSUME NEW i \in Shares, NEW o \in 0 .. Total - 1, o < m[i], Pending(i)' => o # m[i] - 1
      PROVE  mem'[ctl.dout[i]][Place(o)] = Product(i, o)
  <2>1. o < n[i]
    <3>1. CASE m[i] = n[i]
      BY <1>6, <3>1
    <3>2. CASE m[i] = n[i] + 1 /\ dma'[i].wr = <<ctl.dout[i], Place(n[i]), Product(i, n[i])>>
      <4>1. Pending(i)'
        BY <3>2 DEF Pending, None
      <4> QED
        BY <1>3, <1>6, <3>2, <4>1
    <3> QED
      BY <3>1, <3>2
  <2>2. Place(o) \in 0 .. Total - 1
    BY PlaceRange
  <2>3. Place(o) \in Words /\ ctl.dout[i] \in Regions
    BY <2>1, <2>2, <1>3, WordsFacts, Destinations DEF Shares
  <2>4. CASE Pending(i) /\ o = n[i] - 1
    BY <1>1, <2>4
  <2>5. CASE ~(Pending(i) /\ o = n[i] - 1)
    <3>1. mem[ctl.dout[i]][Place(o)] = Product(i, o)
      BY <2>1, <2>5 DEF MemHolds
    <3>2. ASSUME NEW j \in Shares, Pending(j) PROVE ~(ctl.dout[i] = ctl.dout[j] /\ Place(o) = Place(n[j] - 1))
      <4>1. CASE j # i
        BY <4>1, Destinations DEF Shares
      <4>2. CASE j = i
        <5>1. n[i] - 1 \in 0 .. Total - 1 /\ o # n[i] - 1
          BY <1>3, <2>5, <3>2, <4>2 DEF MemHolds
        <5> QED
          BY <4>2, <5>1, PlaceInjective
      <4> QED
        BY <4>1, <4>2
    <3> QED
      BY <1>1, <2>3, <3>1, <3>2
  <2> QED
    BY <2>4, <2>5
<1>7. ASSUME NEW r \in Regions, NEW k \in Words,
             \A i \in Shares, o \in 0 .. Total - 1 : ~(o < m[i] /\ ctl.dout[i] = r /\ Place(o) = k)
      PROVE  mem'[r][k] = Fresh[r][k]
  <2>1. \A i \in Shares, o \in 0 .. Total - 1 : ~(o < n[i] /\ ctl.dout[i] = r /\ Place(o) = k)
    <3> SUFFICES ASSUME NEW i \in Shares, NEW o \in 0 .. Total - 1, o < n[i], ctl.dout[i] = r, Place(o) = k
                 PROVE  FALSE
      OBVIOUS
    <3>1. o < m[i]
      BY <1>3
    <3> QED
      BY <1>7, <3>1
  <2>2. mem[r][k] = Fresh[r][k]
    BY <2>1 DEF MemHolds
  <2>3. ASSUME NEW i \in Shares, Pending(i) PROVE ~(r = ctl.dout[i] /\ k = Place(n[i] - 1))
    <3>1. n[i] - 1 \in 0 .. Total - 1 /\ n[i] - 1 < n[i]
      BY <1>3, <2>3 DEF MemHolds
    <3> QED
      BY <2>1, <3>1
  <2> QED
    BY <1>1, <2>2, <2>3
<1>8. MemHolds(m)'
  BY <1>2, <1>4, <1>5, <1>6, <1>7 DEF MemHolds
<1> QED
  BY <1>1, <1>8

\* The column offsets are numbers.
LEMMA OffsetType ==
  ASSUME Regular, Asked, NEW o \in Nat
  PROVE  OffAt(o) \in Nat
<1>1. CASE ~ctl.onebit
  BY <1>1 DEF OffAt
<1>2. CASE ctl.onebit
  <2>1. PICK s, q, r : Table(s, q, r)
    BY <1>2, Layout
  <2>2. s \in Nat \ {0} /\ q \in Nat \ {0} /\ r \in Nat \ {0} /\ OneBitGroup = s * r /\ OneBitRun = r /\ Step = q * r
    BY <2>1 DEF Table
  <2> DEFINE g == s * r
             l == o % g
             c == l \div r
  <2>3. g \in Nat \ {0}
    BY <2>2
  <2> HIDE DEF g
  <2>4. l \in Nat
    BY <2>3
  <2> HIDE DEF l
  <2>5. c \in Nat
    BY <2>2, <2>4
  <2> HIDE DEF c
  <2>6. c * (q * r) \in Nat
    BY <2>2, <2>5
  <2>7. OffAt(o) = c * (q * r)
    BY <1>2, <2>2 DEF OffAt, c, l, g
  <2> QED
    BY <2>6, <2>7
<1> QED
  BY <1>1, <1>2

Steady == Regular /\ Types /\ Asked /\ Same /\ drv.pc # "idle"

\* A cycle in which no port takes a word.
LEMMA ProgressQuiet ==
  ASSUME Steady, NEW n, Progress(n), ctl.op = "PRNG" => n[0] = 0,
         NEW reads, \A i \in Shares : i \in DOMAIN reads => ~Pending(i),
         mem' = Memory(reads), \A i \in Shares : dma'[i].wr = None, fsm'.off = fsm.off
  PROVE  Progress(n)' /\ Shaped(mem') /\ NotPut'
<1>1. Shaped(mem)
  BY DEF Steady, Types, StoreType, Shaped
<1>2. MemHolds(n)' /\ Shaped(mem')
  BY <1>1, MemHoldsStep DEF Steady, Progress
<1>3. \A i \in Shares : fsm'.off[i] = OffAt(n[i])'
  BY SameProducts DEF Steady, Progress
<1> QED
  BY <1>2, <1>3 DEF Progress, NotPut, Pending

\* A cycle in which port j takes word number k of the burst.
LEMMA ProgressWrite ==
  ASSUME Steady, NEW n, Progress(n), ctl.op = "PRNG" => n[0] = 0,
         mem' = Memory(NoAccess),
         NEW j \in Shares, NEW k, n[j] = ctr_array + k, n[j] < Total,
         \A i \in Shares : i # j => dma'[i].wr = None,
         dma'[j].wr = <<ctl.dout[j], OutAddr(k, fsm.off[j]), Product(j, n[j])>>,
         fsm'.off = [fsm.off EXCEPT ![j] = NextOff(k, @)],
         NEW m, \A i \in Shares : m[i] = IF i = j THEN n[i] + 1 ELSE n[i]
  PROVE  Progress(m)' /\ Shaped(mem') /\ fsm'.off \in [Shares -> Nat]
<1>1. Shaped(mem) /\ Regular /\ Asked /\ Same /\ drv.pc # "idle" /\ fsm.off \in [Shares -> Nat]
  BY DEF Steady, Types, StoreType, FsmType, Shaped
<1>2. MemHolds(n) /\ \A i \in Shares : fsm.off[i] = OffAt(n[i])
  BY DEF Progress
<1>3. Total \in Nat /\ n[j] \in 0 .. Total - 1
  BY <1>1, <1>2, AskedFacts DEF MemHolds
<1>4. OutAddr(k, fsm.off[j]) = Place(n[j]) /\ NextOff(k, fsm.off[j]) = OffAt(n[j] + 1)
  BY <1>1, <1>2, <1>3, OutAddrIsPlace, NextOffIsOffAt
<1>5. MemHolds(m)' /\ Shaped(mem')
  <2>1. \A i \in Shares : i \in DOMAIN NoAccess => ~Pending(i)
    BY Ports
  <2>2. \A i \in Shares : \/ m[i] = n[i] /\ dma'[i].wr = None
                          \/ /\ m[i] = n[i] + 1 /\ n[i] < Total
                             /\ dma'[i].wr = <<ctl.dout[i], Place(n[i]), Product(i, n[i])>>
    BY <1>4
  <2> QED
    BY <1>1, <1>2, <2>1, <2>2, MemHoldsStep
<1>6. OffAt(n[j] + 1) \in Nat
  BY <1>1, <1>3, OffsetType
<1>7. fsm'.off \in [Shares -> Nat] /\ \A i \in Shares : fsm'.off[i] = OffAt(m[i])
  BY <1>1, <1>2, <1>4, <1>6
<1>8. \A i \in Shares : fsm'.off[i] = OffAt(m[i])'
  BY <1>1, <1>7, SameProducts
<1> QED
  BY <1>5, <1>7, <1>8 DEF Progress

\* A cycle in which nothing enters the core.
LEMMA PipeQuiet ==
  ASSUME Steady, NEW reads, NEW writes, Datapath(reads, writes, None, FALSE)
  PROVE  /\ ~init_q => ~init_q'
         /\ Beyond' /\ pipe'[1] = None
         /\ Clear => Clear'
<1>1. ConvCycles \in Nat \ {0} /\ init_q \in BOOLEAN
  BY X2xAssumption DEF Steady, Types, FlagType
<1>2. Latency' = Latency /\ Latency \in 3 .. MaxLatency /\ MaxLatency \in Nat
  BY <1>1, LatencyFacts, SameMode DEF Steady
<1>3. /\ pipe'[1] = None
      /\ \A n \in 2 .. MaxLatency : pipe'[n] = IF n <= Latency THEN pipe[n - 1] ELSE None
      /\ init_q' = (FALSE \/ (init_q /\ pipe[Latency] = None))
  BY <1>1, PathStep
<1>4. Beyond'
  BY <1>2, <1>3 DEF Beyond
<1>5. ASSUME Clear PROVE Clear'
  <2> SUFFICES ASSUME NEW n \in 1 .. MaxLatency PROVE pipe'[n] = None
    BY DEF Clear
  <2>1. CASE n = 1
    BY <1>3, <2>1
  <2>2. CASE n # 1
    <3>1. n \in 2 .. MaxLatency /\ n - 1 \in 1 .. MaxLatency
      BY <1>2, <2>2
    <3> QED
      BY <1>3, <1>5, <3>1 DEF Clear
  <2> QED
    BY <2>1, <2>2
<1> QED
  BY <1>1, <1>3, <1>4, <1>5

\* A cycle in which nothing is read and nothing written.
LEMMA PortsQuiet ==
  ASSUME NEW datum, NEW first, Datapath(NoAccess, NoAccess, datum, first)
  PROVE  /\ mem' = Memory(NoAccess)
         /\ \A i \in Shares : dma'[i].data = dma[i].re /\ dma'[i].re = None /\ dma'[i].wr = None
<1>1. ConvCycles \in Nat
  BY X2xAssumption
<1>2. mem' = Memory(NoAccess)
  BY <1>1, PathStep
<1>3. \A i \in Shares : /\ dma'[i].data = dma[i].re
                        /\ dma'[i].re = IF i \in DOMAIN NoAccess THEN mem[NoAccess[i][1]][NoAccess[i][2]] ELSE None
                        /\ dma'[i].wr = IF i \in DOMAIN NoAccess THEN NoAccess[i] ELSE None
  BY <1>1, PathStep
<1> QED
  BY <1>2, <1>3, Ports

\* DELAY leads to the next fetch, with the last word written.
LEMMA DelayKeeps ==
  ASSUME Steady, fsm.st = "DELAY", InDelay, Delay
  PROVE  fsm'.st = "FETCH_DATA_0" /\ InFetch0' /\ FsmType' /\ StoreType'
<1>1. /\ fsm' = [fsm EXCEPT !.st = "FETCH_DATA_0"] /\ FsmType
      /\ Datapath(NoAccess, NoAccess, None, FALSE) /\ UNCHANGED <<shares, bits>>
  BY DEF Delay, Steady, Types
<1>2. /\ FsmType' /\ fsm'.st = "FETCH_DATA_0" /\ fsm'.r_mem = 0 /\ fsm'.r_reg = 0 /\ fsm'.w_mem = 0
      /\ fsm'.w_reg = 0 /\ fsm'.iter = fsm.iter /\ fsm'.off = fsm.off
  BY <1>1 DEF FsmType, InDelay, Counted, FsmStates
<1>4. /\ \A i \in Shares : dma'[i].data = None /\ dma'[i].re = None /\ dma'[i].wr = None
      /\ mem' = Memory(NoAccess)
  BY <1>1, PortsQuiet DEF InDelay, NoData, Shares
<1>5. Burst' = Burst /\ Running' = Running /\ GroupStarts' = GroupStarts
  BY <1>2, SameMode DEF Burst, Running, GroupStarts, Steady, Same
<1>6. Progress(Put2(Burst, Burst))' /\ Shaped(mem') /\ NotPut'
  <2>0. PICK n : n = Put2(Burst, Burst)
    OBVIOUS
  <2>1. Progress(n) /\ (ctl.op = "PRNG" => n[0] = 0)
    BY <2>0 DEF InDelay
  <2>2. \A i \in Shares : i \in DOMAIN NoAccess => ~Pending(i)
    BY Ports
  <2>3. Put2(Burst, Burst)' = n
    BY <1>5, <2>0
  <2>4. Progress(n)' /\ Shaped(mem') /\ NotPut'
    BY <1>2, <1>4, <2>1, <2>2, ProgressQuiet
  <2> QED
    BY <2>3, <2>4
<1>7. /\ ctl.op' = ctl.op /\ ~init_q' /\ Clear' /\ StoreType'
      /\ fsm'.r_mem <= Fetched' /\ fsm'.w_mem < Fetched'
  <2>1. ~init_q' /\ Clear'
    BY <1>1, PipeQuiet DEF InDelay
  <2>2. StoreType'
    BY <1>1, <1>6 DEF StoreType, Shaped, Steady, Types
  <2>3. 0 <= Fetched' /\ 0 < Fetched'
    <3>1. Fetched \in Nat /\ 0 < Fetched /\ Fetched' = Fetched
      BY SameMode, X2xAssumption DEF Fetched, Steady
    <3> QED
      BY <3>1
  <2> QED
    BY <1>2, <2>1, <2>2, <2>3 DEF Steady, Same
<1>8. (Coming(0) /\ Took(0, fsm.w_mem) /\ NoData(1))'
  BY <1>2, <1>4 DEF Coming, Took, NoData, One, Shares
<1> QED
  BY <1>2, <1>5, <1>6, <1>7, <1>8 DEF InFetch0, InDelay

\* DONE leads to rest, with the result in memory.
LEMMA DoneKeeps ==
  ASSUME Steady, fsm.st = "DONE", InDone, Done
  PROVE  /\ fsm' = FsmStart /\ FsmType' /\ StoreType'
         /\ NotPut' /\ NoData(0)' /\ NoData(1)' /\ ~init_q' /\ Finished'
         /\ \A n \in 1 .. MaxLatency : n # 3 => pipe'[n] = None
         /\ pipe'[3] # None => ctl'.op = "PRNG"
<1>1. /\ fsm' = FsmStart /\ FsmType
      /\ Datapath(NoAccess, NoAccess, None, FALSE) /\ UNCHANGED <<shares, bits>>
  BY DEF Done, Steady, Types
<1>2. FsmType'
  BY <1>1 DEF FsmType, FsmStart, FsmStates
<1>3. /\ \A i \in Shares : dma'[i].data = None /\ dma'[i].re = None /\ dma'[i].wr = None
      /\ mem' = Memory(NoAccess)
  BY <1>1, PortsQuiet DEF InDone, NoData, Shares
<1>4. PICK n : n = Put2(IF ctl.op = "PRNG" THEN 0 ELSE Total, Total)
  OBVIOUS
<1>5. MemHolds(n)' /\ Shaped(mem') /\ NotPut'
  <2>1. MemHolds(n) /\ (ctl.op = "PRNG" => n[0] = 0) /\ Shaped(mem)
    BY <1>4 DEF InDone, Progress, Put2, Shares, Steady, Types, StoreType, Shaped
  <2>2. \A i \in Shares : i \in DOMAIN NoAccess => ~Pending(i)
    BY Ports
  <2> QED
    BY <1>3, <2>1, <2>2, MemHoldsStep DEF Steady, NotPut, Pending
<1>6. Finished'
  <2>1. Put2(IF ctl.op = "PRNG" THEN 0 ELSE Total, Total)' = n /\ Asked'
    BY <1>4, SameMode DEF Steady, Same
  <2> QED
    BY <1>5, <2>1 DEF Finished
<1>7. ~init_q' /\ pipe'[1] = None
  BY <1>1, PipeQuiet DEF InDone
<1>8. /\ \A k \in 2 .. MaxLatency : pipe'[k] = IF k <= Latency THEN pipe[k - 1] ELSE None
      /\ MaxLatency \in Nat /\ Latency \in 3 .. MaxLatency /\ (ctl.op = "PRNG" => Latency = 3)
  BY <1>1, PathStep, LatencyFacts, X2xAssumption
<1>9. ASSUME NEW m \in 1 .. MaxLatency, m # 3 PROVE pipe'[m] = None
  <2>1. CASE m = 1
    BY <1>7, <2>1
  <2>2. CASE m = 2
    BY <1>8, <2>2 DEF InDone
  <2>3. CASE m > 3 /\ ctl.op = "PRNG"
    BY <1>8, <2>3
  <2>4. CASE m > 3 /\ ctl.op # "PRNG"
    <3>1. m - 1 \in 1 .. MaxLatency /\ m \in 2 .. MaxLatency
      BY <1>8, <2>4
    <3>2. pipe[m - 1] = None
      BY <2>4, <3>1 DEF InDone, Clear
    <3> QED
      BY <1>8, <3>1, <3>2
  <2> QED
    BY <1>8, <1>9, <2>1, <2>2, <2>3, <2>4
<1>10. pipe'[3] # None => ctl'.op = "PRNG"
  <2>1. CASE ctl.op # "PRNG"
    <3>1. pipe[2] = None /\ 3 \in 2 .. MaxLatency
      BY <1>8, <2>1 DEF InDone, Clear
    <3> QED
      BY <1>8, <3>1
  <2> QED
    BY <2>1 DEF Steady, Same
<1>11. StoreType'
  BY <1>1, <1>5 DEF StoreType, Shaped, Steady, Types
<1> QED
  BY <1>1, <1>2, <1>3, <1>5, <1>6, <1>7, <1>9, <1>10, <1>11 DEF NoData, Shares

-----------------------------------------------------------------------------
(* The states that fetch *)

\* A share's words that are fetched fit into its registers.
LEMMA FetchedFacts ==
  ASSUME Regular, Asked
  PROVE  /\ BurstLen \in Nat /\ BurstLen >= 3 /\ Fetched \in Nat /\ 2 <= Fetched /\ Fetched <= BurstLen
         /\ ctl.onebit => Fetched = 2
         /\ ~ctl.onebit => Fetched = BurstLen
  BY AskedFacts DEF Fetched

\* The counters do not wrap within a burst.
LEMMA IncIsNext ==
  ASSUME BurstLen \in Nat, NEW n \in Nat, n + 1 < 2 * BurstLen
  PROVE  Inc(n) = n + 1
  BY DEF Inc

\* A word of a source that is read is not yet overwritten.
LEMMA FetchWord ==
  ASSUME Steady, NEW i \in Shares, i = 1 => ~ctl.share, ctl.op # "PRNG", Running, GroupStarts,
         Progress(Put2(Burst, Burst)), NotPut, fsm.r_mem < Fetched
  PROVE  mem[ctl.din[i]][FetchAddr] = Source(i, FetchBase + fsm.r_mem)
<1>1. /\ fsm.iter \in Nat /\ fsm.r_mem \in Nat /\ fsm.iter < drv.bursts /\ Regular /\ Asked
      /\ drv.bursts \in Nat /\ BurstLen \in Nat /\ BurstLen >= 3 /\ Total \in Nat
  BY AskedFacts DEF Steady, Types, FsmType, Running
<1>2. Burst \in Nat /\ Burst + BurstLen <= Total /\ ctr_array = Burst
  BY <1>1, BurstFacts
<1>3. FetchAddr = FetchBase + fsm.r_mem
  BY <1>2 DEF FetchAddr, FetchBase
<1> DEFINE k == FetchBase + fsm.r_mem
           r == ctl.din[i]
<1>4. k \in Words
  <2>1. CASE ~ctl.onebit
    <3>1. k = Burst + fsm.r_mem /\ fsm.r_mem < BurstLen
      BY <2>1, FetchedFacts, <1>1 DEF FetchBase
    <3>2. k \in 0 .. Total - 1
      BY <1>1, <1>2, <3>1
    <3> HIDE DEF k
    <3> QED
      BY <1>1, <3>2, WordsFacts
  <2>2. CASE ctl.onebit
    <3>1. FetchBase \in Nat /\ FetchBase <= fsm.iter
      BY <1>1, <2>2 DEF FetchBase
    <3>2. fsm.iter + 3 <= Total
      <4>1. (fsm.iter + 1) * BurstLen <= Total
        BY <1>1, BurstFacts
      <4> DEFINE j == fsm.iter + 1
      <4>2. j \in Nat /\ j >= 1
        BY <1>1
      <4>3. j * BurstLen >= j + 2
        <5> HIDE DEF j
        <5>1. (j - 1) * (BurstLen - 1) >= 0 /\ (j - 1) * (BurstLen - 1) = j * BurstLen - j - BurstLen + 1
          BY <1>1, <4>2
        <5>2. j * BurstLen \in Nat
          BY <1>1, <4>2
        <5> QED
          BY <1>1, <4>2, <5>1, <5>2
      <4> QED
        BY <1>1, <4>1, <4>3
    <3>3. fsm.r_mem < 2
      BY <1>1, <2>2, FetchedFacts
    <3>4. k \in 0 .. Total - 1
      BY <1>1, <3>1, <3>2, <3>3
    <3> HIDE DEF k
    <3> QED
      BY <1>1, <3>4, WordsFacts
  <2> QED
    BY <2>1, <2>2
<1>5. r = (IF i = 0 THEN "a" ELSE "b") /\ r \in Regions
  BY <1>1 DEF Asked, Regions, Shares
<1>6. mem[r][k] = Fresh[r][k]
  <2>0. PICK n : n = Put2(Burst, Burst)
    OBVIOUS
  <2>1. MemHolds(n) /\ n[0] = Burst /\ n[1] = Burst
    BY <2>0 DEF Progress, Put2, Shares
  <2>2. ASSUME NEW j \in Shares, NEW o \in 0 .. Total - 1, o < n[j], ctl.dout[j] = r, Place(o) = k
        PROVE  FALSE
    <3>1. ~ctl.onebit
      BY <1>1, <1>5, <2>2, Destinations DEF Shares
    <3>2. k = Burst + fsm.r_mem /\ Place(o) = o
      BY <3>1 DEF FetchBase, Place
    <3>3. o < Burst
      BY <2>1, <2>2 DEF Shares
    <3> QED
      BY <1>1, <1>2, <2>2, <3>2, <3>3
  <2> HIDE DEF k, r
  <2> QED
    BY <1>4, <1>5, <2>1, <2>2 DEF MemHolds
<1>7. Fresh[r][k] = Source(i, k)
  <2> HIDE DEF k, r
  <2> QED
    BY <1>4, <1>5 DEF Fresh, Source, Shares
<1> QED
  BY <1>3, <1>6, <1>7

\* A cycle of a port that reads.
LEMMA FetchTurn ==
  ASSUME Steady, NEW i \in Shares, i = 1 => ~ctl.share, ctl.op # "PRNG", Running, GroupStarts,
         Progress(Put2(Burst, Burst)), NotPut,
         NEW datum, NEW first, Datapath(Request(i), NoAccess, datum, first), fsm'.off = fsm.off, fsm'.iter = fsm.iter
  PROVE  /\ dma'[i].data = dma[i].re
         /\ dma'[i].re = IF fsm.r_mem < Fetched THEN Source(i, FetchBase + fsm.r_mem) ELSE None
         /\ \A j \in Shares : j # i => dma'[j].data = dma[j].re /\ dma'[j].re = None
         /\ Progress(Put2(Burst, Burst))' /\ Shaped(mem') /\ NotPut' /\ Running' /\ GroupStarts'
<1>1. ConvCycles \in Nat
  BY X2xAssumption
<1>2. /\ \A j \in Shares : /\ dma'[j].data = dma[j].re
                           /\ dma'[j].re = IF j \in DOMAIN Request(i) THEN mem[Request(i)[j][1]][Request(i)[j][2]] ELSE None
                           /\ dma'[j].wr = IF j \in DOMAIN NoAccess THEN NoAccess[j] ELSE None
      /\ mem' = Memory(Request(i))
  BY <1>1, PathStep
<1>3. \A j \in Shares : dma'[j].wr = None
  BY <1>2, Ports
<1>4. /\ fsm.r_mem < Fetched => DOMAIN Request(i) = {i} /\ Request(i)[i] = <<ctl.din[i], FetchAddr>>
      /\ ~(fsm.r_mem < Fetched) => DOMAIN Request(i) = {}
  BY Ports DEF Request
<1>5. dma'[i].re = IF fsm.r_mem < Fetched THEN Source(i, FetchBase + fsm.r_mem) ELSE None
  BY <1>2, <1>4, FetchWord
<1>6. \A j \in Shares : j # i => dma'[j].data = dma[j].re /\ dma'[j].re = None
  BY <1>2, <1>4
<1>7. Burst' = Burst /\ Running' = Running /\ GroupStarts' = GroupStarts
  BY SameMode DEF Burst, Running, GroupStarts, Steady, Same
<1>8. Progress(Put2(Burst, Burst))' /\ Shaped(mem') /\ NotPut'
  <2>0. PICK n : n = Put2(Burst, Burst)
    OBVIOUS
  <2>1. Progress(n) /\ (ctl.op = "PRNG" => n[0] = 0)
    BY <2>0
  <2>2. \A j \in Shares : j \in DOMAIN Request(i) => ~Pending(j)
    BY DEF NotPut
  <2>3. Put2(Burst, Burst)' = n
    BY <1>7, <2>0
  <2>4. Progress(n)' /\ Shaped(mem') /\ NotPut'
    BY <1>2, <1>3, <2>1, <2>2, ProgressQuiet
  <2> QED
    BY <2>3, <2>4
<1> QED
  BY <1>2, <1>5, <1>6, <1>7, <1>8

\* The words arrive in order.
LEMMA ComingOn ==
  ASSUME Steady, NEW i \in Shares, fsm.r_mem \in Nat, fsm.w_mem \in Nat, fsm.r_mem <= Fetched, fsm.w_mem < Fetched, Coming(i),
         dma'[i].data = dma[i].re,
         dma'[i].re = IF fsm.r_mem < Fetched THEN Source(i, FetchBase + fsm.r_mem) ELSE None,
         fsm'.iter = fsm.iter
  PROVE  /\ dma[i].data # None => dma[i].data = Source(i, FetchBase + fsm.w_mem)
         /\ dma[i].data # None /\ fsm.w_mem = Fetched - 1 => dma'[i].data = None /\ dma'[i].re = None
         /\ /\ fsm'.r_mem = Requested
            /\ fsm'.w_mem = IF dma[i].data # None THEN Inc(fsm.w_mem) ELSE fsm.w_mem
            => Coming(i)' /\ fsm'.r_mem <= Fetched /\ (dma[i].data # None => fsm'.w_mem = fsm.w_mem + 1)
<1>1. BurstLen \in Nat /\ BurstLen >= 3 /\ Fetched \in Nat /\ 2 <= Fetched /\ Fetched <= BurstLen
  BY FetchedFacts DEF Steady
<1>2. /\ fsm.w_mem + One(dma[i].data) + One(dma[i].re) = fsm.r_mem
      /\ dma[i].data # None => dma[i].data = Source(i, FetchBase + fsm.w_mem)
      /\ dma[i].re # None => dma[i].re = Source(i, FetchBase + fsm.r_mem - 1)
  BY DEF Coming
<1>3. \A k : Source(i, k) # None
  BY DEF Source, None, Both
<1>4. dma[i].data # None /\ fsm.w_mem = Fetched - 1 => dma'[i].data = None /\ dma'[i].re = None
  BY <1>1, <1>2 DEF One
<1>5. Inc(fsm.w_mem) = fsm.w_mem + 1 /\ Requested = IF fsm.r_mem < Fetched THEN fsm.r_mem + 1 ELSE fsm.r_mem
  BY <1>1, IncIsNext DEF Requested
<1>6. ASSUME fsm'.r_mem = Requested,
             fsm'.w_mem = IF dma[i].data # None THEN Inc(fsm.w_mem) ELSE fsm.w_mem
      PROVE  Coming(i)' /\ fsm'.r_mem <= Fetched /\ (dma[i].data # None => fsm'.w_mem = fsm.w_mem + 1)
  <2>1. FetchBase' = FetchBase /\ FetchBase \in Int /\ \A k : Source(i, k)' = Source(i, k)
    <3>1. FetchBase' = FetchBase /\ \A k : Source(i, k)' = Source(i, k)
      BY SameProducts DEF FetchBase, Burst, Steady, Same
    <3>2. FetchBase \in Int
      BY <1>1 DEF FetchBase, Burst, Steady, Types, FsmType
    <3> QED
      BY <3>1, <3>2
  <2>2. fsm'.w_mem + One(dma'[i].data) + One(dma'[i].re) = fsm'.r_mem
    BY <1>1, <1>2, <1>3, <1>5, <1>6 DEF One
  <2>3. dma'[i].re # None => dma'[i].re = Source(i, FetchBase + fsm'.r_mem - 1)
    <3>1. ASSUME dma'[i].re # None PROVE FetchBase + fsm'.r_mem - 1 = FetchBase + fsm.r_mem
      BY <1>5, <1>6, <2>1, <3>1
    <3> QED
      BY <3>1
  <2>4. dma'[i].data # None => dma'[i].data = Source(i, FetchBase + fsm'.w_mem)
    <3>1. ASSUME dma[i].re # None PROVE FetchBase + fsm.r_mem - 1 = FetchBase + fsm'.w_mem
      <4>1. fsm'.w_mem = fsm.r_mem - 1
        BY <1>1, <1>2, <1>5, <1>6, <3>1 DEF One
      <4> QED
        BY <2>1, <4>1
    <3> QED
      BY <1>2, <3>1
  <2>5. Coming(i)'
    BY <2>1, <2>2, <2>3, <2>4 DEF Coming
  <2> QED
    BY <1>1, <1>5, <1>6, <2>5
<1> QED
  BY <1>2, <1>4, <1>6

\* A word that came is kept beside those before it.
LEMMA WordTaken ==
  ASSUME Steady, NEW i \in Shares, NEW w \in Nat, w < Fetched, Took(i, w), Loaded(i, Source(i, FetchBase + w)),
         fsm'.iter = fsm.iter, fsm.w_mem = w
  PROVE  /\ \A n : n = w + 1 => Took(i, n)'
         /\ \A j \in Shares, n \in Nat : j # i /\ Took(j, n) => Took(j, n)'
         /\ DOMAIN shares' = Shares /\ \A j \in Shares : DOMAIN shares'[j] = 0 .. BurstLen - 1
         /\ DOMAIN bits' = Shares /\ \A j \in Shares : DOMAIN bits'[j] = {0, 1}
<1>1. BurstLen \in Nat /\ BurstLen >= 3 /\ Fetched \in Nat /\ 2 <= Fetched /\ Fetched <= BurstLen
      /\ (ctl.onebit => Fetched = 2)
  BY FetchedFacts DEF Steady
<1>2. /\ DOMAIN shares = Shares /\ \A j \in Shares : DOMAIN shares[j] = 0 .. BurstLen - 1
      /\ DOMAIN bits = Shares /\ \A j \in Shares : DOMAIN bits[j] = {0, 1}
  BY DEF Steady, Types, StoreType
<1>3. FetchBase' = FetchBase /\ (\A j, k : Source(j, k)' = Source(j, k)) /\ ctl' = ctl
  BY SameProducts DEF FetchBase, Burst, Steady, Same
<1> DEFINE reg == IF ctl.onebit THEN bits ELSE shares
           last == IF ctl.onebit THEN {0, 1} ELSE 0 .. BurstLen - 1
           word == Source(i, FetchBase + w)
<1>4. DOMAIN reg = Shares /\ (\A j \in Shares : DOMAIN reg[j] = last) /\ \A k \in 0 .. w : k \in last
  <2>1. CASE ctl.onebit
    <3>1. reg = bits /\ last = {0, 1} /\ w < 2
      BY <1>1, <2>1
    <3>2. \A k \in 0 .. w : k \in {0, 1}
      BY <3>1
    <3> HIDE DEF reg, last
    <3> QED
      BY <1>2, <3>1, <3>2
  <2>2. CASE ~ctl.onebit
    <3>1. reg = shares /\ last = 0 .. BurstLen - 1 /\ w < BurstLen
      BY <1>1, <2>2
    <3>2. \A k \in 0 .. w : k \in 0 .. BurstLen - 1
      BY <1>1, <3>1
    <3> HIDE DEF reg, last
    <3> QED
      BY <1>2, <3>1, <3>2
  <2> QED
    BY <2>1, <2>2
<1>5. reg' = [reg EXCEPT ![i][w] = word]
  BY <1>3 DEF Loaded
<1>6. /\ \A k \in 0 .. w : reg'[i][k] = IF k = w THEN word ELSE reg[i][k]
      /\ \A j \in Shares : j # i => reg'[j] = reg[j]
      /\ DOMAIN reg' = Shares /\ \A j \in Shares : DOMAIN reg'[j] = last
  <2> HIDE DEF reg, last, word
  <2> QED
    BY <1>4, <1>5
<1>7. ASSUME NEW n, n = w + 1 PROVE Took(i, n)'
  <2>1. \A k \in 0 .. w - 1 : reg[i][k] = Source(i, FetchBase + k)
    BY DEF Took
  <2>2. \A k \in 0 .. w : reg'[i][k] = Source(i, FetchBase + k)
    <3> HIDE DEF reg
    <3> QED
      BY <1>6, <2>1
  <2>3. 0 .. n - 1 = 0 .. w
    BY <1>7
  <2> QED
    BY <1>3, <2>2, <2>3 DEF Took
<1>8. ASSUME NEW j \in Shares, NEW n \in Nat, j # i, Took(j, n) PROVE Took(j, n)'
  BY <1>3, <1>6, <1>8 DEF Took
<1>9. /\ DOMAIN shares' = Shares /\ \A j \in Shares : DOMAIN shares'[j] = 0 .. BurstLen - 1
      /\ DOMAIN bits' = Shares /\ \A j \in Shares : DOMAIN bits'[j] = {0, 1}
  BY <1>2, <1>3, <1>6 DEF Loaded
<1> QED
  BY <1>7, <1>8, <1>9

\* What enters the core is something.
LEMMA DatumIsSome ==
  /\ \A rdy : Dummy(rdy) # None
  /\ \A b, m : Item(b, m) # None
<1>1. \A x : DOMAIN x = Shares => x # None
  <2> SUFFICES ASSUME NEW x, DOMAIN x = Shares, x = None PROVE FALSE
    OBVIOUS
  <2>1. DOMAIN None = 1 .. 1 /\ 0 \in DOMAIN x
    BY DEF None, Shares
  <2> QED
    BY <2>1
<1>2. \A rdy : DOMAIN Dummy(rdy) = Shares
  BY DEF Dummy
<1>3. \A b, m : DOMAIN Item(b, m) = Shares
  BY DEF Item
<1> QED
  BY <1>1, <1>2, <1>3

\* The conversions of a burst.
LEMMA ItemsFacts ==
  ASSUME Regular, Asked
  PROVE  /\ Items \in Nat /\ Items >= BurstLen /\ Items <= 2 * BurstLen /\ BurstLen \in Nat /\ BurstLen >= 3
         /\ HalfWise => Items = 2 * BurstLen
         /\ ~HalfWise => Items = BurstLen
  BY AskedFacts DEF Items

\* FETCH_DATA_0: the words of share 0 come in.
LEMMA Fetch0Keeps ==
  ASSUME Steady, fsm.st = "FETCH_DATA_0", InFetch0, FetchData0
  PROVE  /\ FsmType' /\ StoreType'
         /\ \/ fsm'.st = "FETCH_DATA_0" /\ InFetch0'
            \/ fsm'.st = "FETCH_DATA_1" /\ InFetch1'
<1> DEFINE valid == dma[0].data # None
           last  == valid /\ fsm.w_mem = Fetched - 1
<1>1. /\ fsm' = IF last THEN [fsm EXCEPT !.st = "FETCH_DATA_1", !.r_mem = 0, !.w_mem = 0]
                ELSE [fsm EXCEPT !.r_mem = Requested, !.w_mem = IF valid THEN Inc(@) ELSE @]
      /\ IF valid THEN Loaded(0, dma[0].data) ELSE UNCHANGED <<shares, bits>>
      /\ Datapath(Request(0), NoAccess, None, FALSE)
      /\ FsmType /\ StoreType /\ Regular /\ Asked
  BY DEF FetchData0, Steady, Types
<1>2. /\ BurstLen \in Nat /\ BurstLen >= 3 /\ Fetched \in Nat /\ 2 <= Fetched /\ Fetched <= BurstLen
      /\ Fetched' = Fetched /\ ctl' = ctl
  BY <1>1, FetchedFacts, SameMode DEF Steady, Same
<1>3. /\ fsm.r_mem \in Nat /\ fsm.w_mem \in Nat /\ fsm.r_mem <= Fetched /\ fsm.w_mem < Fetched
      /\ Requested \in Nat /\ Inc(fsm.w_mem) \in Nat
  BY <1>1, <1>2 DEF FsmType, InFetch0, Requested, Inc
<1>4. /\ FsmType' /\ fsm'.off = fsm.off /\ fsm'.iter = fsm.iter /\ fsm'.r_reg = fsm.r_reg /\ fsm'.w_reg = fsm.w_reg
      /\ last => fsm'.st = "FETCH_DATA_1" /\ fsm'.r_mem = 0 /\ fsm'.w_mem = 0
      /\ ~last => /\ fsm'.st = fsm.st /\ fsm'.r_mem = Requested
                  /\ fsm'.w_mem = IF valid THEN Inc(fsm.w_mem) ELSE fsm.w_mem
  <2>1. CASE last
    <3> HIDE DEF last, valid
    <3> QED
      BY <1>1, <2>1 DEF FsmType, FsmStates
  <2>2. CASE ~last
    <3> HIDE DEF last, valid
    <3> QED
      BY <1>1, <1>3, <2>2 DEF FsmType, FsmStates
  <2> QED
    BY <2>1, <2>2
<1> HIDE DEF last
<1>5. /\ dma'[0].data = dma[0].re
      /\ dma'[0].re = IF fsm.r_mem < Fetched THEN Source(0, FetchBase + fsm.r_mem) ELSE None
      /\ dma'[1].data = dma[1].re /\ dma'[1].re = None
      /\ Progress(Put2(Burst, Burst))' /\ Shaped(mem') /\ NotPut' /\ Running' /\ GroupStarts'
  <2>1. 0 \in Shares /\ 1 \in Shares /\ (0 = 1 => ~ctl.share)
    BY DEF Shares
  <2>3. ctl.op # "PRNG" /\ Running /\ GroupStarts /\ Progress(Put2(Burst, Burst)) /\ NotPut
    BY DEF InFetch0
  <2>4. Datapath(Request(0), NoAccess, None, FALSE) /\ fsm'.off = fsm.off /\ fsm'.iter = fsm.iter
    BY <1>1, <1>4
  <2>2. /\ dma'[0].data = dma[0].re
        /\ dma'[0].re = IF fsm.r_mem < Fetched THEN Source(0, FetchBase + fsm.r_mem) ELSE None
        /\ \A j \in Shares : j # 0 => dma'[j].data = dma[j].re /\ dma'[j].re = None
        /\ Progress(Put2(Burst, Burst))' /\ Shaped(mem') /\ NotPut' /\ Running' /\ GroupStarts'
    BY <2>1, <2>3, <2>4, FetchTurn
  <2> QED
    BY <2>1, <2>2
<1>6. /\ valid => dma[0].data = Source(0, FetchBase + fsm.w_mem)
      /\ last => dma'[0].data = None /\ dma'[0].re = None
      /\ ~last => Coming(0)' /\ fsm'.r_mem <= Fetched /\ (valid => fsm'.w_mem = fsm.w_mem + 1)
  <2>1. 0 \in Shares /\ Coming(0)
    BY DEF Shares, InFetch0
  <2> QED
    BY <1>3, <1>4, <1>5, <2>1, ComingOn DEF last
<1>7. /\ \A n : n = (IF valid THEN fsm.w_mem + 1 ELSE fsm.w_mem) => Took(0, n)'
      /\ DOMAIN shares' = Shares /\ \A j \in Shares : DOMAIN shares'[j] = 0 .. BurstLen - 1
      /\ DOMAIN bits' = Shares /\ \A j \in Shares : DOMAIN bits'[j] = {0, 1}
  <2>1. CASE valid
    <3>2. Loaded(0, Source(0, FetchBase + fsm.w_mem)) /\ Took(0, fsm.w_mem) /\ 0 \in Shares
      BY <1>1, <1>6, <2>1 DEF InFetch0, Shares
    <3>3. PICK w : w = fsm.w_mem
      OBVIOUS
    <3>4. /\ \A n : n = w + 1 => Took(0, n)'
          /\ DOMAIN shares' = Shares /\ \A j \in Shares : DOMAIN shares'[j] = 0 .. BurstLen - 1
          /\ DOMAIN bits' = Shares /\ \A j \in Shares : DOMAIN bits'[j] = {0, 1}
      BY <1>3, <1>4, <3>2, <3>3, WordTaken
    <3> QED
      BY <2>1, <3>3, <3>4
  <2>2. CASE ~valid
    <3>1. UNCHANGED <<shares, bits, ctl>> /\ FetchBase' = FetchBase /\ \A k : Source(0, k)' = Source(0, k)
      BY <1>1, <1>4, <2>2, SameProducts DEF FetchBase, Burst, Steady, Same
    <3>2. Took(0, fsm.w_mem)
      BY DEF InFetch0
    <3> QED
      BY <1>1, <2>2, <3>1, <3>2 DEF Took, StoreType
  <2> QED
    BY <2>1, <2>2
<1>8. StoreType'
  BY <1>5, <1>7 DEF StoreType, Shaped
<1>9. ~init_q' /\ Clear'
  BY <1>1, PipeQuiet DEF InFetch0
<1>10. NoData(1)' /\ ctl'.op # "PRNG" /\ fsm'.r_reg = 0 /\ fsm'.w_reg = 0
  BY <1>2, <1>4, <1>5 DEF InFetch0, NoData
<1>11. CASE last
  <2>1. Took(0, Fetched)'
    <3>1. fsm.w_mem + 1 = Fetched /\ valid
      BY <1>2, <1>11 DEF last
    <3>2. PICK n : n = fsm.w_mem + 1
      OBVIOUS
    <3>3. Took(0, n)' /\ Fetched' = n
      BY <1>2, <1>7, <3>1, <3>2
    <3> QED
      BY <3>3
  <2>2. Took(1, fsm.w_mem)'
    BY <1>4, <1>11 DEF Took
  <2>3. NoData(0)'
    BY <1>6, <1>11 DEF NoData
  <2>4. Coming(1)'
    BY <1>4, <1>10, <1>11 DEF Coming, NoData, One
  <2>5. fsm'.r_mem <= Fetched' /\ fsm'.w_mem < (IF ctl'.share THEN BurstLen ELSE Fetched')
    BY <1>2, <1>4, <1>11
  <2> QED
    BY <1>4, <1>5, <1>8, <1>9, <1>10, <1>11, <2>1, <2>2, <2>3, <2>4, <2>5 DEF InFetch1
<1>12. CASE ~last
  <2>1. fsm'.w_mem < Fetched' /\ fsm'.r_mem <= Fetched'
    BY <1>2, <1>3, <1>4, <1>6, <1>12 DEF last
  <2>2. Took(0, fsm.w_mem)'
    <3>1. PICK n : n = (IF valid THEN fsm.w_mem + 1 ELSE fsm.w_mem)
      OBVIOUS
    <3>2. Took(0, n)' /\ fsm'.w_mem = n
      BY <1>4, <1>6, <1>7, <1>12, <3>1
    <3> QED
      BY <3>2
  <2> QED
    BY <1>4, <1>5, <1>6, <1>8, <1>9, <1>10, <1>12, <2>1, <2>2 DEF InFetch0
<1> QED
  BY <1>11, <1>12

\* The first datum of a conversion is the dummy that is dropped.
LEMMA DummyEnters ==
  ASSUME Steady, NEW reads, NEW writes, Datapath(reads, writes, Dummy(TRUE), TRUE), Clear, fsm'.w_reg = 0
  PROVE  /\ Beyond' /\ init_q'
         /\ \E g : Numbered(g)' /\ g[1] = 0
<1>1. ConvCycles \in Nat \ {0} /\ Regular /\ Asked
  BY X2xAssumption DEF Steady
<1>2. Latency' = Latency /\ Latency \in 3 .. MaxLatency /\ MaxLatency \in Nat /\ Items' = Items
  BY <1>1, LatencyFacts, SameMode DEF Steady
<1>3. /\ pipe'[1] = Dummy(TRUE)
      /\ \A n \in 2 .. MaxLatency : pipe'[n] = IF n <= Latency THEN pipe[n - 1] ELSE None
      /\ init_q' = (TRUE \/ (init_q /\ pipe[Latency] = None))
  BY <1>1, PathStep
<1>4. \A n \in 2 .. MaxLatency : pipe'[n] = None
  BY <1>2, <1>3 DEF Clear
<1>5. Beyond' /\ init_q'
  <2>1. init_q'
    BY <1>3, Zenon
  <2>2. \A n \in 1 .. MaxLatency : n > Latency => n \in 2 .. MaxLatency
    BY <1>2
  <2>3. MaxLatency' = MaxLatency
    BY DEF MaxLatency
  <2>4. Beyond'
    BY <1>2, <1>4, <2>2, <2>3 DEF Beyond
  <2> QED
    BY <2>1, <2>4
<1>0. PICK g : g = [n \in 1 .. Latency + 1 |-> IF n = 1 THEN 0 ELSE -1]
  OBVIOUS
<1>6. /\ g \in [1 .. Latency + 1 -> Int] /\ g[1] = 0
      /\ \A n \in 2 .. Latency + 1 : g[n] = -1
  BY <1>0, <1>2
<1>7. pipe'[1] # None
  BY <1>3, DatumIsSome
<1>8. Numbered(g)'
  <2>1. g[Latency + 1] = -1
    BY <1>2, <1>6
  <2>2. ASSUME NEW n \in 1 .. Latency PROVE g[n] = g[n + 1] + One(pipe'[n])
    <3>1. n + 1 \in 2 .. Latency + 1 /\ g[n + 1] = -1
      BY <1>2, <1>6
    <3>2. CASE n = 1
      BY <1>6, <1>7, <3>1, <3>2 DEF One
    <3>3. CASE n # 1
      <4>1. n \in 2 .. Latency + 1 /\ n \in 2 .. MaxLatency
        BY <1>2, <3>3
      <4>2. g[n] = -1 /\ pipe'[n] = None
        BY <1>4, <1>6, <4>1
      <4> QED
        BY <3>1, <4>2 DEF One
    <3> QED
      BY <3>2, <3>3
  <2>3. \A m, n \in 1 .. Latency + 1 : m <= n => g[n] <= g[m]
    <3>1. \A n \in 1 .. Latency + 1 : n = 1 \/ n \in 2 .. Latency + 1
      BY <1>2
    <3> QED
      BY <1>6, <3>1
  <2>4. ASSUME NEW n \in 1 .. Latency, g[n + 1] \in 0 .. Items - 1 PROVE FALSE
    <3>1. n + 1 \in 2 .. Latency + 1
      BY <1>2
    <3> QED
      BY <1>6, <2>4, <3>1
  <2> QED
    BY <1>2, <1>5, <1>6, <2>1, <2>2, <2>3, <2>4 DEF Numbered
<1> QED
  BY <1>5, <1>6, <1>8

\* With the words of both shares the burst can be sent.
LEMMA FetchedIsReady ==
  ASSUME Steady, ctl.op # "PRNG", GroupStarts, fsm.iter \in Nat, fsm'.iter = fsm.iter,
         \A n, i : i \in Shares /\ n = Fetched => Took(i, n)'
  PROVE  (BitsHeld /\ HeldSources)'
<1>1. /\ BurstLen \in Nat /\ BurstLen >= 3 /\ Items \in Nat /\ Items <= 2 * BurstLen
      /\ (~HalfWise => Items = BurstLen) /\ (ctl.onebit => Fetched = 2) /\ (~ctl.onebit => Fetched = BurstLen)
  BY FetchedFacts, ItemsFacts, AskedFacts DEF Steady
<1>2. /\ HalfWise' = HalfWise /\ Items' = Items /\ ctl' = ctl /\ Burst' = Burst /\ BitBase' = BitBase
      /\ FetchBase' = FetchBase /\ \A i, k : Source(i, k)' = Source(i, k)
  BY SameMode, SameProducts DEF Steady, Same, Burst, BitBase, FetchBase
<1>3. \A i \in Shares : \A k \in 0 .. Fetched - 1 :
         (IF ctl.onebit THEN bits' ELSE shares')[i][k] = Source(i, FetchBase + k)
  <2>1. PICK n : n = Fetched
    OBVIOUS
  <2>2. \A i \in Shares : Took(i, n)'
    BY <2>1
  <2>3. \A i \in Shares : \A k \in 0 .. n - 1 :
           (IF ctl'.onebit THEN bits' ELSE shares')[i][k] = Source(i, FetchBase + k)'
    BY <2>2 DEF Took
  <2> QED
    BY <1>2, <2>1, <2>3
<1>4. BitsHeld'
  <2> SUFFICES ASSUME ctl.onebit PROVE \A i \in Shares, k \in {0, 1} : bits'[i][k] = Source(i, BitBase + k)
    BY <1>2 DEF BitsHeld
  <2>1. FetchBase = BitBase
    BY DEF FetchBase, BitBase, GroupStarts, Batch
  <2>2. \A i \in Shares : \A k \in 0 .. 1 : bits'[i][k] = Source(i, BitBase + k)
    BY <1>1, <1>3, <2>1
  <2> QED
    BY <2>2
<1>5. ASSUME NEW m \in 0 .. Items - 1 PROVE Sendable(m)'
  <2>1. ASSUME ~ctl.onebit, NEW i \in Shares
        PROVE  IF HalfWise THEN shares'[i][m \div 2][(m % 2) + 1] = Source(i, Burst + (m \div 2))[(m % 2) + 1]
               ELSE shares'[i][m] = Source(i, Burst + m)
    <3>1. \A k \in 0 .. BurstLen - 1 : shares'[i][k] = Source(i, Burst + k)
      BY <1>1, <1>3, <2>1 DEF FetchBase
    <3>2. m \div 2 \in 0 .. BurstLen - 1
      BY <1>1
    <3>3. ~HalfWise => m \in 0 .. BurstLen - 1
      BY <1>1
    <3> QED
      BY <3>1, <3>2, <3>3
  <2> QED
    BY <1>2, <1>4, <2>1 DEF Sendable, BitsHeld
<1> QED
  BY <1>2, <1>4, <1>5 DEF HeldSources

\* FETCH_DATA_1: those of share 1, or zeros, and the dummy enters.
LEMMA Fetch1Keeps ==
  ASSUME Steady, fsm.st = "FETCH_DATA_1", InFetch1, FetchData1
  PROVE  /\ FsmType' /\ StoreType'
         /\ \/ fsm'.st = "FETCH_DATA_1" /\ InFetch1'
            \/ fsm'.st = "MASK_SEND" /\ InSend'
<1> DEFINE valid == ctl.share \/ dma[1].data # None
           wanted == IF ctl.share THEN BurstLen ELSE Fetched
           last  == valid /\ fsm.w_mem = wanted - 1
           asks  == IF ctl.share THEN NoAccess ELSE Request(1)
<1>1. /\ fsm' = IF last THEN [fsm EXCEPT !.st = "MASK_SEND", !.r_mem = 0, !.w_mem = 0]
                ELSE [fsm EXCEPT !.r_mem = IF ctl.share THEN @ ELSE Requested, !.w_mem = IF valid THEN Inc(@) ELSE @]
      /\ IF valid THEN Loaded(1, IF ctl.share THEN Both(Zero) ELSE dma[1].data) ELSE UNCHANGED <<shares, bits>>
      /\ Datapath(asks, NoAccess, IF last THEN Dummy(TRUE) ELSE None, last)
      /\ FsmType /\ StoreType /\ Regular /\ Asked
  BY DEF FetchData1, Steady, Types
<1>2. /\ BurstLen \in Nat /\ BurstLen >= 3 /\ Fetched \in Nat /\ 2 <= Fetched /\ Fetched <= BurstLen
      /\ Fetched' = Fetched /\ ctl' = ctl /\ (ctl.share => Fetched = BurstLen)
  BY <1>1, FetchedFacts, AskedFacts, SameMode DEF Steady, Same
<1>3. /\ fsm.r_mem \in Nat /\ fsm.w_mem \in Nat /\ fsm.r_mem <= Fetched /\ fsm.w_mem < Fetched /\ wanted = Fetched
      /\ Requested \in Nat /\ Inc(fsm.w_mem) \in Nat
  BY <1>1, <1>2 DEF FsmType, InFetch1, Requested, Inc
<1>4. /\ FsmType' /\ fsm'.off = fsm.off /\ fsm'.iter = fsm.iter /\ fsm'.r_reg = fsm.r_reg /\ fsm'.w_reg = fsm.w_reg
      /\ last => fsm'.st = "MASK_SEND" /\ fsm'.r_mem = 0 /\ fsm'.w_mem = 0
      /\ ~last => /\ fsm'.st = fsm.st /\ fsm'.r_mem = IF ctl.share THEN fsm.r_mem ELSE Requested
                  /\ fsm'.w_mem = IF valid THEN Inc(fsm.w_mem) ELSE fsm.w_mem
  <2>1. CASE last
    <3> HIDE DEF last, valid, wanted, asks
    <3> QED
      BY <1>1, <2>1 DEF FsmType, FsmStates
  <2>2. CASE ~last
    <3> HIDE DEF last, valid, wanted, asks
    <3> QED
      BY <1>1, <1>3, <2>2 DEF FsmType, FsmStates
  <2> QED
    BY <2>1, <2>2
<1>5. 0 \in Shares /\ 1 \in Shares /\ ctl.op # "PRNG" /\ Running /\ GroupStarts /\ Progress(Put2(Burst, Burst)) /\ NotPut
  BY DEF Shares, InFetch1
<1>6. PICK datum, first : /\ Datapath(asks, NoAccess, datum, first)
                          /\ datum = (IF last THEN Dummy(TRUE) ELSE None) /\ first = last
  BY <1>1
<1> HIDE DEF last
<1>7. /\ ~ctl.share => /\ dma'[1].data = dma[1].re
                       /\ dma'[1].re = IF fsm.r_mem < Fetched THEN Source(1, FetchBase + fsm.r_mem) ELSE None
      /\ ctl.share => NoData(1)'
      /\ NoData(0)'
      /\ Progress(Put2(Burst, Burst))' /\ Shaped(mem') /\ NotPut' /\ Running' /\ GroupStarts'
  <2>1. CASE ~ctl.share
    <3>1. Datapath(Request(1), NoAccess, datum, first)
      BY <1>6, <2>1
    <3>2. /\ dma'[1].data = dma[1].re
          /\ dma'[1].re = IF fsm.r_mem < Fetched THEN Source(1, FetchBase + fsm.r_mem) ELSE None
          /\ \A j \in Shares : j # 1 => dma'[j].data = dma[j].re /\ dma'[j].re = None
          /\ Progress(Put2(Burst, Burst))' /\ Shaped(mem') /\ NotPut' /\ Running' /\ GroupStarts'
      BY <1>4, <1>5, <2>1, <3>1, FetchTurn
    <3>3. dma'[0].data = dma[0].re /\ dma'[0].re = None /\ dma[0].re = None
      BY <3>2 DEF Shares, InFetch1, NoData
    <3> QED
      BY <2>1, <3>2, <3>3 DEF NoData
  <2>2. CASE ctl.share
    <3>1. Datapath(NoAccess, NoAccess, datum, first)
      BY <1>6, <2>2
    <3>2. /\ \A i \in Shares : dma'[i].data = dma[i].re /\ dma'[i].re = None /\ dma'[i].wr = None
          /\ mem' = Memory(NoAccess)
      BY <3>1, PortsQuiet
    <3>3. NoData(1)' /\ NoData(0)'
      BY <2>2, <3>2 DEF NoData, InFetch1, Shares
    <3>4. Burst' = Burst /\ Running' = Running /\ GroupStarts' = GroupStarts
      BY <1>4, SameMode DEF Burst, Running, GroupStarts, Steady, Same
    <3>5. PICK n : n = Put2(Burst, Burst)
      OBVIOUS
    <3>6. Progress(n) /\ (ctl.op = "PRNG" => n[0] = 0)
      BY <1>5, <3>5
    <3>7. \A i \in Shares : i \in DOMAIN NoAccess => ~Pending(i)
      BY Ports
    <3>8. Progress(n)' /\ Shaped(mem') /\ NotPut'
      BY <1>4, <3>2, <3>6, <3>7, ProgressQuiet
    <3>9. Put2(Burst, Burst)' = n
      BY <3>4, <3>5
    <3> QED
      BY <1>5, <2>2, <3>3, <3>4, <3>8, <3>9
  <2> QED
    BY <2>1, <2>2
<1>8. ASSUME ~ctl.share
      PROVE  /\ dma[1].data # None => dma[1].data = Source(1, FetchBase + fsm.w_mem)
             /\ last => dma'[1].data = None /\ dma'[1].re = None
             /\ ~last => Coming(1)' /\ fsm'.r_mem <= Fetched /\ (valid => fsm'.w_mem = fsm.w_mem + 1)
  <2>1. 1 \in Shares /\ Coming(1)
    BY <1>5, <1>8 DEF InFetch1
  <2>2. /\ dma[1].data # None => dma[1].data = Source(1, FetchBase + fsm.w_mem)
        /\ dma[1].data # None /\ fsm.w_mem = Fetched - 1 => dma'[1].data = None /\ dma'[1].re = None
        /\ /\ fsm'.r_mem = Requested
           /\ fsm'.w_mem = IF dma[1].data # None THEN Inc(fsm.w_mem) ELSE fsm.w_mem
           => Coming(1)' /\ fsm'.r_mem <= Fetched /\ (dma[1].data # None => fsm'.w_mem = fsm.w_mem + 1)
    BY <1>3, <1>4, <1>7, <1>8, <2>1, ComingOn
  <2> QED
    BY <1>3, <1>4, <1>8, <2>2 DEF last
<1>9. Inc(fsm.w_mem) = fsm.w_mem + 1
  BY <1>2, <1>3, IncIsNext
<1>10. /\ \A n : n = (IF valid THEN fsm.w_mem + 1 ELSE fsm.w_mem) => Took(1, n)'
       /\ \A n : n = Fetched => Took(0, n)'
       /\ DOMAIN shares' = Shares /\ \A j \in Shares : DOMAIN shares'[j] = 0 .. BurstLen - 1
       /\ DOMAIN bits' = Shares /\ \A j \in Shares : DOMAIN bits'[j] = {0, 1}
  <2>1. CASE valid
    <3>1. (IF ctl.share THEN Both(Zero) ELSE dma[1].data) = Source(1, FetchBase + fsm.w_mem)
      BY <1>8, <2>1 DEF Source
    <3>2. Loaded(1, Source(1, FetchBase + fsm.w_mem)) /\ Took(1, fsm.w_mem) /\ Took(0, Fetched)
      BY <1>1, <2>1, <3>1 DEF InFetch1
    <3>3. PICK w : w = fsm.w_mem
      OBVIOUS
    <3>4. /\ \A n : n = w + 1 => Took(1, n)'
          /\ \A j \in Shares, n \in Nat : j # 1 /\ Took(j, n) => Took(j, n)'
          /\ DOMAIN shares' = Shares /\ \A j \in Shares : DOMAIN shares'[j] = 0 .. BurstLen - 1
          /\ DOMAIN bits' = Shares /\ \A j \in Shares : DOMAIN bits'[j] = {0, 1}
      BY <1>3, <1>4, <1>5, <3>2, <3>3, WordTaken
    <3>5. ASSUME NEW n, n = Fetched PROVE Took(0, n)'
      <4>1. Took(0, n) /\ n \in Nat
        BY <1>2, <3>2, <3>5
      <4> QED
        BY <1>5, <3>4, <4>1
    <3> QED
      BY <2>1, <3>3, <3>4, <3>5
  <2>2. CASE ~valid
    <3>1. UNCHANGED <<shares, bits, ctl>> /\ FetchBase' = FetchBase /\ \A i, k : Source(i, k)' = Source(i, k)
      BY <1>1, <1>4, <2>2, SameProducts DEF FetchBase, Burst, Steady, Same
    <3>2. Took(1, fsm.w_mem) /\ Took(0, Fetched)
      BY DEF InFetch1
    <3>3. \A n : n = fsm.w_mem => Took(1, n)'
      BY <3>1, <3>2 DEF Took
    <3>4. \A n : n = Fetched => Took(0, n)'
      BY <3>1, <3>2 DEF Took
    <3> QED
      BY <1>1, <2>2, <3>1, <3>3, <3>4 DEF StoreType
  <2> QED
    BY <2>1, <2>2
<1>11. StoreType'
  BY <1>7, <1>10 DEF StoreType, Shaped
<1>12. CASE ~last
  <2>1. ~init_q' /\ Clear'
    <3>1. Datapath(asks, NoAccess, None, FALSE)
      <4>1. last = FALSE
        BY <1>12 DEF last
      <4> QED
        BY <1>1, <4>1
    <3> QED
      BY <3>1, PipeQuiet DEF InFetch1
  <2>2. fsm'.w_mem = (IF valid THEN fsm.w_mem + 1 ELSE fsm.w_mem) /\ fsm'.w_mem < Fetched'
    BY <1>2, <1>3, <1>4, <1>9, <1>12 DEF last
  <2>3. Took(1, fsm.w_mem)'
    <3>1. PICK n : n = (IF valid THEN fsm.w_mem + 1 ELSE fsm.w_mem)
      OBVIOUS
    <3>2. Took(1, n)' /\ fsm'.w_mem = n
      BY <1>10, <2>2, <3>1
    <3> QED
      BY <3>2
  <2>4. Took(0, Fetched)'
    <3>1. PICK n : n = Fetched
      OBVIOUS
    <3>2. Took(0, n)' /\ Fetched' = n
      BY <1>2, <1>10, <3>1
    <3> QED
      BY <3>2
  <2>5. fsm'.r_mem <= Fetched' /\ IF ctl'.share THEN fsm'.r_mem = 0 /\ NoData(1)' ELSE Coming(1)'
    <3>1. CASE ctl.share
      BY <1>2, <1>4, <1>7, <1>12, <3>1 DEF InFetch1
    <3>2. CASE ~ctl.share
      BY <1>2, <1>8, <1>12, <3>2
    <3> QED
      BY <3>1, <3>2
  <2>6. fsm'.w_mem < (IF ctl'.share THEN BurstLen ELSE Fetched')
    BY <1>2, <2>2
  <2>7. fsm'.r_reg = 0 /\ fsm'.w_reg = 0 /\ ctl'.op # "PRNG"
    BY <1>2, <1>4 DEF InFetch1
  <2> QED
    BY <1>4, <1>7, <1>11, <1>12, <2>1, <2>3, <2>4, <2>5, <2>6, <2>7 DEF InFetch1
<1>13. CASE last
  <2>1. /\ fsm'.r_mem = 0 /\ fsm'.w_mem = 0 /\ fsm'.r_reg = 0 /\ fsm'.w_reg = 0 /\ ctl'.op # "PRNG"
        /\ fsm'.iter \in Nat /\ fsm'.st = "MASK_SEND"
    BY <1>2, <1>4, <1>13 DEF InFetch1, FsmType
  <2>2. Beyond' /\ init_q' /\ \E g : Numbered(g)' /\ g[1] = 0
    <3>1. Datapath(asks, NoAccess, Dummy(TRUE), TRUE)
      BY <1>1, <1>13
    <3>2. Clear
      BY DEF InFetch1
    <3> QED
      BY <2>1, <3>1, <3>2, DummyEnters
  <2>3. NoData(1)'
    BY <1>7, <1>8, <1>13 DEF NoData
  <2>4. fsm.w_mem + 1 = Fetched /\ valid /\ Fetched' = Fetched
    BY <1>2, <1>3, <1>13 DEF last
  <2>5. (BitsHeld /\ HeldSources)'
    <3>1. \A n, i : i \in Shares /\ n = Fetched => Took(i, n)'
      BY <1>10, <2>4 DEF Shares
    <3>2. fsm.iter \in Nat
      BY <1>1 DEF FsmType
    <3> QED
      BY <1>4, <1>5, <3>1, <3>2, FetchedIsReady
  <2>6. (fsm.w_reg < Items)' /\ (fsm.r_reg < Items)' /\ (fsm.r_mem = EarlyDone)' /\ HeldResults'
    <3>1. 0 < Items' /\ HalfWise' = HalfWise /\ BurstLen \in Nat
      BY <1>1, ItemsFacts, SameMode DEF Steady
    <3>2. EarlyDone' = 0
      BY <2>1 DEF EarlyDone
    <3>3. HeldResults'
      BY <2>1, <3>1 DEF HeldResults
    <3> QED
      BY <2>1, <3>1, <3>2, <3>3
  <2>7. Progress(Putting)'
    <3>1. Burst \in Nat /\ Burst' = Burst
      <4>1. fsm.iter \in Nat
        BY <1>1 DEF FsmType
      <4> QED
        BY <1>2, <1>4, <4>1 DEF Burst
    <3>2. Putting' = Put2(Burst, Burst)'
      BY <2>1, <3>1 DEF Putting
    <3> QED
      BY <1>7, <3>2
  <2>8. Masking'
    BY <1>7, <2>1, <2>2, <2>3, <2>5, <2>6, <2>7 DEF Masking
  <2>9. ~NeverLate'
    BY <2>1 DEF NeverLate
  <2> QED
    BY <1>4, <1>11, <2>1, <2>2, <2>5, <2>6, <2>8, <2>9 DEF InSend
<1> QED
  BY <1>12, <1>13

-----------------------------------------------------------------------------
(* Results are stored and put out early *)

HeldUpTo(w) == \A i \in Shares, j \in 0 .. BurstLen - 1 :
    IF HalfWise
    THEN /\ 2 * j + 2 <= w => shares[i][j] = Product(i, Burst + j)
         /\ 2 * j + 1 = w => shares[i][j][1] = Product(i, Burst + j)[1]
    ELSE j < w => shares[i][j] = Product(i, Burst + j)
EarlyAt(w) == IF w = 0 THEN 0 ELSE IF HalfWise THEN (w - 1) \div 2 ELSE w - 1

\* What comes out of the core in a burst is numbered by what was stored of it.
LEMMA ResultIsItem ==
  ASSUME Regular, Asked, fsm.w_reg \in 0 .. Items - 1, Valid, init_q \in BOOLEAN,
         NeverLate => AllRandom, ~NeverLate => \E g : Numbered(g)
  PROVE  Result = Item(Burst, fsm.w_reg)
<1>1. Latency \in 3 .. MaxLatency /\ MaxLatency \in Nat /\ pipe[Latency] # None /\ ~init_q /\ Result = pipe[Latency]
  BY LatencyFacts, X2xAssumption DEF Valid, Result
<1>2. CASE NeverLate
  <2>1. Result = Randoms
    BY <1>1, <1>2 DEF AllRandom
  <2>2. ASSUME NEW i \in Shares, NEW o PROVE Product(i, o) = Both(Random)
    BY <1>2, ProductFacts DEF NeverLate
  <2>3. \A i \in Shares : Both(Product(i, Burst + (fsm.w_reg \div 2))[(fsm.w_reg % 2) + 1]) = Both(Random)
    <3>1. fsm.w_reg % 2 \in {0, 1}
      BY ItemsFacts
    <3>2. (fsm.w_reg % 2) + 1 \in {1, 2}
      BY <3>1
    <3> QED
      BY <2>2, <3>2 DEF Both
  <2>4. Item(Burst, fsm.w_reg) = Randoms
    BY <2>2, <2>3, ItemFacts DEF Randoms
  <2> QED
    BY <2>1, <2>4
<1>3. CASE ~NeverLate
  <2>1. PICK g : Numbered(g)
    BY <1>3
  <2>2. g[Latency + 1] = fsm.w_reg
    BY <1>1, <2>1, Zenon DEF Numbered
  <2>3. pipe[Latency] # None /\ g[Latency + 1] \in 0 .. Items - 1 => pipe[Latency] = Item(Burst, g[Latency + 1])
    BY <1>1, <2>1 DEF Numbered
  <2> QED
    BY <1>1, <2>2, <2>3
<1> QED
  BY <1>2, <1>3

\* Where a result is stored.
LEMMA StoredWhole ==
  ASSUME Regular, Asked, StoreType, fsm.w_reg \in 0 .. Items - 1, Valid, Result = Item(Burst, fsm.w_reg), ~HalfWise
  PROVE  /\ DOMAIN Stored = Shares
         /\ \A i \in Shares : /\ DOMAIN Stored[i] = 0 .. BurstLen - 1
                              /\ Stored[i][fsm.w_reg] = Product(i, Burst + fsm.w_reg)
                              /\ \A j \in 0 .. BurstLen - 1 : j # fsm.w_reg => Stored[i][j] = shares[i][j]
<1>1. BurstLen \in Nat /\ Items = BurstLen
  BY ItemsFacts
<1> DEFINE w == fsm.w_reg
<1>2. w \in 0 .. BurstLen - 1 /\ w < BurstLen
  BY <1>1
<1>3. Result = [i \in Shares |-> Product(i, Burst + w)]
  BY ItemFacts
<1>4. Stored = [i \in Shares |-> [shares[i] EXCEPT ![w] = Result[i]]]
  BY <1>2 DEF Stored
<1>5. \A i \in Shares : DOMAIN shares[i] = 0 .. BurstLen - 1
  BY DEF StoreType
<1> HIDE DEF w
<1>6. Stored = [i \in Shares |-> [shares[i] EXCEPT ![w] = Product(i, Burst + w)]]
  BY <1>3, <1>4
<1> QED
  BY <1>2, <1>5, <1>6 DEF w

\* The word and the half of it that comes next.
NextWord == fsm.w_reg \div 2
NextHalf == fsm.w_reg % 2

\* A half of a word leaves the other half.
LEMMA StoredHalf ==
  ASSUME Regular, Asked, StoreType, fsm.w_reg \in 0 .. Items - 1, Valid, Result = Item(Burst, fsm.w_reg), HalfWise
  PROVE  /\ DOMAIN Stored = Shares /\ NextWord \in 0 .. BurstLen - 1 /\ NextHalf \in {0, 1}
         /\ fsm.w_reg = 2 * NextWord + NextHalf
         /\ \A i \in Shares :
              /\ DOMAIN Stored[i] = 0 .. BurstLen - 1
              /\ NextHalf = 0 => Stored[i][NextWord] = <<Product(i, Burst + NextWord)[1], shares[i][NextWord][2]>>
              /\ NextHalf = 1 => Stored[i][NextWord] = <<shares[i][NextWord][1], Product(i, Burst + NextWord)[2]>>
              /\ \A j \in 0 .. BurstLen - 1 : j # NextWord => Stored[i][j] = shares[i][j]
<1>1. BurstLen \in Nat /\ Items = 2 * BurstLen
  BY ItemsFacts
<1>2. NextWord \in 0 .. BurstLen - 1 /\ NextHalf \in {0, 1} /\ fsm.w_reg = 2 * NextWord + NextHalf
  BY <1>1 DEF NextWord, NextHalf
<1>3. Result = [i \in Shares |-> Both(Product(i, Burst + NextWord)[NextHalf + 1])]
  BY ItemFacts DEF NextWord, NextHalf
<1>4. ASSUME NEW i \in Shares PROVE Result[i][1] = Product(i, Burst + NextWord)[NextHalf + 1]
  BY <1>3 DEF Both
<1>5. NextWord < BurstLen
  BY <1>1, <1>2
<1>6. Stored = [i \in Shares |-> [shares[i] EXCEPT ![NextWord] =
                 IF NextHalf = 0 THEN <<Result[i][1], shares[i][NextWord][2]>>
                 ELSE <<shares[i][NextWord][1], Result[i][1]>>]]
  <2>1. Stored = [i \in Shares |-> [shares[i] EXCEPT ![fsm.w_reg \div 2] =
                 IF fsm.w_reg % 2 = 0 THEN <<Result[i][1], shares[i][fsm.w_reg \div 2][2]>>
                 ELSE <<shares[i][fsm.w_reg \div 2][1], Result[i][1]>>]]
    BY <1>5, Zenon DEF Stored, NextWord
  <2> QED
    BY <2>1, Zenon DEF NextWord, NextHalf
<1>7. \A i \in Shares : DOMAIN shares[i] = 0 .. BurstLen - 1
  BY DEF StoreType
<1>8. \A i \in Shares : Stored[i] = [shares[i] EXCEPT ![NextWord] =
                 IF NextHalf = 0 THEN <<Result[i][1], shares[i][NextWord][2]>>
                 ELSE <<shares[i][NextWord][1], Result[i][1]>>]
  BY <1>6
<1>9. DOMAIN Stored = Shares
  BY <1>6
<1>10. ASSUME NEW i \in Shares
       PROVE  /\ DOMAIN Stored[i] = 0 .. BurstLen - 1
              /\ NextHalf = 0 => Stored[i][NextWord] = <<Product(i, Burst + NextWord)[1], shares[i][NextWord][2]>>
              /\ NextHalf = 1 => Stored[i][NextWord] = <<shares[i][NextWord][1], Product(i, Burst + NextWord)[2]>>
              /\ \A j \in 0 .. BurstLen - 1 : j # NextWord => Stored[i][j] = shares[i][j]
  <2>1. NextHalf = 0 => Result[i][1] = Product(i, Burst + NextWord)[1]
    BY <1>4
  <2>2. NextHalf = 1 => Result[i][1] = Product(i, Burst + NextWord)[2]
    BY <1>4
  <2>3. PICK w : w = (IF NextHalf = 0 THEN <<Result[i][1], shares[i][NextWord][2]>>
                      ELSE <<shares[i][NextWord][1], Result[i][1]>>)
    OBVIOUS
  <2>4. Stored[i] = [shares[i] EXCEPT ![NextWord] = w]
    BY <1>8, <2>3
  <2>5. DOMAIN Stored[i] = 0 .. BurstLen - 1 /\ Stored[i][NextWord] = w
        /\ \A j \in 0 .. BurstLen - 1 : j # NextWord => Stored[i][j] = shares[i][j]
    BY <1>2, <1>7, <2>4
  <2> QED
    BY <2>1, <2>2, <2>3, <2>5
<1> QED
  BY <1>2, <1>9, <1>10

\* A result that is stored adds to what is held, and leaves the sources that are still to be sent.
LEMMA StoreKeeps ==
  ASSUME Steady, fsm.w_reg \in 0 .. Items - 1, Valid => Result = Item(Burst, fsm.w_reg),
         HeldUpTo(fsm.w_reg), shares' = Stored, bits' = bits, fsm'.iter = fsm.iter,
         NEW w, w = (IF Valid THEN fsm.w_reg + 1 ELSE fsm.w_reg)
  PROVE  /\ HeldUpTo(w)'
         /\ DOMAIN shares' = Shares /\ \A i \in Shares : DOMAIN shares'[i] = 0 .. BurstLen - 1
         /\ \A m \in 0 .. Items - 1 : Sendable(m) /\ (Valid /\ ctl.op # "PRNG" => fsm.w_reg < m) => Sendable(m)'
<1>1. /\ HalfWise' = HalfWise /\ ctl' = ctl /\ Burst' = Burst /\ BitBase' = BitBase
      /\ (\A i, k : Source(i, k)' = Source(i, k)) /\ (\A i, o : Product(i, o)' = Product(i, o))
  BY SameMode, SameProducts DEF Steady, Same, Burst, BitBase
<1>2. Regular /\ Asked /\ StoreType /\ BurstLen \in Nat /\ Items \in Nat
      /\ (~HalfWise => Items = BurstLen) /\ (HalfWise => Items = 2 * BurstLen)
  BY ItemsFacts DEF Steady, Types
<1>3. CASE ~Valid
  <2>1. shares' = shares
    BY <1>3 DEF Stored
  <2>2. HeldUpTo(w)'
    <3>1. w = fsm.w_reg
      BY <1>3
    <3>2. HeldUpTo(w)
      BY <3>1
    <3> HIDE <3>1
    <3> QED
      BY <1>1, <2>1, <3>2 DEF HeldUpTo
  <2>3. \A m \in 0 .. Items - 1 : Sendable(m) => Sendable(m)'
    BY <1>1, <2>1 DEF Sendable
  <2> QED
    BY <1>2, <2>1, <2>2, <2>3 DEF StoreType
<1>4. CASE Valid /\ ~HalfWise
  <2>1. /\ DOMAIN Stored = Shares
        /\ \A i \in Shares : /\ DOMAIN Stored[i] = 0 .. BurstLen - 1
                             /\ Stored[i][fsm.w_reg] = Product(i, Burst + fsm.w_reg)
                             /\ \A j \in 0 .. BurstLen - 1 : j # fsm.w_reg => Stored[i][j] = shares[i][j]
    BY <1>2, <1>4, StoredWhole
  <2>2. w = fsm.w_reg + 1
    BY <1>4
  <2>3. ASSUME NEW i \in Shares, NEW j \in 0 .. BurstLen - 1, j < w PROVE shares'[i][j] = Product(i, Burst + j)
    <3>1. CASE j = fsm.w_reg
      BY <2>1, <3>1
    <3>2. CASE j # fsm.w_reg
      <4>1. j < fsm.w_reg
        BY <1>2, <2>2, <2>3, <3>2
      <4> QED
        BY <1>4, <2>1, <3>2, <4>1 DEF HeldUpTo
    <3> QED
      BY <3>1, <3>2
  <2>4. HeldUpTo(w)'
    BY <1>1, <1>4, <2>3 DEF HeldUpTo
  <2>5. ASSUME NEW m \in 0 .. Items - 1, Sendable(m), ctl.op # "PRNG" => fsm.w_reg < m PROVE Sendable(m)'
    <3>1. ctl.op # "PRNG" => m # fsm.w_reg
      BY <1>2, <2>5
    <3>2. m \in 0 .. BurstLen - 1
      BY <1>2, <1>4
    <3> QED
      BY <1>1, <1>4, <2>1, <2>5, <3>1, <3>2 DEF Sendable
  <2> QED
    BY <1>4, <2>1, <2>4, <2>5
<1>5. CASE Valid /\ HalfWise
  <2>1. /\ DOMAIN Stored = Shares /\ NextWord \in 0 .. BurstLen - 1 /\ NextHalf \in {0, 1}
        /\ fsm.w_reg = 2 * NextWord + NextHalf
        /\ \A i \in Shares :
              /\ DOMAIN Stored[i] = 0 .. BurstLen - 1
              /\ NextHalf = 0 => Stored[i][NextWord] = <<Product(i, Burst + NextWord)[1], shares[i][NextWord][2]>>
              /\ NextHalf = 1 => Stored[i][NextWord] = <<shares[i][NextWord][1], Product(i, Burst + NextWord)[2]>>
              /\ \A j \in 0 .. BurstLen - 1 : j # NextWord => Stored[i][j] = shares[i][j]
    BY <1>2, <1>5, StoredHalf
  <2>2. PICK k, h : /\ DOMAIN Stored = Shares /\ k \in 0 .. BurstLen - 1 /\ h \in {0, 1} /\ fsm.w_reg = 2 * k + h
        /\ \A i \in Shares : /\ DOMAIN Stored[i] = 0 .. BurstLen - 1
                             /\ h = 0 => Stored[i][k] = <<Product(i, Burst + k)[1], shares[i][k][2]>>
                             /\ h = 1 => Stored[i][k] = <<shares[i][k][1], Product(i, Burst + k)[2]>>
                             /\ \A j \in 0 .. BurstLen - 1 : j # k => Stored[i][j] = shares[i][j]
    BY <2>1
  <2>3. w = 2 * k + h + 1
    BY <1>5, <2>2
  <2>4. ASSUME NEW i \in Shares, NEW j \in 0 .. BurstLen - 1
        PROVE  /\ 2 * j + 2 <= w => shares'[i][j] = Product(i, Burst + j)
               /\ 2 * j + 1 = w => shares'[i][j][1] = Product(i, Burst + j)[1]
    <3>1. CASE j = k /\ h = 0
      <4>1. ~(2 * j + 2 <= w)
        BY <1>2, <2>2, <2>3, <3>1
      <4>2. shares'[i][j] = <<Product(i, Burst + k)[1], shares[i][k][2]>>
        BY <2>2, <3>1
      <4> QED
        BY <3>1, <4>1, <4>2
    <3>2. CASE j = k /\ h = 1
      <4>1. 2 * j + 1 # w /\ 2 * j + 1 = fsm.w_reg
        BY <1>2, <2>2, <2>3, <3>2
      <4>2. shares'[i][j] = <<shares[i][j][1], Product(i, Burst + j)[2]>>
        BY <2>2, <3>2
      <4>3. shares[i][j][1] = Product(i, Burst + j)[1]
        BY <1>5, <4>1 DEF HeldUpTo
      <4> QED
        BY <1>2, <4>1, <4>2, <4>3, ProductIsPair
    <3>3. CASE j # k
      <4>1. (2 * j + 2 <= w => 2 * j + 2 <= fsm.w_reg) /\ 2 * j + 1 # w
        BY <1>2, <2>2, <2>3, <3>3
      <4>2. shares'[i][j] = shares[i][j]
        BY <2>2, <3>3
      <4> QED
        BY <1>5, <4>1, <4>2 DEF HeldUpTo
    <3> QED
      BY <2>2, <3>1, <3>2, <3>3
  <2>5. HeldUpTo(w)'
    BY <1>1, <1>5, <2>4 DEF HeldUpTo
  <2>6. ASSUME NEW m \in 0 .. Items - 1, Sendable(m), ctl.op # "PRNG" => fsm.w_reg < m PROVE Sendable(m)'
    <3>1. ASSUME ctl.op # "PRNG", ~ctl.onebit, NEW i \in Shares
          PROVE  shares'[i][m \div 2][(m % 2) + 1] = Source(i, Burst + (m \div 2))[(m % 2) + 1]
      <4>1. shares[i][m \div 2][(m % 2) + 1] = Source(i, Burst + (m \div 2))[(m % 2) + 1]
        BY <1>5, <2>6, <3>1 DEF Sendable
      <4>2. m \div 2 \in 0 .. BurstLen - 1 /\ (m \div 2 = k => h = 0 /\ (m % 2) + 1 = 2)
        BY <1>2, <1>5, <2>2, <2>6, <3>1
      <4>3. CASE m \div 2 # k
        BY <2>2, <4>1, <4>2, <4>3
      <4>4. CASE m \div 2 = k
        BY <2>2, <4>1, <4>2, <4>4
      <4> QED
        BY <4>3, <4>4
    <3> QED
      BY <1>1, <1>5, <2>6, <3>1 DEF Sendable
  <2> QED
    BY <1>5, <2>2, <2>5, <2>6
<1> QED
  BY <1>3, <1>4, <1>5

\* The count of the words put out early, and that each of them is complete.
LEMMA EarlyCounts ==
  ASSUME Steady, fsm.w_reg \in 0 .. Items - 1, fsm.r_mem = EarlyAt(fsm.w_reg), HeldUpTo(fsm.w_reg),
         NEW w, w = (IF Valid THEN fsm.w_reg + 1 ELSE fsm.w_reg)
  PROVE  /\ fsm.r_mem \in 0 .. BurstLen - 1 /\ EarlyCount \in Nat /\ EarlyCount = EarlyAt(w)
         /\ EarlyDue => /\ EarlyCount = fsm.r_mem + 1
                        /\ \A i \in Shares : Held(i, fsm.r_mem) = Product(i, Burst + fsm.r_mem)
         /\ ~EarlyDue => EarlyCount = fsm.r_mem
<1>1. /\ BurstLen \in Nat /\ BurstLen >= 3 /\ Items \in Nat
      /\ (HalfWise => Items = 2 * BurstLen) /\ (~HalfWise => Items = BurstLen)
      /\ HalfWise = dualprime /\ HalfWise \in BOOLEAN
  BY ItemsFacts, AskedFacts DEF Steady, HalfWise
<1>2. PICK x : x = fsm.w_reg
  OBVIOUS
<1>3. x \in 0 .. Items - 1 /\ fsm.r_mem = EarlyAt(x)
  BY <1>2
<1>4. fsm.r_mem \in 0 .. BurstLen - 1
  BY <1>1, <1>3 DEF EarlyAt
<1>5. Inc(fsm.r_mem) = fsm.r_mem + 1
  BY <1>1, <1>4, IncIsNext
<1>6. CASE EarlyDue
  <2>1. Valid /\ x # 0 /\ (HalfWise => x % 2 = 0) /\ w = x + 1
    BY <1>1, <1>2, <1>6 DEF EarlyDue
  <2>2. EarlyCount = fsm.r_mem + 1
    BY <1>5, <1>6 DEF EarlyCount
  <2>3. CASE HalfWise
    <3>1. fsm.r_mem = (x - 1) \div 2 /\ EarlyAt(w) = x \div 2
      BY <1>1, <1>3, <2>1, <2>3 DEF EarlyAt
    <3>2. 2 * fsm.r_mem + 2 = x /\ x \div 2 = fsm.r_mem + 1
      BY <1>3, <2>1, <2>3, <3>1
    <3>3. \A i \in Shares : shares[i][fsm.r_mem] = Product(i, Burst + fsm.r_mem)
      BY <1>2, <1>3, <1>4, <2>3, <3>2 DEF HeldUpTo
    <3>4. fsm.r_mem < BurstLen /\ EarlyCount = EarlyAt(w) /\ EarlyCount \in Nat
      BY <1>1, <1>4, <2>2, <3>1, <3>2
    <3>5. \A i \in Shares : Held(i, fsm.r_mem) = Product(i, Burst + fsm.r_mem)
      BY <3>3, <3>4 DEF Held
    <3> QED
      BY <1>4, <1>6, <2>2, <3>4, <3>5
  <2>4. CASE ~HalfWise
    <3>1. fsm.r_mem = x - 1 /\ EarlyAt(w) = x
      BY <1>1, <1>3, <2>1, <2>4 DEF EarlyAt
    <3>2. \A i \in Shares : shares[i][fsm.r_mem] = Product(i, Burst + fsm.r_mem)
      BY <1>2, <1>3, <1>4, <2>4, <3>1 DEF HeldUpTo
    <3>3. fsm.r_mem < BurstLen /\ EarlyCount = EarlyAt(w) /\ EarlyCount \in Nat
      <4>1. x \in Nat /\ x - 1 + 1 = x
        BY <1>1, <1>3
      <4> QED
        BY <1>1, <1>4, <2>2, <3>1, <4>1
    <3>4. \A i \in Shares : Held(i, fsm.r_mem) = Product(i, Burst + fsm.r_mem)
      BY <3>2, <3>3 DEF Held
    <3> QED
      BY <1>4, <1>6, <2>2, <3>3, <3>4
  <2> QED
    BY <1>1, <1>4, <1>6, <2>2, <2>3, <2>4
<1>7. CASE ~EarlyDue
  <2>1. EarlyCount = fsm.r_mem
    BY <1>7 DEF EarlyCount
  <2>2. EarlyAt(w) = EarlyAt(x)
    <3>1. CASE ~Valid
      BY <1>2, <3>1
    <3>2. CASE Valid /\ x = 0
      BY <1>2, <3>2 DEF EarlyAt
    <3>3. CASE Valid /\ x # 0 /\ HalfWise /\ x % 2 # 0
      BY <1>1, <1>2, <1>3, <3>3 DEF EarlyAt
    <3> QED
      BY <1>1, <1>2, <1>7, <3>1, <3>2, <3>3 DEF EarlyDue
  <2> QED
    BY <1>3, <1>4, <1>7, <2>1, <2>2
<1> QED
  BY <1>6, <1>7

\* What is put out early is complete, and nothing is put out twice.
LEMMA EarlyKeeps ==
  ASSUME Steady, Running, Progress(Putting), NoData(0), NoData(1),
         fsm.w_reg \in 0 .. Items - 1, fsm.r_mem = EarlyAt(fsm.w_reg), HeldUpTo(fsm.w_reg),
         NEW datum, Datapath(NoAccess, EarlyWrite, datum, FALSE),
         fsm'.off = EarlyOff, fsm'.iter = fsm.iter, fsm'.r_mem = EarlyCount
  PROVE  /\ fsm'.off \in [Shares -> Nat] /\ Progress(Putting)' /\ Shaped(mem')
         /\ NoData(0)' /\ NoData(1)' /\ Running'
<1>1. PICK w : w = (IF Valid THEN fsm.w_reg + 1 ELSE fsm.w_reg)
  OBVIOUS
<1>2. /\ fsm.r_mem \in 0 .. BurstLen - 1
      /\ EarlyDue => /\ EarlyCount = fsm.r_mem + 1
                     /\ \A i \in Shares : Held(i, fsm.r_mem) = Product(i, Burst + fsm.r_mem)
      /\ ~EarlyDue => EarlyCount = fsm.r_mem
  BY <1>1, EarlyCounts
<1>3. /\ fsm.iter \in Nat /\ fsm.iter < drv.bursts /\ Regular /\ Asked /\ ConvCycles \in Nat
      /\ fsm.off \in [Shares -> Nat] /\ BurstLen \in Nat /\ Total \in Nat
  BY AskedFacts, X2xAssumption DEF Steady, Types, FsmType, Running
<1>4. ctr_array = Burst /\ Burst \in Nat /\ Burst + BurstLen <= Total
  BY <1>3, BurstFacts
<1>5. /\ \A i \in Shares : /\ dma'[i].data = dma[i].re
                           /\ dma'[i].re = IF i \in DOMAIN NoAccess THEN mem[NoAccess[i][1]][NoAccess[i][2]] ELSE None
                           /\ dma'[i].wr = IF i \in DOMAIN EarlyWrite THEN EarlyWrite[i] ELSE None
      /\ mem' = Memory(NoAccess)
  BY <1>3, PathStep
<1>6. NoData(0)' /\ NoData(1)'
  BY <1>5, Ports DEF NoData, Shares
<1>7. Burst' = Burst /\ Running' = Running /\ ctl' = ctl
  BY SameMode DEF Burst, Running, Steady, Same
<1>8. PICK n : n = Putting
  OBVIOUS
<1>9. /\ Progress(n) /\ n[Early] = Burst + fsm.r_mem /\ Early \in Shares
      /\ (ctl.op = "PRNG" => n[0] = 0) /\ (ctl.op # "PRNG" => n[1] = Burst)
  BY <1>8 DEF Putting, Put2, Early, Shares
<1>10. CASE EarlyDue
  <2>1. PICK word : word = <<ctl.dout[Early], OutAddr(fsm.r_mem, fsm.off[Early]), Held(Early, fsm.r_mem)>>
    OBVIOUS
  <2>2. EarlyWrite = Only(Early, word)
    BY <1>10, <2>1 DEF EarlyWrite
  <2>3. dma'[Early].wr = word /\ \A i \in Shares : i # Early => dma'[i].wr = None
    <3>1. DOMAIN EarlyWrite = {Early} /\ EarlyWrite[Early] = word
      BY <2>2, Ports
    <3> QED
      BY <1>5, <1>9, <3>1
  <2>4. fsm'.off = [fsm.off EXCEPT ![Early] = NextOff(fsm.r_mem, @)]
    BY <1>10 DEF EarlyOff
  <2>5. Held(Early, fsm.r_mem) = Product(Early, n[Early])
    BY <1>2, <1>9, <1>10
  <2>6. PICK m : m = [i \in Shares |-> IF i = Early THEN n[i] + 1 ELSE n[i]]
    OBVIOUS
  <2>7. \A i \in Shares : m[i] = IF i = Early THEN n[i] + 1 ELSE n[i]
    BY <2>6
  <2>8. n[Early] = ctr_array + fsm.r_mem /\ n[Early] < Total
    BY <1>2, <1>3, <1>4, <1>9
  <2>9. Progress(m)' /\ Shaped(mem') /\ fsm'.off \in [Shares -> Nat]
    BY <1>5, <1>9, <2>1, <2>3, <2>4, <2>5, <2>7, <2>8, ProgressWrite
  <2>10. Putting' = m
    <3>1. fsm'.r_mem = fsm.r_mem + 1
      BY <1>2, <1>10
    <3>2. Burst + fsm'.r_mem = Burst + fsm.r_mem + 1
      BY <1>2, <1>4, <3>1
    <3>3. Putting' = IF ctl.op = "PRNG" THEN Put2(0, Burst + fsm.r_mem + 1) ELSE Put2(Burst + fsm.r_mem + 1, Burst)
      BY <1>7, <3>2 DEF Putting
    <3> QED
      BY <1>4, <1>8, <2>6, <3>3 DEF Putting, Put2, Early, Shares
  <2> QED
    BY <1>6, <1>7, <2>9, <2>10
<1>11. CASE ~EarlyDue
  <2>1. EarlyWrite = NoAccess /\ fsm'.off = fsm.off /\ fsm'.r_mem = fsm.r_mem
    BY <1>2, <1>11 DEF EarlyWrite, EarlyOff
  <2>2. \A i \in Shares : dma'[i].wr = None
    BY <1>5, <2>1, Ports
  <2>3. \A i \in Shares : i \in DOMAIN NoAccess => ~Pending(i)
    BY Ports
  <2>4. Progress(n)' /\ Shaped(mem')
    BY <1>5, <1>9, <2>1, <2>2, <2>3, ProgressQuiet
  <2>5. Putting' = n
    BY <1>7, <1>8, <2>1 DEF Putting
  <2> QED
    BY <1>3, <1>6, <1>7, <2>1, <2>4, <2>5
<1> QED
  BY <1>10, <1>11

\* The numbers move with what is in the core.
LEMMA NumbersMove ==
  ASSUME Steady, NEW reads, NEW writes, NEW datum, Datapath(reads, writes, datum, FALSE),
         NEW g, Numbered(g), g[1] \in 0 .. Items - 1 => datum = None \/ datum = Item(Burst, g[1]),
         init_q => fsm.w_reg = 0, fsm'.w_reg = (IF Valid THEN fsm.w_reg + 1 ELSE fsm.w_reg), fsm'.iter = fsm.iter
  PROVE  \E h : Numbered(h)' /\ h[1] = g[1] + One(datum)
<1>1. ConvCycles \in Nat \ {0} /\ Regular /\ Asked /\ init_q \in BOOLEAN /\ fsm.w_reg \in Nat
  BY X2xAssumption DEF Steady, Types, FlagType, FsmType
<1>2. /\ Latency' = Latency /\ Latency \in 3 .. MaxLatency /\ MaxLatency \in Nat /\ Items' = Items
      /\ Burst' = Burst /\ \A b, m : Item(b, m)' = Item(b, m)
  BY <1>1, LatencyFacts, SameMode, SameProducts DEF Steady, Same, Burst
<1>3. /\ pipe'[1] = datum
      /\ \A n \in 2 .. MaxLatency : pipe'[n] = IF n <= Latency THEN pipe[n - 1] ELSE None
      /\ init_q' = (FALSE \/ (init_q /\ pipe[Latency] = None))
  BY <1>1, PathStep
<1>4. PICK h : h = [n \in 1 .. Latency + 1 |-> IF n = 1 THEN g[1] + One(datum) ELSE g[n - 1]]
  OBVIOUS
<1>5. /\ g \in [1 .. Latency + 1 -> Int] /\ g[Latency + 1] = (IF init_q THEN -1 ELSE fsm.w_reg)
      /\ \A n \in 1 .. Latency : g[n] = g[n + 1] + One(pipe[n])
      /\ \A m, n \in 1 .. Latency + 1 : m <= n => g[n] <= g[m]
      /\ \A n \in 1 .. Latency : pipe[n] # None /\ g[n + 1] \in 0 .. Items - 1 => pipe[n] = Item(Burst, g[n + 1])
  BY Zenon DEF Numbered
<1>6. One(datum) \in {0, 1} /\ g[1] \in Int
  BY <1>2, <1>5 DEF One
<1>7. /\ h[1] = g[1] + One(datum) /\ h \in [1 .. Latency + 1 -> Int]
      /\ \A n \in 2 .. Latency + 1 : n - 1 \in 1 .. Latency /\ n - 1 \in 1 .. Latency + 1 /\ h[n] = g[n - 1]
  <2>1. \A n \in 2 .. Latency + 1 : n - 1 \in 1 .. Latency /\ n - 1 \in 1 .. Latency + 1
    BY <1>2
  <2>2. \A n \in 1 .. Latency + 1 : n = 1 \/ n \in 2 .. Latency + 1
    BY <1>2
  <2>3. \A n \in 1 .. Latency + 1 : (IF n = 1 THEN g[1] + One(datum) ELSE g[n - 1]) \in Int
    BY <1>5, <1>6, <2>1, <2>2
  <2> QED
    BY <1>2, <1>4, <2>1, <2>3
<1>8. h[Latency + 1] = IF init_q' THEN -1 ELSE fsm'.w_reg
  <2>1. h[Latency + 1] = g[Latency] /\ g[Latency] = g[Latency + 1] + One(pipe[Latency])
    BY <1>2, <1>5, <1>7
  <2>2. CASE init_q /\ pipe[Latency] = None
    <3>1. init_q'
      BY <1>3, <2>2, Zenon
    <3> QED
      BY <1>5, <2>1, <2>2, <3>1 DEF One
  <2>3. CASE init_q /\ pipe[Latency] # None
    <3>1. ~init_q' /\ ~Valid
      BY <1>3, <2>3, Zenon DEF Valid
    <3> QED
      BY <1>5, <2>1, <2>3, <3>1 DEF One
  <2>4. CASE ~init_q
    <3>1. ~init_q' /\ (Valid <=> pipe[Latency] # None)
      BY <1>3, <2>4, Zenon DEF Valid
    <3> QED
      BY <1>1, <1>5, <2>1, <2>4, <3>1 DEF One
  <2> QED
    BY <1>1, <2>2, <2>3, <2>4
<1>9. \A n \in 1 .. Latency : h[n] = h[n + 1] + One(pipe'[n])
  <2> SUFFICES ASSUME NEW n \in 1 .. Latency PROVE h[n] = h[n + 1] + One(pipe'[n])
    OBVIOUS
  <2>1. h[n + 1] = g[n]
    <3>1. n + 1 \in 2 .. Latency + 1 /\ (n + 1) - 1 = n
      BY <1>2
    <3> QED
      BY <1>7, <3>1
  <2>2. CASE n = 1
    BY <1>3, <1>7, <2>1, <2>2
  <2>3. CASE n # 1
    <3>1. n \in 2 .. Latency + 1 /\ n \in 2 .. MaxLatency /\ n <= Latency /\ n - 1 \in 1 .. Latency /\ (n - 1) + 1 = n
      BY <1>2, <2>3
    <3>2. h[n] = g[n - 1] /\ pipe'[n] = pipe[n - 1]
      BY <1>3, <1>7, <3>1
    <3>3. g[n - 1] = g[n] + One(pipe[n - 1])
      BY <1>5, <3>1
    <3> QED
      BY <2>1, <3>2, <3>3
  <2> QED
    BY <2>2, <2>3
<1>10. \A m, n \in 1 .. Latency + 1 : m <= n => h[n] <= h[m]
  <2> SUFFICES ASSUME NEW m \in 1 .. Latency + 1, NEW n \in 1 .. Latency + 1, m <= n PROVE h[n] <= h[m]
    OBVIOUS
  <2>1. CASE n = 1
    <3>1. m = 1 /\ h[1] \in Int
      BY <1>2, <1>7, <2>1
    <3> QED
      BY <2>1, <3>1
  <2>2. CASE n # 1
    <3>1. n \in 2 .. Latency + 1 /\ n - 1 \in 1 .. Latency + 1 /\ 1 \in 1 .. Latency + 1 /\ 1 <= n - 1
      BY <1>2, <2>2
    <3>2. h[n] = g[n - 1] /\ g[n - 1] <= g[1] /\ g[n - 1] \in Int
      BY <1>5, <1>7, <3>1
    <3>3. CASE m = 1
      BY <1>6, <1>7, <3>2, <3>3
    <3>4. CASE m # 1
      <4>1. m \in 2 .. Latency + 1 /\ m - 1 \in 1 .. Latency + 1 /\ m - 1 <= n - 1
        BY <1>2, <3>4
      <4>2. h[m] = g[m - 1] /\ g[n - 1] <= g[m - 1]
        BY <1>5, <1>7, <3>1, <4>1
      <4> QED
        BY <3>2, <4>2
    <3> QED
      BY <3>3, <3>4
  <2> QED
    BY <2>1, <2>2
<1>11. ASSUME NEW n \in 1 .. Latency, pipe'[n] # None, h[n + 1] \in 0 .. Items - 1
       PROVE  pipe'[n] = Item(Burst, h[n + 1])
  <2>1. h[n + 1] = g[n]
    <3>1. n + 1 \in 2 .. Latency + 1 /\ (n + 1) - 1 = n
      BY <1>2
    <3> QED
      BY <1>7, <3>1
  <2>2. CASE n = 1
    BY <1>3, <1>11, <2>1, <2>2
  <2>3. CASE n # 1
    <3>1. n \in 2 .. MaxLatency /\ n <= Latency /\ n - 1 \in 1 .. Latency /\ (n - 1) + 1 = n
      BY <1>2, <2>3
    <3>2. pipe'[n] = pipe[n - 1]
      BY <1>3, <3>1
    <3>3. pipe[n - 1] # None /\ g[n] \in 0 .. Items - 1 => pipe[n - 1] = Item(Burst, g[n])
      BY <1>5, <3>1
    <3> QED
      BY <1>11, <2>1, <3>2, <3>3
  <2> QED
    BY <2>2, <2>3
<1>12. Numbered(h)'
  BY <1>2, <1>7, <1>8, <1>9, <1>10, <1>11 DEF Numbered
<1> QED
  BY <1>7, <1>12

-----------------------------------------------------------------------------
(* The states that mask *)

\* What a cycle of either MASK state leaves.
LEMMA MaskCycle ==
  ASSUME Steady, Masking, NeverLate => AllRandom, ~NeverLate => \E g : Numbered(g),
         NEW datum, Datapath(NoAccess, EarlyWrite, datum, FALSE),
         shares' = Stored, bits' = bits, fsm'.iter = fsm.iter, fsm'.off = EarlyOff, fsm'.r_mem = EarlyCount,
         NEW w, w = (IF Valid THEN fsm.w_reg + 1 ELSE fsm.w_reg)
  PROVE  /\ StoreType' /\ fsm'.off \in [Shares -> Nat] /\ fsm'.r_mem \in Nat /\ fsm'.r_mem = EarlyAt(w)
         /\ HeldUpTo(w)' /\ Progress(Putting)' /\ NoData(0)' /\ NoData(1)' /\ Running' /\ BitsHeld' /\ Beyond'
         /\ init_q' => ctl'.op # "PRNG" /\ w = 0 /\ ~Valid
         /\ \A m \in 0 .. Items - 1 : Sendable(m) /\ (Valid /\ ctl.op # "PRNG" => fsm.w_reg < m) => Sendable(m)'
<1>1. /\ Regular /\ Asked /\ ctl' = ctl /\ ConvCycles \in Nat \ {0} /\ init_q \in BOOLEAN /\ StoreType
      /\ Items \in Nat /\ fsm.w_reg \in Nat
  BY ItemsFacts, X2xAssumption DEF Steady, Types, FlagType, FsmType, Same
<1>2. /\ Running /\ Progress(Putting) /\ NoData(0) /\ NoData(1) /\ fsm.w_reg \in 0 .. Items - 1
      /\ fsm.r_mem = EarlyAt(fsm.w_reg) /\ HeldUpTo(fsm.w_reg) /\ BitsHeld
      /\ init_q => ctl.op # "PRNG" /\ fsm.w_reg = 0
  BY <1>1 DEF Masking, EarlyDone, EarlyAt, HeldResults, HeldUpTo
<1>3. Valid => Result = Item(Burst, fsm.w_reg)
  BY <1>1, <1>2, ResultIsItem
<1>4. /\ HeldUpTo(w)'
      /\ DOMAIN shares' = Shares /\ \A i \in Shares : DOMAIN shares'[i] = 0 .. BurstLen - 1
      /\ \A m \in 0 .. Items - 1 : Sendable(m) /\ (Valid /\ ctl.op # "PRNG" => fsm.w_reg < m) => Sendable(m)'
  BY <1>2, <1>3, StoreKeeps
<1>5. fsm'.r_mem \in Nat /\ fsm'.r_mem = EarlyAt(w)
  BY <1>2, EarlyCounts
<1>6. /\ fsm'.off \in [Shares -> Nat] /\ Progress(Putting)' /\ Shaped(mem')
      /\ NoData(0)' /\ NoData(1)' /\ Running'
  BY <1>2, EarlyKeeps
<1>7. StoreType'
  BY <1>1, <1>4, <1>6 DEF StoreType, Shaped
<1>8. BitsHeld'
  <2>1. BitBase' = BitBase /\ \A i, k : Source(i, k)' = Source(i, k)
    BY <1>1, SameProducts DEF BitBase, Steady, Same
  <2> QED
    BY <1>1, <1>2, <2>1 DEF BitsHeld
<1>9. Latency' = Latency /\ MaxLatency' = MaxLatency /\ Latency \in 3 .. MaxLatency /\ MaxLatency \in Nat
  BY <1>1, LatencyFacts, SameMode DEF Steady, MaxLatency
<1>10. /\ \A n \in 2 .. MaxLatency : pipe'[n] = IF n <= Latency THEN pipe[n - 1] ELSE None
       /\ init_q' = (FALSE \/ (init_q /\ pipe[Latency] = None))
  BY <1>1, PathStep
<1>11. Beyond'
  <2>1. \A n \in 1 .. MaxLatency : n > Latency => n \in 2 .. MaxLatency
    BY <1>9
  <2> QED
    BY <1>9, <1>10, <2>1 DEF Beyond
<1>12. init_q' => ctl'.op # "PRNG" /\ w = 0 /\ ~Valid
  <2>1. init_q' => init_q /\ ~Valid
    BY <1>10, Zenon DEF Valid
  <2> QED
    BY <1>1, <1>2, <2>1
<1> QED
  BY <1>4, <1>5, <1>6, <1>7, <1>8, <1>11, <1>12

\* The parts that both MASK states share.
LEMMA MaskingOn ==
  ASSUME Steady, NEW w, fsm'.w_reg = w, w < Items, fsm'.w_mem = 0, fsm'.r_mem = EarlyAt(w),
         HeldUpTo(w)', Progress(Putting)', NoData(0)', NoData(1)', Running', BitsHeld', Beyond',
         init_q' => ctl'.op # "PRNG" /\ w = 0
  PROVE  Masking'
<1>1. HalfWise' = HalfWise /\ Items' = Items
  BY SameMode DEF Steady
<1>2. HeldResults'
  BY DEF HeldResults, HeldUpTo
<1>3. EarlyDone' = EarlyAt(w)
  BY <1>1 DEF EarlyDone, EarlyAt
<1> QED
  BY <1>1, <1>2, <1>3 DEF Masking

\* A random word is never late for a PRNG operation of more than one burst.
LEMMA RandomComes ==
  ASSUME NeverLate, NEW rdy \in Ready
  PROVE  rdy = TRUE /\ ctl.op = "PRNG" /\ Latency = 3
  BY DEF NeverLate, Ready, CanBeLate, Latency

\* When no random word is late the core holds random words only.
LEMMA AllRandomOn ==
  ASSUME Steady, AllRandom, ctl.op = "PRNG", NEW datum, datum = None \/ datum = Randoms,
         NEW writes, Datapath(NoAccess, writes, datum, FALSE)
  PROVE  AllRandom'
<1>1. Latency' = Latency /\ Latency \in 3 .. MaxLatency /\ MaxLatency \in Nat /\ ConvCycles \in Nat
  BY LatencyFacts, SameMode, X2xAssumption DEF Steady
<1>2. pipe'[1] = datum /\ \A n \in 2 .. MaxLatency : pipe'[n] = IF n <= Latency THEN pipe[n - 1] ELSE None
  BY <1>1, PathStep
<1>3. Randoms' = Randoms
  BY DEF Randoms
<1>4. ASSUME NEW n \in 1 .. Latency, pipe'[n] # None PROVE pipe'[n] = Randoms
  <2>1. CASE n = 1
    BY <1>2, <1>4, <2>1
  <2>2. CASE n # 1
    <3>1. n \in 2 .. MaxLatency /\ n <= Latency /\ n - 1 \in 1 .. Latency
      BY <1>1, <2>2
    <3> QED
      BY <1>2, <1>4, <3>1 DEF AllRandom
  <2> QED
    BY <2>1, <2>2
<1> QED
  BY <1>1, <1>3, <1>4 DEF AllRandom

\* MASK_SEND: operands go in while results come out.
LEMMA SendKeeps ==
  ASSUME Steady, fsm.st = "MASK_SEND", InSend, NEW rdy \in Ready, MaskSend(rdy)
  PROVE  /\ FsmType' /\ StoreType'
         /\ \/ fsm'.st = "MASK_SEND" /\ InSend'
            \/ fsm'.st = "MASK_WAIT" /\ InWait'
<1> DEFINE last == rdy /\ fsm.r_reg = Items - 1
           datum == IF rdy THEN Operand(fsm.r_reg) ELSE None
<1>1. /\ fsm' = [fsm EXCEPT !.st = IF last THEN "MASK_WAIT" ELSE @,
                            !.r_reg = IF last THEN 0 ELSE IF rdy THEN Inc(@) ELSE @,
                            !.w_reg = IF Valid THEN Inc(@) ELSE @,
                            !.r_mem = EarlyCount, !.off = EarlyOff]
      /\ shares' = Stored /\ bits' = bits
      /\ Datapath(NoAccess, EarlyWrite, datum, FALSE)
      /\ FsmType /\ Regular /\ Asked /\ rdy \in BOOLEAN
  BY DEF MaskSend, Steady, Types, Ready
<1>2. /\ Items \in Nat /\ Items >= BurstLen /\ Items <= 2 * BurstLen /\ BurstLen \in Nat /\ BurstLen >= 3 /\ Items' = Items
      /\ fsm.w_reg \in 0 .. Items - 1 /\ fsm.r_reg \in 0 .. Items - 1 /\ fsm.w_mem = 0
      /\ fsm.iter \in Nat /\ fsm.iter < drv.bursts /\ ctl' = ctl /\ NeverLate' = NeverLate
  BY <1>1, ItemsFacts, SameMode DEF InSend, Masking, FsmType, Running, Steady, Same
<1>3. Inc(fsm.w_reg) \in Nat /\ Inc(fsm.r_reg) \in Nat
  BY <1>2 DEF Inc
<1>4. PICK w : w = (IF Valid THEN fsm.w_reg + 1 ELSE fsm.w_reg)
  OBVIOUS
<1>5. Masking /\ HeldSources /\ (NeverLate => AllRandom) /\ (~NeverLate => \E g : Numbered(g))
  BY DEF InSend
<1>6. /\ DOMAIN fsm = {"st", "r_mem", "r_reg", "w_mem", "w_reg", "iter", "off", "prng"}
      /\ fsm'.iter = fsm.iter /\ fsm'.off = EarlyOff /\ fsm'.r_mem = EarlyCount /\ fsm'.w_mem = 0
      /\ fsm'.w_reg = (IF Valid THEN Inc(fsm.w_reg) ELSE fsm.w_reg)
      /\ fsm'.r_reg = (IF last THEN 0 ELSE IF rdy THEN Inc(fsm.r_reg) ELSE fsm.r_reg)
      /\ fsm'.st = (IF last THEN "MASK_WAIT" ELSE "MASK_SEND")
  <2> HIDE DEF last
  <2> QED
    BY <1>1, <1>2 DEF FsmType
<1>7. /\ StoreType' /\ fsm'.off \in [Shares -> Nat] /\ fsm'.r_mem \in Nat /\ fsm'.r_mem = EarlyAt(w)
      /\ HeldUpTo(w)' /\ Progress(Putting)' /\ NoData(0)' /\ NoData(1)' /\ Running' /\ BitsHeld' /\ Beyond'
      /\ init_q' => ctl'.op # "PRNG" /\ w = 0 /\ ~Valid
      /\ \A m \in 0 .. Items - 1 : Sendable(m) /\ (Valid /\ ctl.op # "PRNG" => fsm.w_reg < m) => Sendable(m)'
  <2> HIDE DEF datum
  <2> QED
    BY <1>1, <1>4, <1>5, <1>6, MaskCycle
<1>8. FsmType'
  <2> HIDE DEF last
  <2>1. fsm'.w_reg \in Nat /\ fsm'.r_reg \in Nat
    BY <1>2, <1>3, <1>6
  <2>2. EarlyOff \in [Shares -> Nat] /\ EarlyCount \in Nat
    BY <1>6, <1>7
  <2> QED
    BY <1>1, <1>2, <1>3, <2>2 DEF FsmType, FsmStates
<1>9. rdy => Operand(fsm.r_reg) = Item(Burst, fsm.r_reg)
  <2>1. Sendable(fsm.r_reg)
    BY <1>2, <1>5 DEF HeldSources
  <2> QED
    BY <1>1, <1>2, <2>1, OperandIsItem
<1>10. datum = (IF rdy THEN Item(Burst, fsm.r_reg) ELSE None)
  BY <1>9
<1>11. ~last => fsm'.r_reg = (IF rdy THEN fsm.r_reg + 1 ELSE fsm.r_reg) /\ fsm'.r_reg < Items
  <2>1. ~last /\ rdy => fsm.r_reg + 1 < Items
    BY <1>2
  <2>2. ~last /\ rdy => Inc(fsm.r_reg) = fsm.r_reg + 1
    BY <1>2, <2>1, IncIsNext
  <2> HIDE DEF last
  <2> QED
    BY <1>2, <1>6, <2>1, <2>2
<1>12. ASSUME ~NeverLate
       PROVE  /\ w < Items /\ (Valid => fsm.w_reg < fsm.r_reg)
              /\ \A x : x = w => (fsm'.w_reg = x => \E h : Numbered(h)' /\ h[1] = fsm.r_reg + One(datum))
  <2>1. PICK g : Numbered(g) /\ g[1] = fsm.r_reg
    BY <1>12 DEF InSend
  <2>2. Latency \in 3 .. MaxLatency /\ MaxLatency \in Nat
    BY LatencyFacts, X2xAssumption
  <2>3. Valid => fsm.w_reg < fsm.r_reg
    <3> SUFFICES ASSUME Valid PROVE fsm.w_reg < fsm.r_reg
      OBVIOUS
    <3>1. ~init_q /\ pipe[Latency] # None
      BY DEF Valid
    <3>2. g[Latency + 1] = fsm.w_reg
      BY <2>1, <3>1, Zenon DEF Numbered
    <3>3. g[Latency] = g[Latency + 1] + One(pipe[Latency])
      BY <2>1, <2>2 DEF Numbered
    <3>4. 1 \in 1 .. Latency + 1 /\ Latency \in 1 .. Latency + 1 /\ 1 <= Latency
      BY <2>2
    <3>5. g[Latency] <= g[1]
      BY <2>1, <3>4 DEF Numbered
    <3> QED
      BY <1>2, <2>1, <3>1, <3>2, <3>3, <3>5 DEF One
  <2>4. w < Items
    BY <1>2, <1>4, <2>3
  <2>5. ASSUME fsm'.w_reg = w PROVE \E h : Numbered(h)' /\ h[1] = fsm.r_reg + One(datum)
    <3>1. init_q => fsm.w_reg = 0
      BY <1>5 DEF Masking
    <3>2. datum = None \/ datum = Item(Burst, g[1])
      BY <1>10, <2>1
    <3>3. Datapath(NoAccess, EarlyWrite, datum, FALSE)
      BY <1>1
    <3> HIDE DEF datum
    <3>4. \E h : Numbered(h)' /\ h[1] = g[1] + One(datum)
      BY <1>4, <1>6, <2>1, <2>5, <3>1, <3>2, <3>3, NumbersMove
    <3> QED
      BY <2>1, <3>4
  <2> QED
    BY <2>3, <2>4, <2>5
<1>13. ASSUME NeverLate
       PROVE  /\ w < Items /\ rdy = TRUE /\ ctl.op = "PRNG" /\ AllRandom'
              /\ w <= fsm.r_reg + 1
              /\ fsm.r_reg + 1 < Latency => pipe'[fsm.r_reg + 2] = None
              /\ fsm.r_reg + 1 >= Latency => w < fsm.r_reg + 1
  <2>1. rdy = TRUE /\ ctl.op = "PRNG" /\ Latency = 3
    BY <1>13, RandomComes
  <2>2. /\ AllRandom /\ fsm.w_reg <= fsm.r_reg
        /\ fsm.r_reg < Latency => pipe[fsm.r_reg + 1] = None
        /\ fsm.r_reg >= Latency => fsm.w_reg < fsm.r_reg
    BY <1>13 DEF InSend
  <2>3. MaxLatency \in Nat /\ Latency \in 3 .. MaxLatency /\ ConvCycles \in Nat
    BY LatencyFacts, X2xAssumption
  <2>4. AllRandom'
    <3>1. Operand(fsm.r_reg) = Randoms
      BY <2>1 DEF Operand, Randoms
    <3>2. datum = Randoms
      BY <2>1, <3>1
    <3>3. Datapath(NoAccess, EarlyWrite, datum, FALSE)
      BY <1>1
    <3> HIDE DEF datum
    <3> QED
      BY <2>1, <2>2, <3>2, <3>3, AllRandomOn
  <2>5. fsm.r_reg + 1 < Latency => pipe'[fsm.r_reg + 2] = None
    <3> SUFFICES ASSUME fsm.r_reg + 1 < Latency PROVE pipe'[fsm.r_reg + 2] = None
      OBVIOUS
    <3>1. Datapath(NoAccess, EarlyWrite, datum, FALSE)
      BY <1>1
    <3>2. \A n \in 2 .. MaxLatency : pipe'[n] = IF n <= Latency THEN pipe[n - 1] ELSE None
      <4> HIDE DEF datum
      <4> QED
        BY <2>3, <3>1, PathStep
    <3>3. fsm.r_reg + 2 \in 2 .. MaxLatency /\ (fsm.r_reg + 2) - 1 = fsm.r_reg + 1 /\ fsm.r_reg < Latency
      BY <1>2, <2>3
    <3> QED
      BY <2>2, <3>2, <3>3
  <2>6. fsm.r_reg + 1 = Latency => w = fsm.w_reg
    <3>1. fsm.r_reg + 1 = Latency => pipe[Latency] = None
      BY <1>2, <2>1, <2>2
    <3> QED
      BY <1>4, <3>1 DEF Valid
  <2>7. w <= fsm.r_reg + 1 /\ (fsm.r_reg + 1 >= Latency => w < fsm.r_reg + 1)
    BY <1>2, <1>4, <2>1, <2>2, <2>6
  <2>8. w < Items
    BY <1>2, <1>4, <2>1, <2>2, <2>6
  <2> QED
    BY <2>1, <2>4, <2>5, <2>7, <2>8
<1>14. w < Items /\ fsm'.w_reg = w
  <2>1. w < Items
    BY <1>12, <1>13
  <2>2. Valid => Inc(fsm.w_reg) = fsm.w_reg + 1
    BY <1>2, <1>4, <2>1, IncIsNext
  <2> QED
    BY <1>4, <1>6, <2>1, <2>2
<1>15. Masking'
  BY <1>6, <1>7, <1>14, MaskingOn
<1>16. CASE last
  <2>1. rdy /\ fsm'.r_reg = 0 /\ fsm'.st = "MASK_WAIT" /\ fsm.r_reg = Items - 1
    BY <1>6, <1>16
  <2>2. ASSUME ~NeverLate' PROVE \E g : Numbered(g)' /\ g[1] >= Items'
    <3>1. PICK h : Numbered(h)' /\ h[1] = fsm.r_reg + One(datum)
      BY <1>2, <1>12, <1>14, <2>2
    <3>2. One(datum) = 1
      BY <1>10, <2>1, DatumIsSome DEF One
    <3>3. h[1] >= Items'
      BY <1>2, <2>1, <3>1, <3>2
    <3> QED
      BY <3>1, <3>3
  <2>3. (\E g : Numbered(g) /\ g[1] >= Items)' \/ NeverLate'
    BY <2>2
  <2>4. NeverLate' => AllRandom'
    BY <1>2, <1>13
  <2> QED
    BY <1>7, <1>8, <1>15, <2>1, <2>3, <2>4 DEF InWait
<1>17. CASE ~last
  <2>1. fsm'.st = "MASK_SEND" /\ fsm'.r_reg = (IF rdy THEN fsm.r_reg + 1 ELSE fsm.r_reg) /\ fsm'.r_reg < Items'
    BY <1>2, <1>6, <1>11, <1>17
  <2>2. HeldSources'
    <3> SUFFICES ASSUME NEW m \in 0 .. Items - 1, fsm'.r_reg <= m PROVE Sendable(m)'
      BY <1>2 DEF HeldSources
    <3>1. fsm.r_reg <= m
      BY <1>2, <2>1
    <3>2. Valid /\ ctl.op # "PRNG" => fsm.w_reg < m
      <4>1. ctl.op # "PRNG" => ~NeverLate
        BY DEF NeverLate
      <4> QED
        BY <1>2, <1>12, <3>1, <4>1
    <3>3. Sendable(m)
      BY <1>5, <3>1 DEF HeldSources
    <3> QED
      BY <1>7, <3>2, <3>3
  <2>3. ASSUME ~NeverLate' PROVE \E g : Numbered(g)' /\ g[1] = fsm'.r_reg
    <3>1. PICK h : Numbered(h)' /\ h[1] = fsm.r_reg + One(datum)
      BY <1>2, <1>12, <1>14, <2>3
    <3>2. One(datum) = IF rdy THEN 1 ELSE 0
      BY <1>10, DatumIsSome DEF One
    <3>3. h[1] = fsm'.r_reg
      BY <1>2, <2>1, <3>1, <3>2
    <3> QED
      BY <3>1, <3>3
  <2>4. (\E g : Numbered(g) /\ g[1] = fsm.r_reg)' \/ NeverLate'
    BY <2>3
  <2>5. ASSUME NeverLate'
        PROVE  /\ AllRandom' /\ fsm'.w_reg <= fsm'.r_reg
               /\ fsm'.r_reg < Latency' => pipe'[fsm'.r_reg + 1] = None
               /\ fsm'.r_reg >= Latency' => fsm'.w_reg < fsm'.r_reg
    <3>1. NeverLate /\ Latency' = Latency
      BY <1>2, <2>5, SameMode DEF Steady
    <3>2. fsm'.r_reg = fsm.r_reg + 1 /\ fsm'.r_reg + 1 = fsm.r_reg + 2
      BY <1>2, <1>13, <2>1, <3>1
    <3> QED
      BY <1>13, <1>14, <3>1, <3>2
  <2> QED
    BY <1>7, <1>8, <1>15, <2>1, <2>2, <2>4, <2>5 DEF InSend
<1> QED
  BY <1>16, <1>17

\* MASK_WAIT: the other results, and dummies behind them.
LEMMA WaitKeeps ==
  ASSUME Steady, fsm.st = "MASK_WAIT", InWait, NEW rdy \in Ready, MaskWait(rdy)
  PROVE  /\ FsmType' /\ StoreType'
         /\ \/ fsm'.st = "MASK_WAIT" /\ InWait'
            \/ fsm'.st = "PUT_DATA_0" /\ InPut0'
            \/ fsm'.st = "PUT_DATA_1" /\ InPut1'
<1> DEFINE last == Valid /\ fsm.w_reg = Items - 1
           next == IF ctl.op = "PRNG" THEN "PUT_DATA_1" ELSE "PUT_DATA_0"
           datum == Dummy(rdy)
<1>1. /\ fsm' = [fsm EXCEPT !.st = IF ~last THEN @ ELSE next,
                            !.w_reg = IF last THEN 0 ELSE IF Valid THEN Inc(@) ELSE @,
                            !.r_mem = EarlyCount, !.off = EarlyOff]
      /\ shares' = Stored /\ bits' = bits
      /\ Datapath(NoAccess, EarlyWrite, datum, FALSE)
      /\ FsmType /\ Regular /\ Asked
  BY DEF MaskWait, Steady, Types
<1>2. /\ Items \in Nat /\ Items >= BurstLen /\ Items <= 2 * BurstLen /\ BurstLen \in Nat /\ BurstLen >= 3 /\ Items' = Items
      /\ fsm.w_reg \in 0 .. Items - 1 /\ fsm.r_reg = 0 /\ fsm.w_mem = 0
      /\ fsm.iter \in Nat /\ fsm.iter < drv.bursts /\ ctl' = ctl /\ NeverLate' = NeverLate /\ HalfWise' = HalfWise
      /\ (HalfWise => Items = 2 * BurstLen) /\ (~HalfWise => Items = BurstLen)
  BY <1>1, ItemsFacts, SameMode DEF InWait, Masking, FsmType, Running, Steady, Same
<1>3. Inc(fsm.w_reg) \in Nat
  BY <1>2 DEF Inc
<1>4. PICK w : w = (IF Valid THEN fsm.w_reg + 1 ELSE fsm.w_reg)
  OBVIOUS
<1>5. Masking /\ (NeverLate => AllRandom) /\ (~NeverLate => \E g : Numbered(g))
  BY DEF InWait
<1>6. /\ DOMAIN fsm = {"st", "r_mem", "r_reg", "w_mem", "w_reg", "iter", "off", "prng"}
      /\ fsm'.iter = fsm.iter /\ fsm'.off = EarlyOff /\ fsm'.r_mem = EarlyCount /\ fsm'.w_mem = 0 /\ fsm'.r_reg = 0
      /\ fsm'.w_reg = (IF last THEN 0 ELSE IF Valid THEN Inc(fsm.w_reg) ELSE fsm.w_reg)
      /\ fsm'.st = (IF last THEN next ELSE "MASK_WAIT")
  <2> HIDE DEF last, next
  <2> QED
    BY <1>1, <1>2 DEF FsmType
<1>7. /\ StoreType' /\ fsm'.off \in [Shares -> Nat] /\ fsm'.r_mem \in Nat /\ fsm'.r_mem = EarlyAt(w)
      /\ HeldUpTo(w)' /\ Progress(Putting)' /\ NoData(0)' /\ NoData(1)' /\ Running' /\ BitsHeld' /\ Beyond'
      /\ init_q' => ctl'.op # "PRNG" /\ w = 0 /\ ~Valid
  <2> HIDE DEF datum
  <2> QED
    BY <1>1, <1>4, <1>5, <1>6, MaskCycle
<1>8. FsmType'
  <2>0. next \in FsmStates
    BY DEF FsmStates
  <2> HIDE DEF last, next
  <2>1. fsm'.w_reg \in Nat
    BY <1>2, <1>3, <1>6
  <2>2. EarlyOff \in [Shares -> Nat] /\ EarlyCount \in Nat
    BY <1>6, <1>7
  <2> QED
    BY <1>1, <1>2, <1>3, <2>0, <2>2 DEF FsmType
<1>9. NeverLate => AllRandom'
  <2> SUFFICES ASSUME NeverLate PROVE AllRandom'
    OBVIOUS
  <2>1. rdy = TRUE /\ ctl.op = "PRNG"
    BY RandomComes
  <2>2. datum = Randoms
    BY <2>1 DEF Dummy, Randoms
  <2> HIDE DEF datum
  <2> QED
    BY <1>1, <1>5, <2>1, <2>2, AllRandomOn
<1>10. CASE ~last
  <2>1. w < Items
    BY <1>2, <1>4, <1>10
  <2>2. fsm'.w_reg = w /\ fsm'.st = "MASK_WAIT"
    <3>1. Valid => Inc(fsm.w_reg) = fsm.w_reg + 1
      BY <1>2, <1>4, <2>1, IncIsNext
    <3> QED
      BY <1>4, <1>6, <1>10, <3>1
  <2>3. Masking'
    BY <1>6, <1>7, <2>1, <2>2, MaskingOn
  <2>4. ASSUME ~NeverLate' PROVE \E h : Numbered(h)' /\ h[1] >= Items'
    <3>1. PICK g : Numbered(g) /\ g[1] >= Items
      BY <1>2, <2>4 DEF InWait
    <3>2. g[1] \in Int
      <4>1. Latency \in 3 .. MaxLatency /\ MaxLatency \in Nat
        BY LatencyFacts, X2xAssumption
      <4>2. 1 \in 1 .. Latency + 1
        BY <4>1
      <4>3. g \in [1 .. Latency + 1 -> Int]
        BY <3>1 DEF Numbered
      <4> QED
        BY <4>2, <4>3
    <3>3. init_q => fsm.w_reg = 0
      BY <1>5 DEF Masking
    <3>4. ~(g[1] \in 0 .. Items - 1)
      BY <1>2, <3>1, <3>2
    <3>5. Datapath(NoAccess, EarlyWrite, datum, FALSE)
      BY <1>1
    <3>6. One(datum) = 1
      BY DatumIsSome DEF One
    <3> HIDE DEF datum
    <3>7. PICK h : Numbered(h)' /\ h[1] = g[1] + One(datum)
      BY <1>4, <1>6, <2>2, <3>1, <3>3, <3>4, <3>5, NumbersMove
    <3>8. h[1] >= Items'
      BY <1>2, <3>1, <3>2, <3>6, <3>7
    <3> QED
      BY <3>7, <3>8
  <2>5. (\E g : Numbered(g) /\ g[1] >= Items)' \/ NeverLate'
    BY <2>4
  <2> QED
    BY <1>2, <1>6, <1>7, <1>8, <1>9, <2>2, <2>3, <2>5 DEF InWait
<1>11. CASE last
  <2>1. w = Items /\ Valid
    BY <1>2, <1>4, <1>11
  <2>2. ~init_q'
    BY <1>7, <2>1
  <2>3. fsm'.r_mem = BurstLen - 1
    <3>1. EarlyAt(w) = BurstLen - 1
      BY <1>2, <2>1 DEF EarlyAt
    <3> QED
      BY <1>7, <3>1
  <2>4. HeldProducts(0)' /\ HeldProducts(1)'
    <3>1. \A i \in Shares, j \in 0 .. BurstLen - 1 : shares'[i][j] = Product(i, Burst + j)'
      <4>1. HeldUpTo(w)'
        BY <1>7
      <4> SUFFICES ASSUME NEW i \in Shares, NEW j \in 0 .. BurstLen - 1 PROVE shares'[i][j] = Product(i, Burst + j)'
        OBVIOUS
      <4>2. CASE HalfWise
        <5>1. 2 * j + 2 <= w
          BY <1>2, <2>1, <4>2
        <5> QED
          BY <1>2, <4>1, <4>2, <5>1 DEF HeldUpTo
      <4>3. CASE ~HalfWise
        <5>1. j < w
          BY <1>2, <2>1, <4>3
        <5> QED
          BY <1>2, <4>1, <4>3, <5>1 DEF HeldUpTo
      <4> QED
        BY <4>2, <4>3
    <3> QED
      BY <3>1 DEF HeldProducts, Shares
  <2>5. Counted'
    BY <1>6, <1>11 DEF Counted
  <2>6. CASE ctl.op = "PRNG"
    <3>1. fsm'.st = "PUT_DATA_1"
      BY <1>6, <1>11, <2>6
    <3>2. Progress(Put2(IF ctl.op = "PRNG" THEN 0 ELSE Burst + BurstLen, Burst + fsm.r_mem))'
      <4>1. Putting' = Put2(IF ctl.op = "PRNG" THEN 0 ELSE Burst + BurstLen, Burst + fsm.r_mem)'
        BY <1>2, <2>6 DEF Putting
      <4> QED
        BY <1>7, <4>1
    <3>3. fsm'.r_mem < BurstLen
      BY <1>2, <2>3
    <3>4. (IF ctl.op = "PRNG" THEN ~NeverLate \/ AllRandom
           ELSE \A n \in 1 .. MaxLatency : n <= 1 + fsm.r_mem => pipe[n] = None)'
      BY <1>2, <1>9, <2>6
    <3> QED
      BY <1>7, <1>8, <2>2, <2>3, <2>4, <2>5, <3>1, <3>2, <3>3, <3>4 DEF InPut1
  <2>7. CASE ctl.op # "PRNG"
    <3>1. fsm'.st = "PUT_DATA_0" /\ ctl'.op # "PRNG"
      BY <1>2, <1>6, <1>11, <2>7
    <3>2. Progress(Put2(Burst + fsm.r_mem, Burst))'
      <4>1. Putting' = Put2(Burst + fsm.r_mem, Burst)'
        BY <3>1 DEF Putting
      <4> QED
        BY <1>7, <4>1
    <3> QED
      BY <1>7, <1>8, <2>2, <2>3, <2>4, <2>5, <3>1, <3>2 DEF InPut0
  <2> QED
    BY <2>6, <2>7
<1> QED
  BY <1>10, <1>11

-----------------------------------------------------------------------------
(* The states that put out *)

Settled(n) ==
    /\ Progress(n) /\ Shaped(mem) /\ fsm.off \in [Shares -> Nat] /\ NoData(0) /\ NoData(1)

\* A cycle that puts out a word of a share's burst.
LEMMA PutTurn ==
  ASSUME Steady, Running, NoData(0), NoData(1), NEW j \in Shares, HeldProducts(j),
         fsm.r_mem < BurstLen, Datapath(NoAccess, Put(j), None, FALSE), fsm'.off = PutOff(j),
         NEW n, Progress(n), ctl.op = "PRNG" => n[0] = 0, n[j] = Burst + fsm.r_mem,
         NEW m, \A i \in Shares : m[i] = IF i = j THEN n[i] + 1 ELSE n[i]
  PROVE  Settled(m)'
<1>1. /\ fsm.iter \in Nat /\ fsm.iter < drv.bursts /\ Regular /\ Asked /\ ConvCycles \in Nat
      /\ BurstLen \in Nat /\ Total \in Nat /\ fsm.r_mem \in Nat
  BY AskedFacts, X2xAssumption DEF Steady, Types, FsmType, Running
<1>2. ctr_array = Burst /\ Burst \in Nat /\ Burst + BurstLen <= Total
  BY <1>1, BurstFacts
<1>3. /\ \A i \in Shares : /\ dma'[i].data = dma[i].re
                           /\ dma'[i].re = IF i \in DOMAIN NoAccess THEN mem[NoAccess[i][1]][NoAccess[i][2]] ELSE None
                           /\ dma'[i].wr = IF i \in DOMAIN Put(j) THEN Put(j)[i] ELSE None
      /\ mem' = Memory(NoAccess)
  BY <1>1, PathStep
<1>4. NoData(0)' /\ NoData(1)'
  BY <1>3, Ports DEF NoData, Shares
<1>5. PICK word : word = <<ctl.dout[j], OutAddr(fsm.r_mem, fsm.off[j]), Held(j, fsm.r_mem)>>
  OBVIOUS
<1>6. DOMAIN Put(j) = {j} /\ Put(j)[j] = word
  <2>1. Put(j) = Only(j, word)
    BY <1>5 DEF Put
  <2> QED
    BY <2>1, Ports
<1>7. dma'[j].wr = word /\ \A i \in Shares : i # j => dma'[i].wr = None
  BY <1>3, <1>6
<1>8. Held(j, fsm.r_mem) = Product(j, n[j])
  <2>1. fsm.r_mem \in 0 .. BurstLen - 1
    BY <1>1
  <2> QED
    BY <2>1 DEF Held, HeldProducts
<1>9. n[j] = ctr_array + fsm.r_mem /\ n[j] < Total
  BY <1>1, <1>2
<1>10. fsm'.off = [fsm.off EXCEPT ![j] = NextOff(fsm.r_mem, @)]
  BY DEF PutOff
<1>11. Progress(m)' /\ Shaped(mem') /\ fsm'.off \in [Shares -> Nat]
  BY <1>3, <1>5, <1>7, <1>8, <1>9, <1>10, ProgressWrite
<1> QED
  BY <1>4, <1>11 DEF Settled

\* PUT_DATA_0: the last word of share 0.
LEMMA Put0Keeps ==
  ASSUME Steady, fsm.st = "PUT_DATA_0", InPut0, PutData0
  PROVE  FsmType' /\ StoreType' /\ fsm'.st = "PUT_DATA_1" /\ InPut1'
<1>1. /\ fsm' = [fsm EXCEPT !.st = "PUT_DATA_1", !.r_mem = 0, !.off = PutOff(0)]
      /\ Datapath(NoAccess, Put(0), None, FALSE) /\ UNCHANGED <<shares, bits>>
      /\ FsmType /\ StoreType /\ Regular /\ Asked /\ ctl' = ctl
  BY DEF PutData0, InPut0, Steady, Types, Same
<1>2. /\ fsm'.st = "PUT_DATA_1" /\ fsm'.r_mem = 0 /\ fsm'.off = PutOff(0) /\ fsm'.iter = fsm.iter
      /\ fsm'.r_reg = fsm.r_reg /\ fsm'.w_reg = fsm.w_reg /\ fsm'.w_mem = fsm.w_mem
  BY <1>1 DEF FsmType
<1>3. BurstLen \in Nat /\ BurstLen >= 3 /\ fsm.r_mem = BurstLen - 1 /\ fsm.iter \in Nat /\ 0 \in Shares /\ 0 # 1
  BY <1>1, AskedFacts DEF InPut0, FsmType, Shares
<1>4. Burst \in Nat /\ Burst' = Burst /\ BitBase' = BitBase /\ Running' = Running
  BY <1>1, <1>2, <1>3, SameMode DEF Burst, BitBase, Running, Steady, Same
<1>5. PICK n : n = Put2(Burst + fsm.r_mem, Burst)
  OBVIOUS
<1>6. PICK m : m = Put2(Burst + BurstLen, Burst)
  OBVIOUS
<1>7. Progress(m)' /\ Shaped(mem') /\ fsm'.off \in [Shares -> Nat] /\ NoData(0)' /\ NoData(1)'
  <2>1. Progress(n) /\ n[0] = Burst + fsm.r_mem /\ n[1] = Burst
    BY <1>5 DEF InPut0, Put2, Shares
  <2>2. \A i \in Shares : m[i] = IF i = 0 THEN n[i] + 1 ELSE n[i]
    BY <1>3, <1>4, <1>5, <1>6 DEF Put2
  <2>3. Running /\ NoData(0) /\ NoData(1) /\ HeldProducts(0) /\ ctl.op # "PRNG" /\ fsm.r_mem < BurstLen
    BY <1>3 DEF InPut0
  <2>4. PICK j \in Shares : j = 0
    BY <1>3
  <2>5. /\ Datapath(NoAccess, Put(j), None, FALSE) /\ fsm'.off = PutOff(j) /\ HeldProducts(j)
        /\ n[j] = Burst + fsm.r_mem /\ \A i \in Shares : m[i] = IF i = j THEN n[i] + 1 ELSE n[i]
    BY <1>1, <1>2, <2>1, <2>2, <2>3, <2>4
  <2>6. Settled(m)'
    BY <2>1, <2>3, <2>5, PutTurn
  <2> QED
    BY <2>6 DEF Settled
<1>8. FsmType'
  BY <1>1, <1>2, <1>7 DEF FsmType, FsmStates
<1>9. StoreType'
  BY <1>1, <1>7 DEF StoreType, Shaped
<1>10. Beyond' /\ pipe'[1] = None /\ ~init_q'
  BY <1>1, PipeQuiet DEF InPut0
<1>11. BitsHeld' /\ HeldProducts(1)'
  <2>1. (\A i, k : Source(i, k)' = Source(i, k)) /\ (\A i, o : Product(i, o)' = Product(i, o))
    BY SameProducts DEF Steady
  <2> QED
    BY <1>1, <1>4, <2>1 DEF BitsHeld, HeldProducts, InPut0
<1>12. Progress(Put2(IF ctl.op = "PRNG" THEN 0 ELSE Burst + BurstLen, Burst + fsm.r_mem))'
  <2>1. Put2(IF ctl.op = "PRNG" THEN 0 ELSE Burst + BurstLen, Burst + fsm.r_mem)' = m
    BY <1>1, <1>2, <1>4, <1>6 DEF InPut0
  <2> QED
    BY <1>7, <2>1
<1>13. \A k \in 1 .. MaxLatency : k <= 1 + fsm'.r_mem => pipe'[k] = None
  <2>1. \A k \in 1 .. MaxLatency : k <= 1 + fsm'.r_mem => k = 1
    BY <1>2
  <2> QED
    BY <1>10, <2>1
<1>14. ctl'.op # "PRNG" /\ Running' /\ Counted' /\ fsm'.r_mem < BurstLen /\ MaxLatency' = MaxLatency
  BY <1>1, <1>2, <1>3, <1>4 DEF InPut0, Counted, MaxLatency
<1> QED
  BY <1>2, <1>7, <1>8, <1>9, <1>10, <1>11, <1>12, <1>13, <1>14 DEF InPut1

\* Numbering starts again when nothing is in the core.
LEMMA NumbersStart ==
  ASSUME Clear', ~init_q', fsm'.w_reg = 0, Latency' = Latency
  PROVE  \E g : Numbered(g)' /\ g[1] = 0
<1>1. Latency \in 3 .. MaxLatency /\ MaxLatency \in Nat /\ MaxLatency' = MaxLatency
  BY LatencyFacts, X2xAssumption DEF MaxLatency
<1>2. PICK g : g = [n \in 1 .. Latency + 1 |-> 0]
  OBVIOUS
<1>3. g \in [1 .. Latency + 1 -> Int] /\ \A n \in 1 .. Latency + 1 : g[n] = 0
  BY <1>2
<1>4. /\ Latency + 1 \in 1 .. Latency + 1 /\ 1 \in 1 .. Latency + 1
      /\ \A n \in 1 .. Latency : n \in 1 .. Latency + 1 /\ n + 1 \in 1 .. Latency + 1 /\ n \in 1 .. MaxLatency
  BY <1>1
<1>5. \A n \in 1 .. Latency : pipe'[n] = None
  BY <1>1, <1>4 DEF Clear
<1>6. Numbered(g)'
  BY <1>1, <1>3, <1>4, <1>5 DEF Numbered, One
<1> QED
  BY <1>3, <1>4, <1>6

Placed == Put2(IF ctl.op = "PRNG" THEN 0 ELSE Burst + BurstLen, Burst + fsm.r_mem)

\* The parts that do not depend on where the burst goes on.
LEMMA Put1Cycle ==
  ASSUME Steady, InPut1, Datapath(NoAccess, Put(1), None, FALSE), fsm'.off = PutOff(1)
  PROVE  /\ \A m : m = Put2(IF ctl.op = "PRNG" THEN 0 ELSE Burst + BurstLen, Burst + (fsm.r_mem + 1)) => Settled(m)'
         /\ Beyond' /\ pipe'[1] = None /\ ~init_q'
         /\ ctl.op # "PRNG" => \A n \in 1 .. MaxLatency : n <= 2 + fsm.r_mem => pipe'[n] = None
<1>1. /\ fsm.iter \in Nat /\ fsm.r_mem \in Nat /\ BurstLen \in Nat /\ ConvCycles \in Nat
      /\ Progress(Placed) /\ Running /\ NoData(0) /\ NoData(1) /\ HeldProducts(1) /\ fsm.r_mem < BurstLen
  BY X2xAssumption DEF Steady, Types, FsmType, InPut1, Placed
<1>2. Burst \in Nat
  BY <1>1 DEF Burst
<1>3. ASSUME NEW m, m = Put2(IF ctl.op = "PRNG" THEN 0 ELSE Burst + BurstLen, Burst + (fsm.r_mem + 1))
      PROVE  Settled(m)'
  <2>1. PICK n : n = Placed
    OBVIOUS
  <2>2. PICK j \in Shares : j = 1
    BY DEF Shares
  <2>3. /\ Progress(n) /\ n[j] = Burst + fsm.r_mem /\ (ctl.op = "PRNG" => n[0] = 0)
        /\ \A i \in Shares : m[i] = IF i = j THEN n[i] + 1 ELSE n[i]
    <3>1. Burst + (fsm.r_mem + 1) = (Burst + fsm.r_mem) + 1
      BY <1>1, <1>2
    <3> QED
      BY <1>1, <1>3, <2>1, <2>2, <3>1 DEF Placed, Put2, Shares
  <2>4. Datapath(NoAccess, Put(j), None, FALSE) /\ fsm'.off = PutOff(j) /\ HeldProducts(j)
    BY <1>1, <2>2
  <2> QED
    BY <1>1, <2>3, <2>4, PutTurn
<1>4. Beyond' /\ pipe'[1] = None /\ ~init_q'
  BY PipeQuiet DEF InPut1
<1>5. ASSUME ctl.op # "PRNG", NEW n \in 1 .. MaxLatency, n <= 2 + fsm.r_mem PROVE pipe'[n] = None
  <2>1. CASE n = 1
    BY <1>4, <2>1
  <2>2. CASE n # 1
    <3>1. MaxLatency \in Nat
      BY <1>1 DEF MaxLatency
    <3>2. n \in 2 .. MaxLatency /\ n - 1 \in 1 .. MaxLatency /\ n - 1 <= 1 + fsm.r_mem
      BY <1>1, <1>5, <2>2, <3>1
    <3>3. pipe'[n] = IF n <= Latency THEN pipe[n - 1] ELSE None
      BY <1>1, <3>2, PathStep
    <3> QED
      BY <1>5, <3>2, <3>3 DEF InPut1
  <2> QED
    BY <2>1, <2>2
<1> QED
  BY <1>3, <1>4, <1>5

\* PUT_DATA_1: a word of share 1.
LEMMA Put1Goes ==
  ASSUME Steady, InPut1, fsm.r_mem # BurstLen - 1, PutData1
  PROVE  FsmType' /\ StoreType' /\ fsm'.st = fsm.st /\ InPut1'
<1>1. /\ fsm' = [fsm EXCEPT !.r_mem = Inc(@), !.off = PutOff(1)]
      /\ Datapath(NoAccess, Put(1), None, FALSE) /\ UNCHANGED <<shares, bits>>
      /\ FsmType /\ StoreType /\ Regular /\ Asked /\ ctl' = ctl
  BY DEF PutData1, Steady, Types, Same
<1>2. /\ fsm'.st = fsm.st /\ fsm'.r_mem = Inc(fsm.r_mem) /\ fsm'.off = PutOff(1) /\ fsm'.iter = fsm.iter
      /\ fsm'.r_reg = fsm.r_reg /\ fsm'.w_reg = fsm.w_reg /\ fsm'.w_mem = fsm.w_mem
  BY <1>1 DEF FsmType
<1>3. BurstLen \in Nat /\ BurstLen >= 3 /\ fsm.r_mem \in Nat /\ fsm.r_mem < BurstLen /\ fsm.iter \in Nat /\ ctl.op # "PRNG"
  BY <1>1, AskedFacts DEF InPut1, FsmType
<1>4. fsm'.r_mem = fsm.r_mem + 1 /\ fsm'.r_mem \in Nat /\ fsm'.r_mem < BurstLen
  <2>1. fsm.r_mem + 1 < BurstLen /\ fsm.r_mem + 1 < 2 * BurstLen
    BY <1>3
  <2> QED
    BY <1>2, <1>3, <2>1, IncIsNext
<1>5. Burst' = Burst /\ BitBase' = BitBase /\ Running' = Running
  BY <1>1, <1>2, SameMode DEF Burst, BitBase, Running, Steady, Same
<1>6. PICK m : m = Put2(IF ctl.op = "PRNG" THEN 0 ELSE Burst + BurstLen, Burst + (fsm.r_mem + 1))
  OBVIOUS
<1>7. /\ Settled(m)' /\ Beyond' /\ ~init_q'
      /\ \A n \in 1 .. MaxLatency : n <= 2 + fsm.r_mem => pipe'[n] = None
  BY <1>1, <1>2, <1>3, <1>6, Put1Cycle
<1>8. Progress(m)' /\ Shaped(mem') /\ fsm'.off \in [Shares -> Nat] /\ NoData(0)' /\ NoData(1)'
  BY <1>7 DEF Settled
<1>9. FsmType'
  BY <1>1, <1>2, <1>4, <1>8 DEF FsmType, FsmStates
<1>10. StoreType'
  BY <1>1, <1>8 DEF StoreType, Shaped
<1>11. BitsHeld' /\ HeldProducts(1)'
  <2>1. (\A i, k : Source(i, k)' = Source(i, k)) /\ (\A i, o : Product(i, o)' = Product(i, o))
    BY SameProducts DEF Steady
  <2> QED
    BY <1>1, <1>5, <2>1 DEF BitsHeld, HeldProducts, InPut1
<1>12. Progress(Put2(IF ctl.op = "PRNG" THEN 0 ELSE Burst + BurstLen, Burst + fsm.r_mem))'
  <2>1. Put2(IF ctl.op = "PRNG" THEN 0 ELSE Burst + BurstLen, Burst + fsm.r_mem)' = m
    BY <1>1, <1>4, <1>5, <1>6
  <2> QED
    BY <1>8, <2>1
<1>13. \A n \in 1 .. MaxLatency : n <= 1 + fsm'.r_mem => pipe'[n] = None
  <2>1. 1 + fsm'.r_mem = 2 + fsm.r_mem
    BY <1>3, <1>4
  <2> QED
    BY <1>7, <2>1
<1>14. ctl'.op # "PRNG" /\ Running' /\ Counted' /\ MaxLatency' = MaxLatency
  BY <1>1, <1>2, <1>3, <1>5 DEF InPut1, Counted, MaxLatency
<1> QED
  BY <1>2, <1>4, <1>7, <1>8, <1>9, <1>10, <1>11, <1>12, <1>13, <1>14 DEF InPut1

\* The last one: the operation ends, or the next burst begins with an empty core.
LEMMA Put1Ends ==
  ASSUME Steady, InPut1, fsm.r_mem = BurstLen - 1, PutData1
  PROVE  /\ FsmType' /\ StoreType'
         /\ \/ fsm'.st = "DONE" /\ InDone'
            \/ fsm'.st = "DELAY" /\ InDelay'
            \/ fsm'.st = "MASK_SEND" /\ InSend'
<1>1. /\ fsm' = [fsm EXCEPT !.st = AfterBurst, !.r_mem = 0, !.iter = (@ + 1) % LenMod, !.off = PutOff(1)]
      /\ Datapath(NoAccess, Put(1), None, FALSE) /\ UNCHANGED <<shares, bits>>
      /\ FsmType /\ StoreType /\ Regular /\ Asked /\ ctl' = ctl /\ drv'.bursts = drv.bursts
  BY DEF PutData1, Steady, Types, Same
<1>2. /\ BurstLen \in Nat /\ BurstLen >= 3 /\ fsm.iter \in Nat /\ fsm.iter < drv.bursts /\ drv.bursts \in Nat
      /\ Items \in Nat /\ Items >= BurstLen /\ Items' = Items /\ Total' = Total /\ NeverLate' = NeverLate
      /\ HalfWise' = HalfWise /\ Latency' = Latency /\ Batch' = Batch /\ Total \in Nat
  BY <1>1, AskedFacts, ItemsFacts, SameMode DEF InPut1, FsmType, Running, Steady
<1>3. /\ Burst \in Nat /\ (fsm.iter + 1) % LenMod = fsm.iter + 1
      /\ (fsm.iter + 1) * BurstLen = Burst + BurstLen
      /\ ctr_array = Length - BurstLen <=> fsm.iter + 1 = drv.bursts
  BY <1>1, <1>2, BurstFacts
<1>4. AfterBurst \in {"DONE", "DELAY", "FETCH_DATA_0", "MASK_SEND"}
  BY DEF AfterBurst
<1>5. /\ fsm'.st = AfterBurst /\ fsm'.r_mem = 0 /\ fsm'.off = PutOff(1) /\ fsm'.iter = fsm.iter + 1
      /\ fsm'.r_reg = 0 /\ fsm'.w_reg = 0 /\ fsm'.w_mem = 0
  <2> HIDE DEF AfterBurst
  <2> QED
    BY <1>1, <1>3 DEF FsmType, InPut1, Counted
<1>6. Burst' = Burst + BurstLen
  BY <1>3, <1>5 DEF Burst
<1>7. PICK m : m = Put2(IF ctl.op = "PRNG" THEN 0 ELSE Burst + BurstLen, Burst + (fsm.r_mem + 1))
  OBVIOUS
<1>8. /\ Settled(m)' /\ Beyond' /\ pipe'[1] = None /\ ~init_q'
      /\ ctl.op # "PRNG" => \A n \in 1 .. MaxLatency : n <= 2 + fsm.r_mem => pipe'[n] = None
  BY <1>1, <1>5, <1>7, Put1Cycle
<1>9. Progress(m)' /\ Shaped(mem') /\ fsm'.off \in [Shares -> Nat] /\ NoData(0)' /\ NoData(1)'
  BY <1>8 DEF Settled
<1>10. m = Put2(IF ctl.op = "PRNG" THEN 0 ELSE Burst + BurstLen, Burst + BurstLen)
  <2>1. fsm.r_mem + 1 = BurstLen
    BY <1>2
  <2> QED
    BY <1>7, <2>1
<1>11. FsmType'
  <2>1. (fsm.iter + 1) % LenMod \in Nat
    BY <1>2, <1>3
  <2>2. PutOff(1) \in [Shares -> Nat] /\ AfterBurst \in FsmStates
    BY <1>4, <1>5, <1>9 DEF FsmStates
  <2> QED
    BY <1>1, <2>1, <2>2 DEF FsmType
<1>12. StoreType'
  BY <1>1, <1>9 DEF StoreType, Shaped
<1>13. ctl.op # "PRNG" => Clear'
  <2> SUFFICES ASSUME ctl.op # "PRNG", NEW n \in 1 .. MaxLatency PROVE pipe'[n] = None
    BY DEF Clear, MaxLatency
  <2>1. MaxLatency <= BurstLen + 1 /\ MaxLatency \in Nat
    BY <1>1, LatencyFacts, X2xAssumption DEF Regular
  <2>2. n <= 2 + fsm.r_mem
    BY <1>2, <2>1
  <2> QED
    BY <1>8, <2>2
<1>14. Counted'
  BY <1>5 DEF Counted
<1>15. CASE fsm.iter + 1 = drv.bursts
  <2>1. fsm'.st = "DONE"
    BY <1>3, <1>5, <1>15 DEF AfterBurst
  <2>2. Burst + BurstLen = Total
    BY <1>3, <1>15 DEF Total
  <2>3. Progress(Put2(IF ctl.op = "PRNG" THEN 0 ELSE Total, Total))'
    <3>1. Put2(IF ctl.op = "PRNG" THEN 0 ELSE Total, Total)' = m
      BY <1>1, <1>2, <1>10, <2>2
    <3> QED
      BY <1>9, <3>1
  <2>4. fsm'.iter = drv'.bursts
    BY <1>1, <1>5, <1>15
  <2> QED
    BY <1>1, <1>5, <1>8, <1>9, <1>11, <1>12, <1>13, <1>14, <2>1, <2>3, <2>4 DEF InDone
<1>16. CASE fsm.iter + 1 # drv.bursts
  <2>1. fsm'.st = (IF Refill THEN "DELAY" ELSE "MASK_SEND")
    BY <1>3, <1>5, <1>16 DEF AfterBurst
  <2>2. Running'
    <3>1. fsm.iter + 1 < drv.bursts
      BY <1>2, <1>16
    <3> QED
      BY <1>1, <1>5, <3>1 DEF Running
  <2>3. ctl.onebit \in BOOLEAN /\ ctl.dual \in BOOLEAN /\ (ctl.onebit => ctl.op # "PRNG")
    BY <1>1, AskedFacts DEF Asked
  <2>4. CASE Refill
    <3>1. ctl'.op # "PRNG"
      BY <1>1, <2>3, <2>4 DEF Refill
    <3>2. GroupStarts'
      <4> SUFFICES ASSUME ctl.onebit PROVE fsm'.iter % Batch' = 0
        BY <1>1 DEF GroupStarts
      <4>1. CASE ctl.dual
        <5>1. fsm.iter % 2 = 1
          BY <2>4, <4>1 DEF Refill
        <5>2. (fsm.iter + 1) % 2 = 0
          BY <1>2, <5>1
        <5> QED
          BY <1>2, <1>5, <4>1, <5>2 DEF Batch
      <4>2. CASE ~ctl.dual
        <5>1. fsm.iter % 4 = 3
          BY <2>4, <4>2 DEF Refill
        <5>2. (fsm.iter + 1) % 4 = 0
          BY <1>2, <5>1
        <5> QED
          BY <1>2, <1>5, <4>2, <5>2 DEF Batch
      <4> QED
        BY <4>1, <4>2
    <3>3. Progress(Put2(Burst, Burst))'
      <4>1. Put2(Burst, Burst)' = m
        BY <1>1, <1>6, <1>10, <3>1
      <4> QED
        BY <1>9, <4>1
    <3>4. Clear'
      BY <1>1, <1>13, <3>1
    <3>5. fsm'.st = "DELAY"
      BY <2>1, <2>4
    <3> QED
      BY <1>5, <1>8, <1>9, <1>11, <1>12, <1>14, <2>2, <3>1, <3>2, <3>3, <3>4, <3>5 DEF InDelay
  <2>5. CASE ~Refill
    <3>1. fsm'.st = "MASK_SEND" /\ (ctl.op # "PRNG" => ctl.onebit)
      BY <2>1, <2>3, <2>5 DEF Refill
    <3>2. Progress(Putting)'
      <4>1. (Burst + BurstLen) + 0 = Burst + BurstLen
        BY <1>2, <1>3
      <4>2. Putting' = m
        BY <1>1, <1>5, <1>6, <1>10, <4>1 DEF Putting
      <4> QED
        BY <1>9, <4>2
    <3>3. BitsHeld'
      <4> SUFFICES ASSUME ctl.onebit PROVE \A i \in Shares, k \in {0, 1} : bits'[i][k] = Source(i, BitBase + k)'
        BY <1>1 DEF BitsHeld
      <4>1. \A i, k : Source(i, k)' = Source(i, k)
        BY SameProducts DEF Steady
      <4>2. BitBase' = BitBase
        <5>1. CASE ctl.dual
          <6>1. fsm.iter % 2 # 1
            BY <2>5, <5>1 DEF Refill
          <6>2. (fsm.iter + 1) \div 2 = fsm.iter \div 2
            BY <1>2, <6>1
          <6> QED
            BY <1>1, <1>5, <5>1, <6>2 DEF BitBase
        <5>2. CASE ~ctl.dual
          <6>1. fsm.iter % 4 # 3
            BY <2>5, <5>2 DEF Refill
          <6>2. (fsm.iter + 1) \div 4 = fsm.iter \div 4
            BY <1>2, <6>1
          <6> QED
            BY <1>1, <1>5, <5>2, <6>2 DEF BitBase
        <5> QED
          BY <5>1, <5>2
      <4> QED
        BY <1>1, <4>1, <4>2 DEF InPut1, BitsHeld
    <3>4. (fsm.w_reg < Items)' /\ (fsm.r_reg < Items)' /\ (fsm.r_mem = EarlyDone)' /\ HeldResults'
      <4>1. EarlyDone' = 0
        BY <1>5 DEF EarlyDone
      <4>2. HeldResults'
        BY <1>2, <1>5 DEF HeldResults
      <4> QED
        BY <1>2, <1>5, <4>1, <4>2
    <3>5. HeldSources'
      BY <1>1, <3>1, <3>3 DEF HeldSources, Sendable, BitsHeld
    <3>6. Masking'
      BY <1>5, <1>8, <1>9, <2>2, <3>2, <3>3, <3>4 DEF Masking
    <3>7. (\E g : Numbered(g) /\ g[1] = fsm.r_reg)' \/ NeverLate'
      <4>1. CASE ctl.op # "PRNG"
        <5>1. PICK g : Numbered(g)' /\ g[1] = 0
          BY <1>2, <1>5, <1>8, <1>13, <4>1, NumbersStart
        <5>2. g[1] = fsm'.r_reg
          BY <1>5, <5>1
        <5> QED
          BY <5>1, <5>2
      <4>2. CASE ctl.op = "PRNG"
        <5>1. RefLate => drv.bursts = 1
          BY <1>1, <4>2, AskedFacts
        <5>2. drv.bursts # 1
          BY <1>2, <1>16
        <5> QED
          BY <1>2, <4>2, <5>1, <5>2 DEF NeverLate
      <4> QED
        BY <4>1, <4>2
    <3>8. NeverLate' => AllRandom'
      <4> SUFFICES ASSUME NeverLate PROVE AllRandom'
        BY <1>2
      <4>1. AllRandom /\ ctl.op = "PRNG"
        BY DEF InPut1, NeverLate
      <4> QED
        BY <1>1, <4>1, AllRandomOn
    <3>9. NeverLate' => /\ AllRandom' /\ fsm'.w_reg <= fsm'.r_reg
                        /\ fsm'.r_reg < Latency' => pipe'[fsm'.r_reg + 1] = None
                        /\ fsm'.r_reg >= Latency' => fsm'.w_reg < fsm'.r_reg
      <4>1. Latency >= 3 /\ Latency \in Nat
        BY LatencyFacts, X2xAssumption
      <4> QED
        BY <1>2, <1>5, <1>8, <3>8, <4>1
    <3> QED
      BY <1>11, <1>12, <3>1, <3>4, <3>5, <3>6, <3>7, <3>9 DEF InSend
  <2> QED
    BY <2>4, <2>5
<1> QED
  BY <1>15, <1>16

-----------------------------------------------------------------------------
(* The start, and a cycle in which the accelerator rests *)

\* A call starts: with nothing asked for, written or stored.
LEMMA StartKeeps ==
  ASSUME Steady, fsm.st = "IDLE", Resting, drv.pc = "poll", pulse.start, mem = Fresh, Idle
  PROVE  /\ FsmType' /\ StoreType'
         /\ \/ fsm'.st = "FETCH_DATA_0" /\ InFetch0'
            \/ fsm'.st = "MASK_SEND" /\ InSend'
<1>1. /\ fsm' = [fsm EXCEPT !.st = IF ctl.op = "PRNG" THEN "MASK_SEND" ELSE "FETCH_DATA_0"]
      /\ Datapath(NoAccess, NoAccess, None, FALSE) /\ UNCHANGED <<shares, bits>>
      /\ FsmType /\ StoreType /\ Regular /\ Asked
      /\ ctl' = ctl /\ drv'.bursts = drv.bursts /\ Asked' /\ Latency' = Latency /\ Items' = Items
      /\ Fetched' = Fetched /\ NeverLate' = NeverLate
  BY SameMode DEF Idle, Steady, Types, Same
<1>2. /\ fsm.r_mem = 0 /\ fsm.r_reg = 0 /\ fsm.w_mem = 0 /\ fsm.w_reg = 0 /\ fsm.iter = 0
      /\ \A i \in Shares : fsm.off[i] = 0
  BY DEF Resting, Counted
<1>3. /\ fsm'.st = (IF ctl.op = "PRNG" THEN "MASK_SEND" ELSE "FETCH_DATA_0")
      /\ fsm'.r_mem = 0 /\ fsm'.r_reg = 0 /\ fsm'.w_mem = 0 /\ fsm'.w_reg = 0 /\ fsm'.iter = 0
      /\ fsm'.off = fsm.off /\ FsmType'
  <2>1. PICK st \in FsmStates : st = (IF ctl.op = "PRNG" THEN "MASK_SEND" ELSE "FETCH_DATA_0")
    BY DEF FsmStates
  <2>2. fsm' = [fsm EXCEPT !.st = st]
    BY <1>1, <2>1
  <2> QED
    BY <1>1, <1>2, <2>1, <2>2 DEF FsmType
<1>4. /\ BurstLen \in Nat /\ BurstLen >= 3 /\ Items \in Nat /\ Items >= BurstLen /\ drv.bursts \in Nat \ {0}
      /\ (ctl.onebit => ctl.op # "PRNG") /\ Total \in Nat /\ Fetched \in Nat /\ Fetched > 0
  BY <1>1, AskedFacts, ItemsFacts DEF Fetched
<1>5. Burst = 0 /\ Burst' = 0
  BY <1>2, <1>3, <1>4 DEF Burst
<1>6. PICK n : n = Put2(0, 0)
  OBVIOUS
<1>7. \A i \in Shares : n[i] = 0
  BY <1>6 DEF Put2
<1>8. Progress(n)
  <2>1. OffAt(0) = 0
    BY <1>1, OffsetStarts
  <2>2. \A i \in Shares : ~Pending(i)
    BY DEF Resting, NotPut
  <2>3. \A o \in 0 .. Total - 1 : ~(o < 0)
    BY <1>4
  <2>4. MemHolds(n)
    BY <1>4, <1>7, <2>2, <2>3 DEF MemHolds
  <2> QED
    BY <1>2, <1>7, <2>1, <2>4 DEF Progress
<1>9. /\ \A i \in Shares : dma'[i].data = None /\ dma'[i].re = None /\ dma'[i].wr = None
      /\ mem' = Memory(NoAccess)
  BY <1>1, PortsQuiet DEF Resting, NoData, Shares
<1>10. Progress(n)' /\ Shaped(mem') /\ NotPut'
  <2>1. \A i \in Shares : i \in DOMAIN NoAccess => ~Pending(i)
    BY Ports
  <2>2. 0 \in Shares
    BY DEF Shares
  <2>3. ctl.op = "PRNG" => n[0] = 0
    BY <1>7, <2>2
  <2>4. fsm'.off = fsm.off /\ mem' = Memory(NoAccess) /\ \A i \in Shares : dma'[i].wr = None
    BY <1>3, <1>9
  <2> QED
    BY <1>8, <2>1, <2>3, <2>4, ProgressQuiet
<1>11. StoreType'
  BY <1>1, <1>10 DEF StoreType, Shaped
<1>12. Clear' /\ ~init_q' /\ Beyond' /\ pipe'[1] = None
  <2>1. Clear
    BY DEF Clear, Resting
  <2> QED
    BY <1>1, <2>1, PipeQuiet DEF Resting
<1>13. NoData(0)' /\ NoData(1)'
  BY <1>9 DEF NoData, Shares
<1>14. Running'
  BY <1>1, <1>3, <1>4 DEF Running
<1>15. CASE ctl.op # "PRNG"
  <2>1. Progress(Put2(Burst, Burst))'
    <3>1. Put2(Burst, Burst)' = n
      BY <1>5, <1>6
    <3> QED
      BY <1>10, <3>1
  <2>2. GroupStarts'
    BY <1>3 DEF GroupStarts, Batch
  <2>3. (Coming(0) /\ Took(0, fsm.w_mem))'
    <3>1. \A k \in 0 .. fsm'.w_mem - 1 : FALSE
      BY <1>3
    <3>2. Took(0, fsm.w_mem)'
      BY <3>1 DEF Took
    <3>3. 0 \in Shares
      BY DEF Shares
    <3>4. dma'[0].data = None /\ dma'[0].re = None
      BY <1>9, <3>3
    <3>5. Coming(0)'
      BY <1>3, <3>4 DEF Coming, One
    <3> QED
      BY <3>2, <3>5
  <2>4. fsm'.r_mem <= Fetched' /\ fsm'.w_mem < Fetched'
    BY <1>1, <1>3, <1>4
  <2>5. fsm'.st = "FETCH_DATA_0" /\ ctl'.op # "PRNG" /\ NoData(1)'
    BY <1>1, <1>3, <1>13, <1>15
  <2> QED
    BY <1>3, <1>10, <1>11, <1>12, <1>14, <2>1, <2>2, <2>3, <2>4, <2>5 DEF InFetch0
<1>16. CASE ctl.op = "PRNG"
  <2>1. Progress(Putting)'
    <3>1. Putting' = n
      <4>1. Burst' + fsm'.r_mem = 0
        BY <1>3, <1>5
      <4> QED
        BY <1>1, <1>6, <1>16, <4>1 DEF Putting
    <3> QED
      BY <1>10, <3>1
  <2>2. (fsm.w_reg < Items)' /\ (fsm.r_reg < Items)' /\ (fsm.r_mem = EarlyDone)' /\ HeldResults'
    <3>1. EarlyDone' = 0
      BY <1>3 DEF EarlyDone
    <3>2. HeldResults'
      BY <1>3, <1>4 DEF HeldResults
    <3> QED
      BY <1>1, <1>3, <1>4, <3>1, <3>2
  <2>3. BitsHeld' /\ HeldSources'
    BY <1>1, <1>4, <1>16 DEF BitsHeld, HeldSources, Sendable
  <2>4. Masking'
    BY <1>3, <1>12, <1>13, <1>14, <2>1, <2>2, <2>3 DEF Masking
  <2>5. (\E g : Numbered(g) /\ g[1] = fsm.r_reg)'
    <3>1. PICK g : Numbered(g)' /\ g[1] = 0
      BY <1>1, <1>3, <1>12, NumbersStart
    <3> QED
      BY <1>3, <3>1
  <2>6. Latency \in 3 .. MaxLatency /\ MaxLatency \in Nat /\ MaxLatency' = MaxLatency
    BY LatencyFacts, X2xAssumption DEF MaxLatency
  <2>7. AllRandom'
    BY <1>1, <1>12, <2>6 DEF AllRandom, Clear
  <2>8. /\ fsm'.w_reg <= fsm'.r_reg
        /\ fsm'.r_reg < Latency' => pipe'[fsm'.r_reg + 1] = None
        /\ fsm'.r_reg >= Latency' => fsm'.w_reg < fsm'.r_reg
    BY <1>1, <1>3, <1>12, <2>6
  <2>9. fsm'.st = "MASK_SEND"
    BY <1>3, <1>16
  <2> QED
    BY <1>3, <1>11, <2>2, <2>3, <2>4, <2>5, <2>7, <2>8, <2>9 DEF InSend
<1> QED
  BY <1>15, <1>16

\* What a cycle of the state machine leaves when a call runs.
Goes ==
    /\ FsmType /\ StoreType /\ fsm.st # "PRNG" /\ (Active => Working)
    /\ ~Active => /\ Counted /\ fsm.r_mem = 0 /\ fsm.iter = 0 /\ (\A i \in Shares : fsm.off[i] = 0) /\ NotPut /\ NoData(0) /\ NoData(1) /\ ~init_q /\ Finished
                  /\ \A n \in 1 .. MaxLatency : n # 3 => pipe[n] = None
                  /\ pipe[3] # None => ctl.op = "PRNG"

\* Each state has its own predicate.
LEMMA WorkingIn ==
  ASSUME Asked, \/ fsm.st = "FETCH_DATA_0" /\ InFetch0
                \/ fsm.st = "FETCH_DATA_1" /\ InFetch1
                \/ fsm.st = "MASK_SEND" /\ InSend
                \/ fsm.st = "MASK_WAIT" /\ InWait
                \/ fsm.st = "PUT_DATA_0" /\ InPut0
                \/ fsm.st = "PUT_DATA_1" /\ InPut1
                \/ fsm.st = "DELAY" /\ InDelay
                \/ fsm.st = "DONE" /\ InDone
  PROVE  Active /\ Working /\ fsm.st # "PRNG"
  BY DEF Working, Active

\* A cycle of a running operation.
LEMMA WorkingGoes ==
  ASSUME Steady, Active, Working, NEW rdy \in Ready, Fsm(rdy)
  PROVE  Goes' /\ (Active' => fsm.st # "DONE")
<1>0. Asked' /\ fsm.st \notin {"IDLE", "PRNG"}
  BY SameMode DEF Steady, Active
<1>1. CASE FetchData0
  <2>1. fsm.st = "FETCH_DATA_0" /\ InFetch0
    BY <1>1 DEF FetchData0, Working
  <2> QED
    BY <1>0, <1>1, <2>1, Fetch0Keeps DEF Goes, Working, Active
<1>2. CASE FetchData1
  <2>1. fsm.st = "FETCH_DATA_1" /\ InFetch1
    BY <1>2 DEF FetchData1, Working
  <2> QED
    BY <1>0, <1>2, <2>1, Fetch1Keeps DEF Goes, Working, Active
<1>3. CASE MaskSend(rdy)
  <2>1. fsm.st = "MASK_SEND" /\ InSend
    BY <1>3 DEF MaskSend, Working
  <2> QED
    BY <1>0, <1>3, <2>1, SendKeeps DEF Goes, Working, Active
<1>4. CASE MaskWait(rdy)
  <2>1. fsm.st = "MASK_WAIT" /\ InWait
    BY <1>4 DEF MaskWait, Working
  <2> QED
    BY <1>0, <1>4, <2>1, WaitKeeps DEF Goes, Working, Active
<1>5. CASE PutData0
  <2>1. fsm.st = "PUT_DATA_0" /\ InPut0
    BY <1>5 DEF PutData0, Working
  <2> QED
    BY <1>0, <1>5, <2>1, Put0Keeps DEF Goes, Working, Active
<1>6. CASE PutData1
  <2>1. fsm.st = "PUT_DATA_1" /\ InPut1
    BY <1>6 DEF PutData1, Working
  <2> QED
    BY <1>0, <1>6, <2>1, Put1Goes, Put1Ends DEF Goes, Working, Active
<1>7. CASE Delay
  <2>1. fsm.st = "DELAY" /\ InDelay
    BY <1>7 DEF Delay, Working
  <2> QED
    BY <1>0, <1>7, <2>1, DelayKeeps DEF Goes, Working, Active
<1>8. CASE Done
  <2>1. fsm.st = "DONE" /\ InDone
    BY <1>8 DEF Done, Working
  <2>2. /\ fsm' = FsmStart /\ FsmType' /\ StoreType'
        /\ NotPut' /\ NoData(0)' /\ NoData(1)' /\ ~init_q' /\ Finished'
        /\ \A n \in 1 .. MaxLatency : n # 3 => pipe'[n] = None
        /\ pipe'[3] # None => ctl'.op = "PRNG"
    BY <1>8, <2>1, DoneKeeps
  <2>3. /\ fsm'.st = "IDLE" /\ MaxLatency' = MaxLatency
        /\ Counted' /\ fsm'.r_mem = 0 /\ fsm'.iter = 0 /\ \A i \in Shares : fsm'.off[i] = 0
    BY <2>2 DEF FsmStart, MaxLatency, Counted
  <2> QED
    BY <2>2, <2>3 DEF Goes, Active
<1>9. ~Idle /\ ~Prng
  BY <1>0 DEF Idle, Prng
<1> QED
  BY <1>1, <1>2, <1>3, <1>4, <1>5, <1>6, <1>7, <1>8, <1>9 DEF Fsm

\* The cycle in which it starts.
LEMMA StartGoes ==
  ASSUME Steady, fsm.st = "IDLE", Resting, drv.pc = "poll", pulse.start, mem = Fresh, NEW rdy, Fsm(rdy)
  PROVE  Goes' /\ Active'
<1>1. Idle
  BY DEF Fsm, Idle, Prng, FetchData0, FetchData1, MaskSend, MaskWait, PutData0, PutData1, Delay, Done
<1>2. Asked'
  BY SameMode DEF Steady
<1> QED
  BY <1>1, <1>2, StartKeeps DEF Goes, Working, Active

\* A cycle in which the accelerator rests.
Rests ==
    /\ FsmType /\ StoreType /\ fsm.st \in {"IDLE", "PRNG"}
    /\ Counted /\ fsm.r_mem = 0 /\ fsm.iter = 0 /\ \A i \in Shares : fsm.off[i] = 0
    /\ NotPut /\ NoData(0) /\ NoData(1) /\ ~init_q /\ Clear

\* Nothing moves but what leaves the core.
LEMMA RestGoes ==
  ASSUME Types, ~Active, ~pulse.start, Resting, NEW rdy, Fsm(rdy)
  PROVE  /\ Rests' /\ mem' = (IF drv.pc = "idle" THEN Fresh ELSE mem)
         /\ fsm.st = "IDLE" /\ ~pulse.load_seed => fsm'.st = "IDLE"
         /\ \A i \in Shares : dma'[i].wr = None
<1>1. Idle \/ Prng
  BY DEF Active, Fsm, Idle, Prng, FetchData0, FetchData1, MaskSend, MaskWait, PutData0, PutData1, Delay, Done
<1>2. Datapath(NoAccess, NoAccess, None, FALSE) /\ UNCHANGED <<shares, bits>>
  BY <1>1 DEF Idle, Prng
<1>3. /\ \A i \in Shares : dma'[i].data = None /\ dma'[i].re = None /\ dma'[i].wr = None
      /\ mem' = Memory(NoAccess)
  BY <1>2, PortsQuiet DEF Resting, NoData, Shares
<1>4. mem' = (IF drv.pc = "idle" THEN Fresh ELSE mem)
  BY <1>3, WriteNone DEF Memory, Resting, NotPut, Shares
<1>5. NotPut' /\ NoData(0)' /\ NoData(1)'
  BY <1>3 DEF NotPut, Pending, NoData, Shares
<1>6. ~init_q' /\ Clear'
  <2>1. /\ pipe'[1] = None /\ init_q' = (FALSE \/ (init_q /\ pipe[Latency] = None))
        /\ \A n \in 2 .. MaxLatency : pipe'[n] = IF n <= Latency THEN pipe[n - 1] ELSE None
    BY <1>2, PathStep, X2xAssumption
  <2>2. MaxLatency \in Nat /\ Latency \in 3 .. MaxLatency /\ (ctl.op = "PRNG" => Latency = 3) /\ MaxLatency' = MaxLatency
    BY LatencyFacts, X2xAssumption DEF MaxLatency
  <2>3. ASSUME NEW n \in 1 .. MaxLatency PROVE pipe'[n] = None
    <3>1. CASE n = 1
      BY <2>1, <3>1
    <3>2. CASE n = 4
      BY <2>1, <2>2, <2>3, <3>2 DEF Resting
    <3>3. CASE n # 1 /\ n # 4
      <4>1. n \in 2 .. MaxLatency /\ n - 1 \in 1 .. MaxLatency /\ n - 1 # 3
        BY <2>2, <2>3, <3>3
      <4>2. pipe[n - 1] = None
        BY <4>1 DEF Resting
      <4> QED
        BY <2>1, <4>1, <4>2
    <3> QED
      BY <3>1, <3>2, <3>3
  <2> QED
    BY <2>1, <2>2, <2>3 DEF Clear, Resting, Types, FlagType
<1>7. /\ FsmType' /\ fsm'.st \in {"IDLE", "PRNG"} /\ (fsm.st = "IDLE" /\ ~pulse.load_seed => fsm'.st = "IDLE")
      /\ fsm'.r_mem = fsm.r_mem /\ fsm'.r_reg = fsm.r_reg /\ fsm'.w_mem = fsm.w_mem /\ fsm'.w_reg = fsm.w_reg
      /\ fsm'.iter = fsm.iter /\ fsm'.off = fsm.off
  <2>1. CASE Idle
    <3>1. PICK t \in {"IDLE", "PRNG"} : t = (IF pulse.load_seed THEN "PRNG" ELSE "IDLE")
      OBVIOUS
    <3>2. fsm' = [fsm EXCEPT !.st = t]
      BY <2>1, <3>1 DEF Idle
    <3> QED
      BY <3>1, <3>2 DEF FsmType, FsmStates, Types
  <2>2. CASE Prng
    <3>1. fsm.st = "PRNG" /\ (fsm' = [fsm EXCEPT !.st = "IDLE", !.prng = 0] \/ fsm' = [fsm EXCEPT !.prng = @ + 1])
      BY <2>2 DEF Prng
    <3>2. CASE fsm' = [fsm EXCEPT !.st = "IDLE", !.prng = 0]
      BY <3>1, <3>2 DEF FsmType, FsmStates, Types
    <3>3. CASE fsm' = [fsm EXCEPT !.prng = @ + 1]
      BY <3>1, <3>3 DEF FsmType, FsmStates, Types
    <3> QED
      BY <3>1, <3>2, <3>3
  <2> QED
    BY <1>1, <2>1, <2>2
<1>8. Counted' /\ fsm'.r_mem = 0 /\ fsm'.iter = 0 /\ \A i \in Shares : fsm'.off[i] = 0
  BY <1>7 DEF Resting, Counted
<1>15. StoreType'
  <2>1. DOMAIN Fresh = Regions /\ \A r \in Regions : DOMAIN Fresh[r] = Words
    BY DEF Fresh
  <2> QED
    BY <1>2, <1>4, <2>1 DEF StoreType, Types, Words
<1> QED
  BY <1>3, <1>4, <1>5, <1>6, <1>7, <1>8, <1>15 DEF Rests

-----------------------------------------------------------------------------
(* The program *)

\* The parts of the program's side of the state.
SoftTypes ==
    /\ CtlType /\ DrvType /\ done_q \in BOOLEAN
    /\ pulse \in [start : BOOLEAN, load_seed : BOOLEAN]
    /\ rdata \in [prime : BOOLEAN, dual : BOOLEAN, busy : BOOLEAN, seed_ip : BOOLEAN, done : BOOLEAN]

\* The kinds of bus cycles.
LEMMA GotoFacts ==
  ASSUME DrvType, NEW pc \in Pcs, Goto(pc)
  PROVE  /\ DrvType' /\ drv'.pc = pc /\ drv'.call = drv.call /\ drv'.bursts = drv.bursts
         /\ drv'.stride = drv.stride /\ drv'.inplace = drv.inplace
  BY DEF Goto, DrvType

\* No self-clearing bit is set.
LEMMA NoPulseFacts ==
  /\ NoPulse \in [start : BOOLEAN, load_seed : BOOLEAN]
  /\ ~NoPulse.start /\ ~NoPulse.load_seed
  BY DEF NoPulse

\* A read of CTRL shows the state before the clock edge.
LEMMA ReadFacts ==
  ASSUME SoftTypes, ReadCtrl
  PROVE  /\ ctl' = ctl /\ pulse' = NoPulse /\ done_q' = ctrl_done
         /\ rdata'.prime = ctl.prime /\ rdata'.dual = ctl.dual /\ rdata'.busy = ctrl_busy
         /\ rdata'.seed_ip = ctrl_seed_ip /\ rdata'.done = (done_q \/ ctrl_done)
         /\ CtlType' /\ done_q' \in BOOLEAN
         /\ rdata' \in [prime : BOOLEAN, dual : BOOLEAN, busy : BOOLEAN, seed_ip : BOOLEAN, done : BOOLEAN]
<1>1. /\ ctl' = ctl /\ pulse' = NoPulse /\ done_q' = ctrl_done
      /\ rdata' = [prime |-> ctl.prime, dual |-> ctl.dual, busy |-> ctrl_busy,
                   seed_ip |-> ctrl_seed_ip, done |-> done_q \/ ctrl_done]
  BY DEF ReadCtrl
<1>2. ctrl_busy \in BOOLEAN /\ ctrl_seed_ip \in BOOLEAN /\ ctrl_done \in BOOLEAN /\ (done_q \/ ctrl_done) \in BOOLEAN
  BY DEF ctrl_busy, ctrl_seed_ip, ctrl_done
<1>3. ctl.prime \in BOOLEAN /\ ctl.dual \in BOOLEAN /\ CtlType'
  BY <1>1 DEF SoftTypes, CtlType
<1> HIDE DEF ctrl_busy, ctrl_seed_ip, ctrl_done
<1> QED
  BY <1>1, <1>2, <1>3

\* While a call runs the program only polls.
LEMMA BusyDriver ==
  ASSUME SoftTypes, Protocol, Active \/ pulse.start, Driver \/ Pause
  PROVE  /\ Same /\ SoftTypes' /\ drv'.pc \in {"poll", "check"} /\ pulse' = NoPulse
         /\ fsm.st # "DONE" => ~done_q' /\ (drv'.pc = "check" => ~rdata'.done)
<1>1. /\ drv.pc \in {"poll", "check"} /\ ~done_q /\ (drv.pc = "check" => ~rdata.done)
  BY DEF Protocol, Polling, CorePcs, Active
<1>2. Poll \/ Check \/ (drv.pc = "poll" /\ Pause)
  BY <1>1 DEF Driver, Pause, CoreRead, CoreCheck, SetLen, SetDin0, SetDin1, SetDout0, SetDout1, Start,
     ModRead, ModReset, ModWrite, Modulus, SeedRead, SeedCheck, SeedLow, SeedHigh, CallCore, CallOther, Return, At
<1>3. CASE Poll
  <2>1. ReadCtrl /\ Goto("check") /\ "check" \in Pcs /\ DrvType
    BY <1>3 DEF Poll, Pcs, SoftTypes
  <2>2. /\ DrvType' /\ drv'.pc = "check" /\ drv'.call = drv.call /\ drv'.bursts = drv.bursts
        /\ drv'.stride = drv.stride /\ drv'.inplace = drv.inplace
    BY <2>1, GotoFacts
  <2>3. fsm.st # "DONE" => ~ctrl_done
    BY DEF ctrl_done
  <2> QED
    BY <1>1, <2>1, <2>2, <2>3, ReadFacts, NoPulseFacts DEF SoftTypes, Same
<1>4. CASE Check
  <2>1. NoBus /\ Goto("poll") /\ "poll" \in Pcs /\ DrvType
    BY <1>1, <1>4 DEF Check, At, Pcs, SoftTypes
  <2>2. /\ DrvType' /\ drv'.pc = "poll" /\ drv'.call = drv.call /\ drv'.bursts = drv.bursts
        /\ drv'.stride = drv.stride /\ drv'.inplace = drv.inplace
    BY <2>1, GotoFacts
  <2>3. ctl' = ctl /\ pulse' = NoPulse /\ rdata' = rdata /\ done_q' = (done_q \/ ctrl_done)
    BY <2>1 DEF NoBus, Unread
  <2>4. done_q' \in BOOLEAN /\ (fsm.st # "DONE" => ~done_q')
    BY <1>1, <2>3 DEF ctrl_done
  <2> QED
    BY <2>2, <2>3, <2>4, NoPulseFacts DEF SoftTypes, Same, CtlType
<1>5. CASE drv.pc = "poll" /\ Pause
  <2>1. NoBus /\ drv' = drv
    BY <1>5 DEF Pause
  <2>3. ctl' = ctl /\ pulse' = NoPulse /\ rdata' = rdata /\ done_q' = (done_q \/ ctrl_done)
    BY <2>1 DEF NoBus, Unread
  <2>4. done_q' \in BOOLEAN /\ (fsm.st # "DONE" => ~done_q')
    BY <1>1, <2>3 DEF ctrl_done
  <2> QED
    BY <1>5, <2>1, <2>3, <2>4, NoPulseFacts DEF SoftTypes, Same, CtlType, DrvType
<1> QED
  BY <1>2, <1>3, <1>4, <1>5

\* The flag of the dropped dummy is a flag.
LEMMA FlagIsBoolean ==
  ASSUME NEW rdy, Fsm(rdy)
  PROVE  init_q' \in BOOLEAN
<1>1. ASSUME NEW reads, NEW writes, NEW datum, NEW first, Datapath(reads, writes, datum, first)
      PROVE  init_q' \in BOOLEAN
  BY <1>1 DEF Datapath
<1> QED
  BY <1>1 DEF Fsm, Idle, Prng, FetchData0, FetchData1, MaskSend, MaskWait, PutData0, PutData1, Delay, Done

\* A cycle in which the accelerator works or is started.
LEMMA BusyKeeps ==
  ASSUME Regular, IInv, Active \/ pulse.start, NEW rdy \in Ready, Fsm(rdy), Driver \/ Pause
  PROVE  IInv'
<1>1. Types /\ SoftTypes /\ Protocol /\ Settings /\ Contents
  BY DEF IInv, Types, SoftTypes, FlagType
<1>2. /\ Same /\ SoftTypes' /\ drv'.pc \in {"poll", "check"} /\ pulse' = NoPulse
      /\ fsm.st # "DONE" => ~done_q' /\ (drv'.pc = "check" => ~rdata'.done)
  BY <1>1, BusyDriver
<1>3. ~pulse'.start /\ ~pulse'.load_seed
  BY <1>2, NoPulseFacts
<1>4. drv.pc \in {"poll", "check"}
  BY <1>1 DEF Protocol, Polling
<1>5. Asked /\ Steady
  BY <1>1, <1>2, <1>4 DEF Contents, Steady
<1>6. Goes' /\ (Active' => fsm.st # "DONE")
  <2>1. CASE Active
    BY <1>5, <2>1, WorkingGoes DEF IInv
  <2>2. CASE ~Active
    <3>1. fsm.st = "IDLE" /\ Resting /\ drv.pc = "poll" /\ pulse.start /\ mem = Fresh
      BY <1>1, <2>2 DEF IInv, Protocol, Contents, CorePcs
    <3> QED
      BY <1>5, <3>1, StartGoes
  <2> QED
    BY <2>1, <2>2
<1>7. Types'
  BY <1>2, <1>6, FlagIsBoolean DEF Types, SoftTypes, FlagType, Goes
<1>8. Protocol'
  BY <1>2, <1>3, <1>6 DEF Protocol, Polling, CorePcs, Goes
<1>9. Asked'
  BY <1>2, <1>5, SameMode
<1>10. Settings'
  <2>1. This' = This /\ ctl' = ctl
    BY <1>2, SameMode DEF Same
  <2>2. Lawful(This, drv.bursts) => Lawful(This, drv.bursts)'
    BY <1>2, <2>1 DEF Lawful, Same
  <2>3. /\ drv.call \in Calls /\ drv.bursts \in Bursts /\ Lawful(This, drv.bursts)
        /\ This.onebit => drv.stride \in Strides
        /\ drv.inplace => ~This.onebit /\ This.op # "PRNG"
    BY <1>1, <1>4 DEF Settings, CorePcs
  <2> QED
    BY <1>2, <2>1, <2>2, <2>3 DEF Settings, Same
<1>11. Contents'
  BY <1>2, <1>3, <1>6, <1>9 DEF Contents, Goes
<1>12. ~Active' => Resting'
  BY <1>2, <1>3, <1>6 DEF Goes, Resting
<1> QED
  BY <1>6, <1>7, <1>8, <1>10, <1>11, <1>12 DEF IInv, Goes

\* A cycle in which the accelerator rests, as the program sees it.
Waiting ==
    /\ Regular /\ SoftTypes /\ Protocol /\ Settings /\ Contents /\ ~Active /\ ~pulse.start
    /\ fsm'.st \in {"IDLE", "PRNG"} /\ (fsm.st = "IDLE" /\ ~pulse.load_seed => fsm'.st = "IDLE")
    /\ mem' = (IF drv.pc = "idle" THEN Fresh ELSE mem)
\* What the program leaves then.
Left ==
    /\ SoftTypes' /\ Protocol' /\ Settings' /\ ~Active'
    /\ drv'.pc \in CorePcs /\ (drv'.pc \notin {"poll", "check", "returned"} \/ pulse'.start) => mem' = Fresh
    /\ drv'.pc \in {"poll", "check", "returned"} => Asked'
    /\ drv'.pc \in {"poll", "check", "returned"} /\ ~pulse'.start => drv.pc \in {"poll", "check"} /\ Same

\* The status bits while it rests.
LEMMA RestFacts ==
  ASSUME Waiting
  PROVE  /\ ~Active' /\ ~ctrl_busy /\ ~ctrl_done /\ (ctrl_seed_ip <=> fsm.st = "PRNG")
         /\ (~ctrl_seed_ip <=> fsm.st = "IDLE")
         /\ drv.pc # "idle" => ~pulse.load_seed /\ mem' = mem
  BY DEF Waiting, Active, ctrl_busy, ctrl_done, ctrl_seed_ip, Protocol

\* Outside of a call nothing is asked for.
LEMMA Elsewhere ==
  ASSUME Waiting, SoftTypes', ~pulse'.start, drv'.pc \notin CorePcs, drv'.pc # "failed",
         pulse'.load_seed => drv'.pc = "idle", drv'.pc = "seed_check" => ~rdata'.busy
  PROVE  Left
<1>1. ~Active'
  BY RestFacts
<1>2. Protocol' /\ Settings'
  BY <1>1 DEF Protocol, Settings, CorePcs
<1> QED
  BY <1>1, <1>2 DEF Left, CorePcs

\* The reads of x2x_set_modulus and x2x_seed.
LEMMA ReadKeeps ==
  ASSUME Waiting, ReadCtrl, NEW pc \in Pcs, Goto(pc), pc \in {"mod_reset", "seed_check"}
  PROVE  Left
<1>1. SoftTypes
  BY DEF Waiting
<1>2. SoftTypes' /\ drv'.pc = pc /\ pulse' = NoPulse /\ ~rdata'.busy
  BY <1>1, GotoFacts, ReadFacts, NoPulseFacts, RestFacts DEF SoftTypes
<1> QED
  BY <1>2, NoPulseFacts, Elsewhere DEF CorePcs

\* A cycle that writes a register of the mode, or none.
LEMMA PlainFacts ==
  ASSUME Waiting, CtlType', pulse' = NoPulse, Unread
  PROVE  /\ done_q' = done_q /\ rdata' = rdata /\ (DrvType' => SoftTypes')
<1>1. done_q' = done_q /\ rdata' = rdata
  BY RestFacts DEF Waiting, SoftTypes, Unread
<1> QED
  BY <1>1, NoPulseFacts DEF SoftTypes, Waiting

\* The same outside of a call.
LEMMA PlainElsewhere ==
  ASSUME Waiting, CtlType', pulse' = NoPulse, Unread, DrvType',
         drv'.pc \notin CorePcs, drv'.pc \notin {"failed", "seed_check"}
  PROVE  Left
  BY PlainFacts, NoPulseFacts, Elsewhere

\* x2x_set_modulus, x2x_seed and the time between two calls.
LEMMA IdleKeeps ==
  ASSUME Waiting, \/ ModRead \/ ModReset \/ ModWrite \/ Modulus \/ SeedRead \/ SeedCheck \/ SeedLow \/ SeedHigh
                  \/ CallOther \/ Return \/ (drv.pc = "idle" /\ Pause)
  PROVE  Left
<1>1. SoftTypes /\ CtlType /\ DrvType
  BY DEF Waiting, SoftTypes
<1>2. ASSUME NEW pc \in Pcs \ (CorePcs \cup {"failed", "seed_check"}), Goto(pc), pulse' = NoPulse, Unread, CtlType'
      PROVE  Left
  BY <1>1, <1>2, GotoFacts, PlainElsewhere
<1>3. ctl' = ctl => CtlType'
  BY <1>1 DEF CtlType
<1>4. ASSUME NEW fields, NEW start, WriteCtrl(fields, start), fields.op \in Opcodes, fields.b2a \in BOOLEAN,
             fields.prime \in BOOLEAN, fields.dual \in BOOLEAN, fields.share \in BOOLEAN, fields.rej \in BOOLEAN,
             fields.onebit \in BOOLEAN, fields.stride \in Nat
      PROVE  CtlType' /\ Unread /\ pulse' = [start |-> start, load_seed |-> FALSE]
  BY <1>1, <1>4 DEF WriteCtrl, CtlType
<1>5. ASSUME NEW prime \in BOOLEAN, NEW dual \in BOOLEAN, NEW rej \in BOOLEAN, WriteCtrl(Mode(prime, dual, rej), FALSE)
      PROVE  CtlType' /\ Unread /\ pulse' = NoPulse
  <2>1. "PRNG" \in Opcodes
    BY DEF Opcodes
  <2>2. PICK f : f = Mode(prime, dual, rej)
    OBVIOUS
  <2>3. /\ f.op \in Opcodes /\ f.b2a \in BOOLEAN /\ f.prime \in BOOLEAN /\ f.dual \in BOOLEAN
        /\ f.share \in BOOLEAN /\ f.rej \in BOOLEAN /\ f.onebit \in BOOLEAN /\ f.stride \in Nat
    BY <2>1, <2>2 DEF Mode
  <2> QED
    BY <1>4, <1>5, <2>2, <2>3 DEF NoPulse
<1>6. CASE ModRead
  BY <1>6, ReadKeeps DEF ModRead, Pcs
<1>7. CASE SeedRead
  BY <1>7, ReadKeeps DEF SeedRead, Pcs
<1>8. CASE ModReset
  <2>1. rdata.prime \in BOOLEAN /\ rdata.dual \in BOOLEAN
    BY <1>1 DEF SoftTypes
  <2>2. CtlType' /\ Unread /\ pulse' = NoPulse
    BY <1>5, <1>8, <2>1 DEF ModReset
  <2> QED
    BY <1>2, <1>8, <2>2 DEF ModReset, Pcs, CorePcs
<1>9. CASE ModWrite
  <2>1. PICK m \in Moduli, rej \in BOOLEAN :
          WriteCtrl(Mode(m \in {"prime", "prime_dual"}, m \in {"pow2_dual", "prime_dual"}, rej), FALSE)
    BY <1>9 DEF ModWrite
  <2>2. \E p, d \in BOOLEAN : WriteCtrl(Mode(p, d, rej), FALSE)
    <3>1. (m \in {"prime", "prime_dual"}) \in BOOLEAN /\ (m \in {"pow2_dual", "prime_dual"}) \in BOOLEAN
      OBVIOUS
    <3> QED
      BY <2>1, <3>1, Zenon
  <2>3. PICK p \in BOOLEAN, d \in BOOLEAN : WriteCtrl(Mode(p, d, rej), FALSE)
    BY <2>2
  <2>4. CtlType' /\ Unread /\ pulse' = NoPulse
    BY <1>5, <2>3
  <2> QED
    BY <1>2, <1>9, <2>4 DEF ModWrite, Pcs, CorePcs
<1>10. CASE Modulus
  BY <1>2, <1>3, <1>10 DEF Modulus, WriteReg, Pcs, CorePcs
<1>11. CASE SeedCheck
  <2>1. ~rdata.busy /\ NoBus /\ Goto("seed_0")
    BY <1>11 DEF SeedCheck, At, Waiting, Protocol
  <2> QED
    BY <1>2, <1>3, <2>1 DEF NoBus, Pcs, CorePcs
<1>12. CASE SeedLow
  BY <1>2, <1>3, <1>12 DEF SeedLow, WriteReg, Pcs, CorePcs
<1>13. CASE SeedHigh
  <2>1. ctl' = ctl /\ Goto("idle") /\ pulse' = [start |-> FALSE, load_seed |-> TRUE] /\ Unread
    BY <1>13 DEF SeedHigh, WriteSeedHigh
  <2>2. DrvType' /\ drv'.pc = "idle"
    BY <1>1, <2>1, GotoFacts DEF Pcs
  <2>3. SoftTypes' /\ ~pulse'.start
    BY <1>1, <1>3, <2>1, <2>2, RestFacts DEF SoftTypes, Unread
  <2> QED
    BY <2>2, <2>3, Elsewhere DEF CorePcs
<1>14. CASE CallOther
  <2>1. PICK pc \in {"mod_read", "seed_read"} : Goto(pc)
    BY <1>14 DEF CallOther
  <2> QED
    BY <1>2, <1>3, <1>14, <2>1 DEF CallOther, NoBus, Pcs, CorePcs
<1>15. CASE Return
  <2>1. drv' = Idling
    BY <1>15 DEF Return
  <2>2. DrvType' /\ drv'.pc = "idle"
    BY <2>1 DEF DrvType, Idling, Pcs
  <2> QED
    BY <1>3, <1>15, <2>2, PlainElsewhere DEF Return, NoBus, CorePcs
<1>16. CASE drv.pc = "idle" /\ Pause
  <2>1. DrvType' /\ drv'.pc = "idle" /\ NoBus
    BY <1>1, <1>16 DEF Pause, DrvType
  <2> QED
    BY <1>3, <2>1, PlainElsewhere DEF NoBus, CorePcs
<1> QED
  BY <1>6, <1>7, <1>8, <1>9, <1>10, <1>11, <1>12, <1>13, <1>14, <1>15, <1>16

SetupPcs == {"data_len", "din_0", "din_1", "dout_0", "dout_1", "start"}
Called ==
    /\ drv.call \in Calls /\ drv.bursts \in Bursts /\ Lawful(This, drv.bursts)
    /\ This.onebit => drv.stride \in Strides
    /\ drv.inplace => ~This.onebit /\ This.op # "PRNG"

\* What was called for does not change until the function returns.
LEMMA CalledStays ==
  ASSUME DrvType, NEW pc \in Pcs, Goto(pc), ctl'.dual = ctl.dual, ctl'.prime = ctl.prime
  PROVE  /\ DrvType' /\ drv'.pc = pc /\ This' = This /\ Total' = Total /\ (\A i : Dst(i)' = Dst(i))
         /\ (Called => Called') /\ drv'.stride = drv.stride /\ drv'.call = drv.call
         /\ drv'.bursts = drv.bursts /\ drv'.inplace = drv.inplace
<1>1. /\ DrvType' /\ drv'.pc = pc /\ drv'.call = drv.call /\ drv'.bursts = drv.bursts
      /\ drv'.stride = drv.stride /\ drv'.inplace = drv.inplace
  BY GotoFacts
<1>2. This' = This /\ Total' = Total
  BY <1>1 DEF This, Total
<1>3. \A i : Dst(i)' = Dst(i)
  BY <1>1, <1>2 DEF Dst
<1>4. Called => Called'
  BY <1>1, <1>2 DEF Called, Lawful
<1> QED
  BY <1>1, <1>2, <1>3, <1>4

\* The registers that were written before are as they should be.
Written(pc) ==
    /\ pc \in {"din_0", "din_1", "dout_0", "dout_1", "start"} =>
          ctl.len = Total * (IF This.onebit /\ ctl.dual THEN 2 ELSE 1)
    /\ pc \in {"din_1", "dout_0", "dout_1", "start"} /\ This.op # "PRNG" => ctl.din[0] = "a"
    /\ pc \in {"dout_0", "dout_1", "start"} /\ This.op # "PRNG" /\ ~This.share => ctl.din[1] = "b"
    /\ pc \in {"dout_1", "start"} => ctl.dout[0] = Dst(0)
    /\ pc = "start" => ctl.dout[1] = Dst(1)

\* x2x_core writes the registers one by one.
LEMMA SetupKeeps ==
  ASSUME Waiting, drv.pc \in SetupPcs \cup {"core_check"}, fsm.st = "IDLE",
         NEW pc \in SetupPcs, Goto(pc), pulse' = NoPulse, Unread, CtlType',
         ctl'.dual = ctl.dual, ctl'.prime = ctl.prime, Written(pc)'
  PROVE  Left
<1>1. /\ DrvType /\ Protocol /\ Settings /\ Contents /\ ~Active /\ ~pulse.start
      /\ pc \in Pcs /\ drv.pc # "idle" /\ drv.pc \in CorePcs
  BY DEF Waiting, SoftTypes, SetupPcs, Pcs, CorePcs
<1>2. /\ DrvType' /\ drv'.pc = pc /\ (Called => Called')
  BY <1>1, CalledStays
<1>3. done_q' = done_q /\ rdata' = rdata /\ SoftTypes' /\ ~pulse'.start /\ ~pulse'.load_seed
  BY <1>2, PlainFacts, NoPulseFacts
<1>4. Called /\ rdata.prime = ctl.prime /\ rdata.dual = ctl.dual /\ mem = Fresh /\ ~done_q
  BY <1>1 DEF Settings, Called, Contents, Protocol, SetupPcs, CorePcs, Polling
<1>5. ~Active' /\ ~pulse.load_seed /\ mem' = mem /\ fsm'.st = "IDLE"
  BY <1>1, RestFacts DEF Waiting
<1>6. Protocol'
  BY <1>2, <1>3, <1>4, <1>5 DEF Protocol, SetupPcs, CorePcs, Polling
<1>7. Settings'
  BY <1>2, <1>3, <1>4 DEF Settings, Called, Written, SetupPcs
<1>8. drv'.pc \notin {"poll", "check", "returned"}
  BY <1>2 DEF SetupPcs
<1> QED
  BY <1>3, <1>4, <1>5, <1>6, <1>7, <1>8 DEF Left

\* Each of them gets what was asked for.
LEMMA SettingRegisters ==
  ASSUME Waiting, SetLen \/ SetDin0 \/ SetDin1 \/ SetDout0 \/ SetDout1
  PROVE  Left
<1>0. drv.pc \in {"data_len", "din_0", "din_1", "dout_0", "dout_1"}
  BY DEF SetLen, SetDin0, SetDin1, SetDout0, SetDout1, At
<1>1. /\ SoftTypes /\ CtlType /\ DrvType /\ Protocol /\ Settings /\ ~Active
      /\ drv.pc \in CorePcs /\ drv.pc \in SetupPcs
  BY <1>0 DEF Waiting, SoftTypes, CorePcs, SetupPcs
<1>2. fsm.st = "IDLE"
  BY <1>0, <1>1 DEF Protocol, Active, CorePcs
<1>3. /\ drv.call \in Calls /\ drv.bursts \in Bursts /\ This \in Answer /\ BurstLen \in Nat /\ drv.bursts \in Nat
  BY <1>1, WrapperFacts, X2xAssumption DEF Settings, This, Waiting, Regular
<1>4. This.op \in Opcodes /\ This.share \in BOOLEAN /\ This.onebit \in BOOLEAN
  BY <1>3 DEF Answer
<1>5. Written(drv.pc)
  BY <1>0, <1>1 DEF Written, Settings
<1>6. ASSUME NEW regs, WriteReg(regs)
      PROVE  ctl' = regs /\ pulse' = NoPulse /\ Unread
  BY <1>6 DEF WriteReg
<1>7. ASSUME NEW pc \in SetupPcs, Goto(pc), pulse' = NoPulse, Unread, CtlType',
             ctl'.dual = ctl.dual, ctl'.prime = ctl.prime, Written(pc)'
      PROVE  Left
  BY <1>1, <1>2, <1>7, SetupKeeps
<1>8. ASSUME NEW pc \in SetupPcs, Goto(pc), ctl'.dual = ctl.dual, ctl'.prime = ctl.prime
      PROVE  This' = This /\ Total' = Total /\ \A i : Dst(i)' = Dst(i)
  BY <1>1, <1>8, CalledStays DEF SetupPcs, Pcs
<1>9. CASE SetLen
  <2>1. PICK n : n = BurstLen * drv.bursts * (IF This.onebit /\ ctl.dual THEN 2 ELSE 1)
    OBVIOUS
  <2>2. n \in Nat /\ n = Total * (IF This.onebit /\ ctl.dual THEN 2 ELSE 1)
    <3>1. BurstLen * drv.bursts = Total /\ Total \in Nat
      BY <1>3 DEF Total
    <3> QED
      BY <2>1, <3>1
  <2>3. ctl' = [ctl EXCEPT !.len = n] /\ pulse' = NoPulse /\ Unread /\ Goto("din_0")
    BY <1>9, <2>1 DEF SetLen, WriteReg
  <2>4. CtlType' /\ ctl'.dual = ctl.dual /\ ctl'.prime = ctl.prime /\ ctl'.len = n
    BY <1>1, <2>2, <2>3 DEF CtlType
  <2>5. This' = This /\ Total' = Total
    BY <1>8, <2>3, <2>4 DEF SetupPcs
  <2>6. Written("din_0")'
    BY <2>2, <2>4, <2>5 DEF Written
  <2> QED
    BY <1>7, <2>3, <2>4, <2>6 DEF SetupPcs
<1>10. CASE SetDin0
  <2>1. PICK r \in Pointers : r = (IF This.op = "PRNG" THEN "null" ELSE "a")
    BY DEF Pointers, Regions
  <2>2. PICK pc \in {"dout_0", "din_1"} : pc = (IF This.share THEN "dout_0" ELSE "din_1")
    OBVIOUS
  <2>3. ctl' = [ctl EXCEPT !.din[0] = r] /\ pulse' = NoPulse /\ Unread /\ Goto(pc) /\ drv.pc = "din_0"
    BY <1>10, <2>1, <2>2 DEF SetDin0, WriteReg, At
  <2>4. /\ CtlType' /\ ctl'.dual = ctl.dual /\ ctl'.prime = ctl.prime /\ ctl'.len = ctl.len
        /\ ctl'.din[0] = r
    BY <1>1, <2>1, <2>3 DEF CtlType, Shares
  <2>5. This' = This /\ Total' = Total
    BY <1>8, <2>3, <2>4 DEF SetupPcs
  <2>6. Written(pc)'
    BY <1>4, <1>5, <2>1, <2>2, <2>3, <2>4, <2>5 DEF Written
  <2> QED
    BY <1>7, <2>3, <2>4, <2>6 DEF SetupPcs
<1>11. CASE SetDin1
  <2>1. PICK r \in Pointers : r = (IF This.op = "PRNG" THEN "null" ELSE "b")
    BY DEF Pointers, Regions
  <2>3. ctl' = [ctl EXCEPT !.din[1] = r] /\ pulse' = NoPulse /\ Unread /\ Goto("dout_0") /\ drv.pc = "din_1"
    BY <1>11, <2>1 DEF SetDin1, WriteReg, At
  <2>4. /\ CtlType' /\ ctl'.dual = ctl.dual /\ ctl'.prime = ctl.prime /\ ctl'.len = ctl.len
        /\ ctl'.din[1] = r /\ ctl'.din[0] = ctl.din[0]
    BY <1>1, <2>1, <2>3 DEF CtlType, Shares
  <2>5. This' = This /\ Total' = Total
    BY <1>8, <2>3, <2>4 DEF SetupPcs
  <2>6. Written("dout_0")'
    BY <1>4, <1>5, <2>1, <2>3, <2>4, <2>5 DEF Written
  <2> QED
    BY <1>7, <2>3, <2>4, <2>6 DEF SetupPcs
<1>12. Dst(0) \in Pointers /\ Dst(1) \in Pointers
  BY DEF Dst, Pointers, Regions
<1>13. CASE SetDout0
  <2>1. PICK r \in Pointers : r = Dst(0)
    BY <1>12
  <2>3. ctl' = [ctl EXCEPT !.dout[0] = r] /\ pulse' = NoPulse /\ Unread /\ Goto("dout_1") /\ drv.pc = "dout_0"
    BY <1>13, <2>1 DEF SetDout0, WriteReg, At
  <2>4. /\ CtlType' /\ ctl'.dual = ctl.dual /\ ctl'.prime = ctl.prime /\ ctl'.len = ctl.len
        /\ ctl'.din = ctl.din /\ ctl'.dout[0] = r
    BY <1>1, <2>1, <2>3 DEF CtlType, Shares
  <2>5. This' = This /\ Total' = Total /\ Dst(0)' = Dst(0)
    BY <1>8, <2>3, <2>4 DEF SetupPcs
  <2>6. Written("dout_1")'
    BY <1>4, <1>5, <2>1, <2>3, <2>4, <2>5 DEF Written
  <2> QED
    BY <1>7, <2>3, <2>4, <2>6 DEF SetupPcs
<1>14. CASE SetDout1
  <2>1. PICK r \in Pointers : r = Dst(1)
    BY <1>12
  <2>3. ctl' = [ctl EXCEPT !.dout[1] = r] /\ pulse' = NoPulse /\ Unread /\ Goto("start") /\ drv.pc = "dout_1"
    BY <1>14, <2>1 DEF SetDout1, WriteReg, At
  <2>4. /\ CtlType' /\ ctl'.dual = ctl.dual /\ ctl'.prime = ctl.prime /\ ctl'.len = ctl.len
        /\ ctl'.din = ctl.din /\ ctl'.dout[1] = r /\ ctl'.dout[0] = ctl.dout[0]
    BY <1>1, <2>1, <2>3 DEF CtlType, Shares
  <2>5. This' = This /\ Total' = Total /\ Dst(0)' = Dst(0) /\ Dst(1)' = Dst(1)
    BY <1>8, <2>3, <2>4 DEF SetupPcs
  <2>6. Written("start")'
    BY <1>4, <1>5, <2>1, <2>3, <2>4, <2>5 DEF Written
  <2> QED
    BY <1>7, <2>3, <2>4, <2>6 DEF SetupPcs
<1> QED
  BY <1>9, <1>10, <1>11, <1>13, <1>14

\* The call has been made, or the driver waits for the seed.
LEMMA CallingKeeps ==
  ASSUME Waiting, SoftTypes', Called', pulse' = NoPulse, drv'.pc = "core_read", mem' = Fresh
  PROVE  Left
<1>1. ~Active' /\ ~pulse'.start /\ ~pulse'.load_seed
  BY RestFacts, NoPulseFacts
<1>2. Protocol' /\ Settings'
  BY <1>1 DEF Protocol, Settings, Called, CorePcs, Polling
<1> QED
  BY <1>1, <1>2 DEF Left

\* A function of x2x.c is called.
LEMMA CallCoreKeeps ==
  ASSUME Waiting, CallCore
  PROVE  Left
<1>1. /\ SoftTypes /\ CtlType /\ drv.pc = "idle" /\ ctl' = ctl /\ pulse' = NoPulse /\ Unread
      /\ Strides \subseteq Nat \ {0} /\ Bursts \subseteq Nat \ {0}
  BY X2xAssumption DEF Waiting, SoftTypes, CallCore, At, NoBus
<1>2. PICK c \in Calls, n \in Bursts, inplace \in BOOLEAN :
         \E s \in IF Wrapper[c].onebit THEN Strides ELSE {1} :
            /\ Lawful(Wrapper[c], n)
            /\ Wrapper[c].onebit \/ Wrapper[c].op = "PRNG" => ~inplace
            /\ drv' = [pc |-> "core_read", call |-> c, bursts |-> n, stride |-> s, inplace |-> inplace]
  BY DEF CallCore
<1>3. PICK w : w = Wrapper[c]
  OBVIOUS
<1>4. PICK s \in IF w.onebit THEN Strides ELSE {1} :
            /\ Lawful(w, n)
            /\ w.onebit \/ w.op = "PRNG" => ~inplace
            /\ drv' = [pc |-> "core_read", call |-> c, bursts |-> n, stride |-> s, inplace |-> inplace]
  BY <1>2, <1>3
<1>5. s \in Nat \ {0} /\ (w.onebit => s \in Strides)
  BY <1>1, <1>4
<1>6. DrvType' /\ drv'.pc = "core_read" /\ drv'.call = c /\ drv'.bursts = n /\ drv'.stride = s /\ drv'.inplace = inplace
  BY <1>1, <1>4, <1>5 DEF DrvType, Pcs
<1>7. This' = w
  BY <1>3, <1>6 DEF This
<1>8. Called'
  <2>1. Lawful(w, n) => Lawful(This, drv.bursts)'
    BY <1>1, <1>6, <1>7 DEF Lawful
  <2> QED
    BY <1>4, <1>5, <1>6, <1>7, <2>1 DEF Called
<1>9. CtlType' /\ mem' = Fresh
  BY <1>1 DEF CtlType, Waiting
<1>10. SoftTypes'
  BY <1>1, <1>6, <1>9, PlainFacts
<1> QED
  BY <1>1, <1>6, <1>8, <1>9, <1>10, CallingKeeps

\* x2x_core looks at the status before it writes anything.
LEMMA CoreKeeps ==
  ASSUME Waiting, CoreRead \/ CoreCheck \/ (drv.pc = "core_read" /\ Pause)
  PROVE  Left
<1>0. drv.pc \in {"core_read", "core_check"}
  BY DEF CoreRead, CoreCheck, At
<1>1. /\ SoftTypes /\ CtlType /\ DrvType /\ Protocol /\ Settings /\ Contents /\ ~Active
      /\ drv.pc \in CorePcs /\ Called /\ mem' = Fresh /\ mem = Fresh /\ ~Active' /\ ~pulse.load_seed
  <2>1. SoftTypes /\ CtlType /\ DrvType /\ Protocol /\ Settings /\ Contents /\ ~Active
    BY DEF Waiting, SoftTypes
  <2>2. drv.pc \in CorePcs /\ drv.pc \notin {"poll", "check", "returned", "idle"}
    BY <1>0 DEF CorePcs
  <2>3. Called /\ mem = Fresh
    BY <2>1, <2>2 DEF Settings, Called, Contents
  <2> QED
    BY <2>1, <2>2, <2>3, RestFacts
<1>2. ctl' = ctl => CtlType'
  BY <1>1 DEF CtlType
<1>3. "core_read" \in Pcs /\ "core_check" \in Pcs
  BY DEF Pcs
<1>4. CASE CoreRead
  <2>1. ReadCtrl /\ Goto("core_check") /\ drv.pc = "core_read"
    BY <1>4 DEF CoreRead, At
  <2>2. /\ ctl' = ctl /\ pulse' = NoPulse /\ ~done_q' /\ rdata'.prime = ctl.prime /\ rdata'.dual = ctl.dual
        /\ ~rdata'.busy /\ (~rdata'.seed_ip => fsm.st = "IDLE") /\ SoftTypes'
    BY <1>1, <1>3, <2>1, ReadFacts, RestFacts, GotoFacts, NoPulseFacts DEF SoftTypes
  <2>3. drv'.pc = "core_check" /\ Called' /\ ~pulse'.start /\ ~pulse'.load_seed
    BY <1>1, <1>3, <2>1, <2>2, CalledStays, NoPulseFacts
  <2>4. ~rdata'.seed_ip => fsm'.st = "IDLE"
    BY <1>1, <2>2 DEF Waiting
  <2>5. Protocol'
    BY <1>1, <2>2, <2>3, <2>4 DEF Protocol, CorePcs
  <2>6. Settings'
    BY <2>2, <2>3 DEF Settings, Called, CorePcs
  <2> QED
    BY <1>1, <2>2, <2>3, <2>5, <2>6 DEF Left, CorePcs
<1>5. CASE CoreCheck
  <2>1. NoBus /\ drv.pc = "core_check" /\ ~rdata.busy /\ (~rdata.seed_ip => fsm.st = "IDLE")
    BY <1>1, <1>5 DEF CoreCheck, At, Protocol
  <2>2. ctl' = ctl /\ pulse' = NoPulse /\ Unread /\ CtlType'
    BY <1>2, <2>1 DEF NoBus
  <2>3. CASE rdata.seed_ip
    <3>1. Goto("core_read")
      BY <1>5, <2>1, <2>3 DEF CoreCheck
    <3>2. DrvType' /\ drv'.pc = "core_read" /\ Called'
      BY <1>1, <1>3, <2>2, <3>1, CalledStays
    <3> QED
      BY <1>1, <2>2, <3>2, PlainFacts, CallingKeeps
  <2>4. CASE ~rdata.seed_ip
    <3>1. Goto("data_len") /\ "data_len" \in SetupPcs /\ drv.pc \in SetupPcs \cup {"core_check"}
      BY <1>5, <2>1, <2>4 DEF CoreCheck, SetupPcs
    <3>2. Written("data_len")'
      BY DEF Written
    <3> QED
      BY <2>1, <2>2, <2>4, <3>1, <3>2, SetupKeeps
  <2> QED
    BY <2>3, <2>4
<1>6. CASE drv.pc = "core_read" /\ Pause
  <2>1. ctl' = ctl /\ pulse' = NoPulse /\ Unread /\ CtlType' /\ drv' = drv
    BY <1>2, <1>6 DEF NoBus, Pause
  <2>2. DrvType' /\ drv'.pc = "core_read" /\ Called'
    BY <1>1, <1>6, <2>1 DEF DrvType, Called, Lawful, This
  <2> QED
    BY <1>1, <2>1, <2>2, PlainFacts, CallingKeeps
<1> QED
  BY <1>4, <1>5, <1>6

\* The write that starts it completes what was asked for: DUAL and PRIME are or-ed back from the read.
LEMMA StartIsAsked ==
  ASSUME Waiting, Start
  PROVE  Left
<1>1. /\ SoftTypes /\ CtlType /\ DrvType /\ Protocol /\ Settings /\ Contents /\ ~Active /\ drv.pc = "start"
      /\ Goto("poll") /\ "poll" \in Pcs /\ Regular
  BY DEF Waiting, SoftTypes, Start, At, Pcs
<1>2. /\ Called /\ mem = Fresh /\ mem' = mem /\ ~done_q /\ rdata.prime = ctl.prime /\ rdata.dual = ctl.dual
      /\ ~Active' /\ ~pulse.load_seed /\ fsm.st = "IDLE"
  BY <1>1, RestFacts DEF Settings, Called, Contents, Protocol, CorePcs, Polling, Active
<1>3. Written("start")
  BY <1>1 DEF Settings, Written
<1>4. This \in Answer /\ drv.stride \in Nat
  BY <1>1, <1>2, WrapperFacts DEF Called, This, Regular, DrvType
<1>5. /\ ctl' = [ctl EXCEPT !.op = This.op, !.b2a = This.b2a, !.prime = rdata.prime, !.dual = rdata.dual,
                            !.share = This.share, !.rej = FALSE, !.onebit = This.onebit, !.stride = drv.stride]
      /\ pulse' = [start |-> TRUE, load_seed |-> FALSE] /\ Unread
  <2>1. PICK f : f = [op |-> This.op, b2a |-> This.b2a, prime |-> rdata.prime, dual |-> rdata.dual,
                      share |-> This.share, rej |-> FALSE, onebit |-> This.onebit, stride |-> drv.stride]
    OBVIOUS
  <2>2. WriteCtrl(f, TRUE)
    BY <2>1 DEF Start
  <2> QED
    BY <2>1, <2>2 DEF WriteCtrl
<1>6. PICK w : w = This
  OBVIOUS
<1>7. /\ w.op \in Opcodes /\ w.b2a \in BOOLEAN /\ w.share \in BOOLEAN /\ w.onebit \in BOOLEAN
      /\ rdata.prime \in BOOLEAN /\ rdata.dual \in BOOLEAN
  BY <1>1, <1>4, <1>6 DEF Answer, SoftTypes
<1>8. /\ CtlType' /\ ctl'.op = w.op /\ ctl'.b2a = w.b2a /\ ctl'.prime = ctl.prime /\ ctl'.dual = ctl.dual
      /\ ctl'.share = w.share /\ ctl'.rej = FALSE /\ ctl'.onebit = w.onebit /\ ctl'.stride = drv.stride
      /\ ctl'.len = ctl.len /\ ctl'.din = ctl.din /\ ctl'.dout = ctl.dout
  BY <1>1, <1>2, <1>4, <1>5, <1>6, <1>7 DEF CtlType
<1>9. /\ DrvType' /\ drv'.pc = "poll" /\ This' = w /\ Total' = Total /\ (\A i : Dst(i)' = Dst(i)) /\ Called'
      /\ drv'.stride = drv.stride
  BY <1>1, <1>2, <1>6, <1>8, CalledStays
<1>10. done_q' = done_q /\ rdata' = rdata /\ SoftTypes'
  <2>1. done_q' = done_q /\ rdata' = rdata
    BY <1>1, <1>5, RestFacts DEF SoftTypes, Unread
  <2> QED
    BY <1>1, <1>5, <1>8, <1>9, <2>1 DEF SoftTypes
<1>11. pulse'.start /\ ~pulse'.load_seed
  BY <1>5
<1>12. fsm'.st = "IDLE"
  BY <1>2 DEF Waiting
<1>13. Protocol'
  BY <1>2, <1>9, <1>10, <1>11, <1>12 DEF Protocol, CorePcs, Polling
<1>14. Settings'
  BY <1>9 DEF Settings, Called, CorePcs
<1>15. Asked'
  <2>1. /\ ctl'.len = Total * (IF w.onebit /\ ctl.dual THEN 2 ELSE 1)
        /\ w.op # "PRNG" => ctl.din[0] = "a" /\ (~w.share => ctl.din[1] = "b")
        /\ ctl.dout[0] = Dst(0) /\ ctl.dout[1] = Dst(1)
    BY <1>3, <1>6, <1>8 DEF Written
  <2>2. \A i \in Shares : ctl'.dout[i] = Dst(i)'
    BY <1>8, <1>9, <2>1 DEF Shares
  <2>3. ctl'.len = Total' * (IF ctl'.onebit /\ ctl'.dual THEN 2 ELSE 1)
    BY <1>8, <1>9, <2>1
  <2>4. ctl'.dual \in BOOLEAN /\ ctl'.prime \in BOOLEAN /\ ctl'.b2a \in BOOLEAN
    BY <1>8 DEF CtlType
  <2> QED
    BY <1>8, <1>9, <2>1, <2>2, <2>3, <2>4 DEF Asked, Called
<1> QED
  BY <1>2, <1>9, <1>10, <1>11, <1>13, <1>14, <1>15 DEF Left, CorePcs

\* The poll after the end.
LEMMA PollingKeeps ==
  ASSUME Waiting, Poll \/ Check \/ (drv.pc = "poll" /\ Pause)
  PROVE  Left
<1>0. drv.pc \in {"poll", "check"}
  BY DEF Poll, Check, At
<1>1. /\ SoftTypes /\ CtlType /\ DrvType /\ Protocol /\ Settings /\ Contents /\ ~Active /\ drv.pc \in CorePcs
      /\ Asked /\ Called /\ ~Active' /\ ~pulse.load_seed /\ fsm'.st # "PRNG"
  <2>1. SoftTypes /\ CtlType /\ DrvType /\ Protocol /\ Settings /\ Contents /\ ~Active
    BY DEF Waiting, SoftTypes
  <2>2. drv.pc \in CorePcs
    BY <1>0 DEF CorePcs
  <2>3. Asked /\ Called
    BY <1>0, <2>1, <2>2 DEF Contents, Settings, Called
  <2>4. ~Active' /\ ~pulse.load_seed /\ fsm.st # "PRNG"
    BY <1>0, <2>1, <2>2, RestFacts DEF Protocol
  <2> QED
    BY <2>1, <2>2, <2>3, <2>4 DEF Waiting, Active
<1>2. Same /\ SoftTypes' /\ pulse' = NoPulse /\ drv'.pc \in {"poll", "check", "returned"}
  <2>1. CASE Poll
    <3>1. ReadCtrl /\ Goto("check") /\ "check" \in Pcs
      BY <2>1 DEF Poll, Pcs
    <3> QED
      BY <1>1, <3>1, GotoFacts, ReadFacts, NoPulseFacts DEF SoftTypes, Same
  <2>2. CASE Check
    <3>1. PICK pc \in {"returned", "poll"} : NoBus /\ Goto(pc)
      BY <2>2 DEF Check
    <3>2. ctl' = ctl /\ pulse' = NoPulse /\ Unread /\ CtlType'
      BY <1>1, <3>1 DEF NoBus, CtlType
    <3>3. /\ DrvType' /\ drv'.pc = pc /\ drv'.call = drv.call /\ drv'.bursts = drv.bursts
          /\ drv'.stride = drv.stride /\ drv'.inplace = drv.inplace
      BY <1>1, <3>1, GotoFacts DEF Pcs
    <3> QED
      BY <3>2, <3>3, PlainFacts DEF Same
  <2>3. CASE drv.pc = "poll" /\ Pause
    <3>1. ctl' = ctl /\ pulse' = NoPulse /\ Unread /\ CtlType' /\ DrvType' /\ drv' = drv
      BY <1>1, <2>3 DEF NoBus, Pause, CtlType, DrvType
    <3> QED
      BY <2>3, <3>1, PlainFacts DEF Same
  <2> QED
    BY <2>1, <2>2, <2>3
<1>3. ~pulse'.start /\ ~pulse'.load_seed
  BY <1>2, NoPulseFacts
<1>4. Asked' /\ Called'
  <2>1. This' = This
    BY <1>2, SameMode
  <2> QED
    BY <1>1, <1>2, <2>1, SameMode DEF Called, Lawful, Same
<1>5. Protocol'
  BY <1>1, <1>2, <1>3 DEF Protocol, CorePcs, Polling
<1>6. Settings'
  BY <1>2, <1>4 DEF Settings, Called, CorePcs
<1> QED
  BY <1>0, <1>1, <1>2, <1>3, <1>4, <1>5, <1>6 DEF Left

\* Whatever the program does while the accelerator rests.
LEMMA WaitingKeeps ==
  ASSUME Waiting, Driver \/ Pause
  PROVE  Left
<1>1. Pause => drv.pc = "idle" \/ drv.pc = "core_read" \/ drv.pc = "poll"
  BY DEF Pause
<1> QED
  BY <1>1, IdleKeeps, SettingRegisters, CallCoreKeeps, CoreKeeps, StartIsAsked, PollingKeeps DEF Driver

-----------------------------------------------------------------------------
(* The invariant *)

\* A cycle in which the accelerator rests.
LEMMA RestKeeps ==
  ASSUME Regular, IInv, ~Active, ~pulse.start, NEW rdy, Fsm(rdy), Driver \/ Pause
  PROVE  IInv'
<1>1. Types /\ SoftTypes /\ Protocol /\ Settings /\ Contents /\ Resting
  BY DEF IInv, Types, SoftTypes, FlagType
<1>2. /\ Rests' /\ mem' = (IF drv.pc = "idle" THEN Fresh ELSE mem)
      /\ fsm.st = "IDLE" /\ ~pulse.load_seed => fsm'.st = "IDLE"
      /\ \A i \in Shares : dma'[i].wr = None
  BY <1>1, RestGoes
<1>3. Left
  BY <1>1, <1>2, WaitingKeeps DEF Waiting, Rests
<1>4. Types'
  BY <1>2, <1>3, FlagIsBoolean DEF Types, Left, SoftTypes, FlagType, Rests
<1>5. Resting'
  <2>1. MaxLatency \in Nat /\ MaxLatency >= 3
    BY LatencyFacts, X2xAssumption
  <2>2. (\A n \in 1 .. MaxLatency : pipe[n] = None)' /\ 3 \in 1 .. MaxLatency
    BY <1>2, <2>1 DEF Rests, Clear
  <2> QED
    BY <1>2, <2>2 DEF Rests, Resting, MaxLatency
<1>6. ASSUME drv'.pc \in {"poll", "check", "returned"}, ~pulse'.start
      PROVE  Finished'
  <2>1. drv.pc \in {"poll", "check"} /\ Same
    BY <1>3, <1>6 DEF Left
  <2>2. PICK n : n = Put2(IF ctl.op = "PRNG" THEN 0 ELSE Total, Total)
    OBVIOUS
  <2>3. Asked /\ MemHolds(n)
    BY <1>1, <2>1, <2>2 DEF Contents, Finished
  <2>4. mem' = Memory(NoAccess) /\ drv.pc # "idle"
    BY <1>1, <1>2, <2>1, WriteNone DEF Memory, Resting, NotPut, Shares
  <2>5. MemHolds(n)'
    <3>1. \A i \in Shares : i \in DOMAIN NoAccess => ~Pending(i)
      BY Ports
    <3>2. ctl.op = "PRNG" => n[0] = 0
      BY <2>2 DEF Put2, Shares
    <3>3. Shaped(mem)
      BY <1>1 DEF Types, StoreType, Shaped
    <3> QED
      BY <1>2, <2>1, <2>3, <2>4, <3>1, <3>2, <3>3, MemHoldsStep
  <2>6. Put2(IF ctl.op = "PRNG" THEN 0 ELSE Total, Total)' = n /\ Asked'
    BY <2>1, <2>2, <2>3, SameMode DEF Same
  <2> QED
    BY <2>5, <2>6 DEF Finished
<1>7. Contents'
  BY <1>3, <1>6 DEF Left, Contents
<1> QED
  BY <1>3, <1>4, <1>5, <1>7 DEF IInv, Left

\* The invariant holds after reset
LEMMA InitKeeps ==
  ASSUME Init
  PROVE  IInv
<1>1. /\ fsm.st = "IDLE" /\ fsm.r_mem = 0 /\ fsm.r_reg = 0 /\ fsm.w_mem = 0 /\ fsm.w_reg = 0 /\ fsm.iter = 0
      /\ (\A i \in Shares : fsm.off[i] = 0) /\ FsmType
  BY DEF Init, FsmStart, FsmType, FsmStates
<1>2. /\ CtlType
      /\ rdata \in [prime : BOOLEAN, dual : BOOLEAN, busy : BOOLEAN, seed_ip : BOOLEAN, done : BOOLEAN]
  BY DEF Init, CtlType, Opcodes, Pointers
<1>3. DrvType /\ drv.pc = "idle"
  BY DEF Init, Idling, DrvType, Pcs
<1>4. pulse = NoPulse /\ init_q = FALSE /\ done_q = FALSE
  BY DEF Init
<1>5. StoreType
  BY DEF Init, StoreType, Fresh
<1>6. Types
  BY <1>1, <1>2, <1>3, <1>4, <1>5, NoPulseFacts DEF Types, FlagType
<1>7. ~Active /\ ~pulse.start /\ ~pulse.load_seed
  BY <1>1, <1>4, NoPulseFacts DEF Active
<1>8. Protocol /\ Settings /\ Contents
  BY <1>3, <1>7 DEF Protocol, Settings, Contents, CorePcs
<1>9. Resting
  <2>1. \A i \in Shares : dma[i].re = None /\ dma[i].data = None /\ dma[i].wr = None
    BY DEF Init
  <2>2. \A n \in 1 .. MaxLatency : pipe[n] = None
    BY DEF Init
  <2>3. 3 \in 1 .. MaxLatency
    BY LatencyFacts, X2xAssumption
  <2> QED
    BY <1>1, <1>4, <2>1, <2>2, <2>3 DEF Resting, Counted, NotPut, NoData, Pending, Shares
<1> QED
  BY <1>6, <1>7, <1>8, <1>9 DEF IInv

\* and when nothing changes.
LEMMA StutterKeeps ==
  ASSUME IInv, UNCHANGED vars
  PROVE  IInv'
<1>1. /\ fsm' = fsm /\ init_q' = init_q /\ shares' = shares /\ bits' = bits /\ dma' = dma /\ pipe' = pipe /\ mem' = mem
      /\ ctl' = ctl /\ done_q' = done_q /\ pulse' = pulse /\ rdata' = rdata /\ drv' = drv
  BY DEF vars, hwVars
<1>2. Same
  BY <1>1 DEF Same
<1>3. /\ HalfWise' = HalfWise /\ Items' = Items /\ Fetched' = Fetched /\ Latency' = Latency
      /\ Total' = Total /\ This' = This /\ NeverLate' = NeverLate /\ Batch' = Batch /\ Asked' = Asked
      /\ \A o : Place(o)' = Place(o) /\ OffAt(o)' = OffAt(o)
      /\ \A i, o : Product(i, o)' = Product(i, o)
      /\ \A b, m : Item(b, m)' = Item(b, m)
      /\ \A i, k : Source(i, k)' = Source(i, k)
      /\ \A i : Dst(i)' = Dst(i)
  BY <1>2, SameMode, SameProducts
<1>4. /\ Burst' = Burst /\ BitBase' = BitBase /\ FetchBase' = FetchBase /\ Running' = Running
      /\ GroupStarts' = GroupStarts /\ EarlyDone' = EarlyDone /\ Putting' = Putting
      /\ Active' = Active /\ MaxLatency' = MaxLatency
  <2>1. Burst' = Burst
    BY <1>1 DEF Burst
  <2> QED
    BY <1>1, <1>3, <2>1 DEF BitBase, FetchBase, Running, GroupStarts, EarlyDone, Putting, Active, MaxLatency
<1>5. ASSUME NEW n, MemHolds(n) PROVE MemHolds(n)'
  BY <1>1, <1>3, <1>5 DEF MemHolds, Pending
<1>6. ASSUME NEW n, Progress(n) PROVE Progress(n)'
  BY <1>1, <1>3, <1>5, <1>6 DEF Progress
<1>7. ASSUME NEW g, Numbered(g) PROVE Numbered(g)'
  BY <1>1, <1>3, <1>4, <1>7 DEF Numbered
<1>8. /\ (NotPut => NotPut')
      /\ (NoData(0) => NoData(0)')
      /\ (NoData(1) => NoData(1)')
      /\ (Clear => Clear')
      /\ (Beyond => Beyond')
      /\ (AllRandom => AllRandom')
      /\ (Coming(0) => Coming(0)')
      /\ (Coming(1) => Coming(1)')
      /\ (BitsHeld => BitsHeld')
      /\ (HeldResults => HeldResults')
      /\ (HeldSources => HeldSources')
      /\ (HeldProducts(0) => HeldProducts(0)')
      /\ (HeldProducts(1) => HeldProducts(1)')
      /\ (Counted => Counted')
  <2>1. ASSUME NotPut PROVE NotPut'
    BY <1>1, <1>3, <1>4, <2>1 DEF NotPut, Pending
  <2>2. ASSUME NoData(0) PROVE NoData(0)'
    BY <1>1, <1>3, <1>4, <2>2 DEF NoData
  <2>3. ASSUME NoData(1) PROVE NoData(1)'
    BY <1>1, <1>3, <1>4, <2>3 DEF NoData
  <2>4. ASSUME Clear PROVE Clear'
    BY <1>1, <1>3, <1>4, <2>4 DEF Clear
  <2>5. ASSUME Beyond PROVE Beyond'
    BY <1>1, <1>3, <1>4, <2>5 DEF Beyond
  <2>6. ASSUME AllRandom PROVE AllRandom'
    BY <1>1, <1>3, <1>4, <2>6 DEF AllRandom
  <2>7. ASSUME Coming(0) PROVE Coming(0)'
    BY <1>1, <1>3, <1>4, <2>7 DEF Coming
  <2>8. ASSUME Coming(1) PROVE Coming(1)'
    BY <1>1, <1>3, <1>4, <2>8 DEF Coming
  <2>9. ASSUME BitsHeld PROVE BitsHeld'
    BY <1>1, <1>3, <1>4, <2>9 DEF BitsHeld
  <2>10. ASSUME HeldResults PROVE HeldResults'
    BY <1>1, <1>3, <1>4, <2>10 DEF HeldResults
  <2>11. ASSUME HeldSources PROVE HeldSources'
    BY <1>1, <1>3, <1>4, <2>11 DEF HeldSources, Sendable
  <2>12. ASSUME HeldProducts(0) PROVE HeldProducts(0)'
    BY <1>1, <1>3, <1>4, <2>12 DEF HeldProducts
  <2>13. ASSUME HeldProducts(1) PROVE HeldProducts(1)'
    BY <1>1, <1>3, <1>4, <2>13 DEF HeldProducts
  <2>14. ASSUME Counted PROVE Counted'
    BY <1>1, <1>3, <1>4, <2>14 DEF Counted
  <2> QED
    BY <2>1, <2>2, <2>3, <2>4, <2>5, <2>6, <2>7, <2>8, <2>9, <2>10, <2>11, <2>12, <2>13, <2>14
<1>9. ASSUME NEW i, NEW n, Took(i, n) PROVE \A m : m = n => Took(i, m)'
  BY <1>1, <1>3, <1>4, <1>9 DEF Took
<1>10. ASSUME InFetch0 PROVE InFetch0'
  <2>1. PICK n : n = Put2(Burst, Burst)
    OBVIOUS
  <2>2. Progress(n)
    BY <1>10, <2>1 DEF InFetch0
  <2>3. Progress(n)' /\ (Put2(Burst, Burst))' = n
    BY <1>1, <1>3, <1>4, <1>6, <2>1, <2>2
  <2> QED
    BY <1>1, <1>3, <1>4, <1>8, <1>9, <1>10, <2>3 DEF InFetch0
<1>11. ASSUME InFetch1 PROVE InFetch1'
  <2>1. PICK n : n = Put2(Burst, Burst)
    OBVIOUS
  <2>2. Progress(n)
    BY <1>11, <2>1 DEF InFetch1
  <2>3. Progress(n)' /\ (Put2(Burst, Burst))' = n
    BY <1>1, <1>3, <1>4, <1>6, <2>1, <2>2
  <2> QED
    BY <1>1, <1>3, <1>4, <1>8, <1>9, <1>11, <2>3 DEF InFetch1
<1>12. ASSUME Masking PROVE Masking'
  <2>1. PICK n : n = Putting
    OBVIOUS
  <2>2. Progress(n)
    BY <1>12, <2>1 DEF Masking
  <2>3. Progress(n)' /\ (Putting)' = n
    BY <1>1, <1>3, <1>4, <1>6, <2>1, <2>2
  <2> QED
    BY <1>1, <1>3, <1>4, <1>8, <1>12, <2>3 DEF Masking
<1>13. ASSUME InSend PROVE InSend'
  <2>1. (\E g : Numbered(g) /\ g[1] = fsm.r_reg) => (\E g : Numbered(g) /\ g[1] = fsm.r_reg)'
    BY <1>1, <1>7
  <2> QED
    BY <1>1, <1>3, <1>8, <1>12, <1>13, <2>1 DEF InSend
<1>14. ASSUME InWait PROVE InWait'
  <2>1. (\E g : Numbered(g) /\ g[1] >= Items) => (\E g : Numbered(g) /\ g[1] >= Items)'
    BY <1>3, <1>7
  <2> QED
    BY <1>1, <1>3, <1>8, <1>12, <1>14, <2>1 DEF InWait
<1>15. ASSUME InPut0 PROVE InPut0'
  <2>1. PICK n : n = Put2(Burst + fsm.r_mem, Burst)
    OBVIOUS
  <2>2. Progress(n)
    BY <1>15, <2>1 DEF InPut0
  <2>3. Progress(n)' /\ (Put2(Burst + fsm.r_mem, Burst))' = n
    BY <1>1, <1>3, <1>4, <1>6, <2>1, <2>2
  <2> QED
    BY <1>1, <1>3, <1>4, <1>8, <1>15, <2>3 DEF InPut0
<1>16. ASSUME InPut1 PROVE InPut1'
  <2>1. PICK n : n = Put2(IF ctl.op = "PRNG" THEN 0 ELSE Burst + BurstLen, Burst + fsm.r_mem)
    OBVIOUS
  <2>2. Progress(n)
    BY <1>16, <2>1 DEF InPut1
  <2>3. Progress(n)' /\ (Put2(IF ctl.op = "PRNG" THEN 0 ELSE Burst + BurstLen, Burst + fsm.r_mem))' = n
    BY <1>1, <1>3, <1>4, <1>6, <2>1, <2>2
  <2> QED
    BY <1>1, <1>3, <1>4, <1>8, <1>16, <2>3 DEF InPut1
<1>17. ASSUME InDelay PROVE InDelay'
  <2>1. PICK n : n = Put2(Burst, Burst)
    OBVIOUS
  <2>2. Progress(n)
    BY <1>17, <2>1 DEF InDelay
  <2>3. Progress(n)' /\ (Put2(Burst, Burst))' = n
    BY <1>1, <1>3, <1>4, <1>6, <2>1, <2>2
  <2> QED
    BY <1>1, <1>3, <1>4, <1>8, <1>17, <2>3 DEF InDelay
<1>18. ASSUME InDone PROVE InDone'
  <2>1. PICK n : n = Put2(IF ctl.op = "PRNG" THEN 0 ELSE Total, Total)
    OBVIOUS
  <2>2. Progress(n)
    BY <1>18, <2>1 DEF InDone
  <2>3. Progress(n)' /\ (Put2(IF ctl.op = "PRNG" THEN 0 ELSE Total, Total))' = n
    BY <1>1, <1>3, <1>4, <1>6, <2>1, <2>2
  <2> QED
    BY <1>1, <1>3, <1>4, <1>8, <1>18, <2>3 DEF InDone
<1>19. Working => Working'
  BY <1>1, <1>3, <1>10, <1>11, <1>13, <1>14, <1>15, <1>16, <1>17, <1>18 DEF Working
<1>20. ASSUME Finished PROVE Finished'
  <2>1. PICK n : n = Put2(IF ctl.op = "PRNG" THEN 0 ELSE Total, Total)
    OBVIOUS
  <2>2. MemHolds(n)
    BY <1>20, <2>1 DEF Finished
  <2>3. MemHolds(n)' /\ Put2(IF ctl.op = "PRNG" THEN 0 ELSE Total, Total)' = n
    BY <1>1, <1>3, <1>5, <2>1, <2>2
  <2> QED
    BY <1>3, <1>20, <2>3 DEF Finished
<1>21. Resting => Resting'
  BY <1>1, <1>4, <1>8 DEF Resting
<1>22. Types'
  BY <1>1 DEF IInv, Types, FsmType, CtlType, DrvType, FlagType, StoreType
<1>23. Protocol'
  BY <1>1, <1>4 DEF IInv, Protocol, Polling
<1>24. Settings'
  <2>1. Lawful(This, drv.bursts) => Lawful(This, drv.bursts)'
    BY <1>1, <1>3 DEF Lawful
  <2> QED
    BY <1>1, <1>3, <2>1 DEF IInv, Settings
<1>25. Contents'
  BY <1>1, <1>3, <1>4, <1>20 DEF IInv, Contents
<1> QED
  BY <1>4, <1>19, <1>21, <1>22, <1>23, <1>24, <1>25 DEF IInv

\* Every clock cycle keeps it.
LEMMA NextKeeps ==
  ASSUME Regular, IInv, [Next]_vars
  PROVE  IInv'
<1>1. ASSUME NEW rdy, Cycle(rdy) PROVE IInv'
  BY <1>1, BusyKeeps, RestKeeps DEF Cycle
<1> QED
  BY <1>1, StutterKeeps DEF Next

\* Every place of the result is the place of a word that was put out (PlaceOnto), and every other word is fresh.
LEMMA InvariantIsOwn ==
  ASSUME Regular, IInv
  PROVE  ResultIsOwn
<1>1. drv.pc # "failed"
  BY DEF IInv, Protocol
<1> SUFFICES ASSUME drv.pc = "returned", NEW r \in Regions, NEW k \in Words
             PROVE  LET ours == {i \in Shares : Dst(i) = r /\ k < drv.bursts * BurstLen}
                    IN mem[r][k] = IF ours = {} THEN Fresh[r][k] ELSE Wanted(CHOOSE i \in ours : TRUE, k)
  BY <1>1, Zenon DEF ResultIsOwn, At
<1>2. ~Active /\ ~pulse.start /\ Contents /\ Resting
  BY DEF IInv, Protocol, Polling
<1>3. Asked
  BY <1>2 DEF Contents
<1>4. PICK n : n = Put2(IF ctl.op = "PRNG" THEN 0 ELSE Total, Total)
  OBVIOUS
<1>5. MemHolds(n) /\ \A i \in Shares : ~Pending(i)
  BY <1>2, <1>4 DEF Contents, Finished, Resting, NotPut
<1>6. Total \in Nat /\ \A i \in Shares : ctl.dout[i] = Dst(i)
  BY <1>3, AskedFacts DEF Asked
<1>7. k \in Nat
  BY DEF Words
<1> DEFINE ours == {i \in Shares : Dst(i) = r /\ k < Total}
<1>8. ours = {i \in Shares : Dst(i) = r /\ k < drv.bursts * BurstLen}
  BY DEF Total
<1>9. CASE ours = {}
  <2>1. ASSUME NEW i \in Shares, NEW o \in 0 .. Total - 1, o < n[i], ctl.dout[i] = r, Place(o) = k
        PROVE  FALSE
    <3>1. Place(o) \in 0 .. Total - 1
      BY <1>3, PlaceRange
    <3> QED
      BY <1>6, <1>9, <2>1, <3>1
  <2>2. mem[r][k] = Fresh[r][k]
    BY <1>5, <2>1 DEF MemHolds
  <2> QED
    BY <1>8, <1>9, <2>2
<1>10. CASE ours # {}
  <2>1. PICK i : i = CHOOSE j \in ours : TRUE
    OBVIOUS
  <2>2. i \in ours
    BY <1>10, <2>1
  <2>3. i \in Shares /\ Dst(i) = r /\ k \in 0 .. Total - 1
    BY <1>6, <1>7, <2>2
  <2>4. n[i] = Total
    <3>1. CASE ctl.op = "PRNG"
      <4>1. This.op = "PRNG"
        BY <1>3, <3>1 DEF Asked
      <4>2. i # 0
        BY <2>3, <4>1 DEF Dst, Regions
      <4> QED
        BY <1>4, <2>3, <4>2 DEF Put2
    <3>2. CASE ctl.op # "PRNG"
      BY <1>4, <2>3, <3>2 DEF Put2
    <3> QED
      BY <3>1, <3>2
  <2>5. PICK o \in 0 .. Total - 1 : Place(o) = k
    BY <1>3, <2>3, PlaceOnto
  <2>6. o < n[i] /\ ctl.dout[i] = r
    BY <1>6, <2>3, <2>4, <2>5
  <2>7. mem[ctl.dout[i]][Place(o)] = Product(i, o)
    BY <1>5, <2>3, <2>6 DEF MemHolds
  <2>8. mem[r][k] = Wanted(i, k)
    BY <2>5, <2>6, <2>7 DEF Product
  <2> HIDE DEF ours
  <2> QED
    BY <1>8, <1>10, <2>1, <2>8
<1> QED
  BY <1>9, <1>10

\* When a function of x2x.c returns, both shares of every word of the result are made of that word's own
\* two source shares, also in one-bit mode and when the result replaces the source, and no other word
\* of memory was written; no call is refused.  For every length of a burst and of the core, every
\* sequence of calls and every supply of random words that Regular allows.
THEOREM ResultIsOwnHolds ==
  ASSUME Regular
  PROVE  Spec => []ResultIsOwn
<1>1. Init => IInv
  BY InitKeeps
<1>2. IInv /\ [Next]_vars => IInv'
  BY NextKeeps
<1>3. IInv => ResultIsOwn
  BY InvariantIsOwn
<1> QED
  BY <1>1, <1>2, <1>3, PTL DEF Spec
=============================================================================
