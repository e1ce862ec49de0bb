--------------------------- MODULE CoreUnitsProofs --------------------------
(***************************************************************************)
(* The units a core's instructions use, which share nothing: the           *)
(* multiplier and divider, loads and stores, and the memory behind the     *)
(* data bus.                                                               *)
(***************************************************************************)
EXTENDS MulDivUnit, LoadStoreUnit, MemBus, WellFoundedInduction, TLAPS

-----------------------------------------------------------------------------
(***************************************************************************)
(* LoadStoreUnit.  The byte lanes are right for every size of a byte and of *)
(* the address space: loads and stores are those of a memory of bytes.     *)
(***************************************************************************)

\* The word behind a word is another one of the address space.
LEMMA NextWordIsAnother ==
    ASSUME NEW w \in 0 .. NumWords - 1
    PROVE  NextWord(w) \in 0 .. NumWords - 1 /\ NextWord(w) # w
BY WordsAssumption DEF NextWord

\* A write with a mask changes the lanes of the mask in one word.
LEMMA WriteLanesWrites ==
    ASSUME NEW m \in Contents, NEW w \in 0 .. NumWords - 1, NEW lanes, NEW data \in [Lane -> Byte]
    PROVE  /\ WriteLanes(m, w, lanes, data) \in Contents
           /\ \A i \in Lane : WriteLanes(m, w, lanes, data)[w][i] = IF i \in lanes THEN data[i] ELSE m[w][i]
           /\ \A u \in 0 .. NumWords - 1 : u # w => WriteLanes(m, w, lanes, data)[u] = m[u]
<1> DEFINE new == [i \in Lane |-> IF i \in lanes THEN data[i] ELSE m[w][i]]
<1>1. WriteLanes(m, w, lanes, data) = [m EXCEPT ![w] = new]
  BY DEF WriteLanes
<1>2. new \in [Lane -> Byte]
  BY DEF Contents
<1>3. \A i \in Lane : new[i] = IF i \in lanes THEN data[i] ELSE m[w][i]
  OBVIOUS
<1> HIDE DEF new
<1> QED
  BY <1>1, <1>2, <1>3 DEF Contents

\* Shifting moves bytes and brings in zeros.
LEMMA ShiftsAreWords ==
    ASSUME NEW d \in [Lane -> Byte], NEW n \in 0 .. 4
    PROVE  Shl(d, n) \in [Lane -> Byte] /\ Shr(d, n) \in [Lane -> Byte]
BY TopAssumption DEF Shl, Shr, Lane, Byte

\* A store writes its bytes, from its address on, and no other.
THEOREM StoresAreBytewise ==
    ASSUME NEW m \in Contents, NEW w \in 0 .. NumWords - 1, NEW off \in Lane, NEW len \in Length,
           NEW d \in [Lane -> Byte]
    PROVE  /\ Stored(m, w, off, len, d) \in Contents
           /\ StoreIsBytewise(m, Stored(m, w, off, len, d), w, off, len, d)
<1> DEFINE first  == WriteLanes(m, w, FirstLanes(len, off), FirstData(d, off))
           second == WriteLanes(first, NextWord(w), SecondLanes(len, off), SecondData(d, len, off))
           after  == Stored(m, w, off, len, d)
<1>w. NextWord(w) \in 0 .. NumWords - 1 /\ NextWord(w) # w
  BY NextWordIsAnother
<1>d. FirstData(d, off) \in [Lane -> Byte] /\ SecondData(d, len, off) \in [Lane -> Byte]
  BY ShiftsAreWords DEF FirstData, SecondData, Lane, Length
<1>1. /\ first \in Contents
      /\ \A i \in Lane : first[w][i] = IF i \in FirstLanes(len, off) THEN FirstData(d, off)[i] ELSE m[w][i]
      /\ \A u \in 0 .. NumWords - 1 : u # w => first[u] = m[u]
  BY <1>d, WriteLanesWrites
<1>2. /\ second \in Contents
      /\ \A i \in Lane : second[NextWord(w)][i] =
             IF i \in SecondLanes(len, off) THEN SecondData(d, len, off)[i] ELSE m[NextWord(w)][i]
      /\ \A u \in 0 .. NumWords - 1 : u # NextWord(w) => second[u] = first[u]
  <2> HIDE DEF first
  <2> QED
    BY <1>d, <1>w, <1>1, WriteLanesWrites
<1>3. after = IF Misaligned(len, off) THEN second ELSE first
  BY DEF Stored
<1> HIDE DEF first, second, after
<1>4. \A i \in Lane : after[w][i] = IF off <= i /\ i < off + Size(len) THEN d[i - off] ELSE m[w][i]
  BY <1>w, <1>1, <1>2, <1>3 DEF FirstLanes, FirstData, Shl, Lane, Length, Size
<1>5. \A i \in Lane : after[NextWord(w)][i] =
          IF i + 4 < off + Size(len) THEN d[i + 4 - off] ELSE m[NextWord(w)][i]
  <2>1. CASE Misaligned(len, off)
    <3> SUFFICES ASSUME NEW i \in Lane
                 PROVE  (IF i \in SecondLanes(len, off) THEN SecondData(d, len, off)[i] ELSE m[NextWord(w)][i])
                            = IF i + 4 < off + Size(len) THEN d[i + 4 - off] ELSE m[NextWord(w)][i]
      BY <2>1, <1>2, <1>3
    <3>1. CASE len = 1
      BY <2>1, <3>1 DEF Misaligned, SecondLanes, SecondData, Shr, Lane, Size
    <3>2. CASE len = 2
      BY <2>1, <3>2 DEF Misaligned, SecondLanes, SecondData, Shr, Lane, Size
    <3> QED
      BY <2>1, <3>1, <3>2 DEF Misaligned
  <2>2. CASE ~Misaligned(len, off)
    BY <2>2, <1>w, <1>1, <1>3 DEF Misaligned, Lane, Length, Size
  <2> QED
    BY <2>1, <2>2
<1>6. \A u \in 0 .. NumWords - 1 : u \notin {w, NextWord(w)} => after[u] = m[u]
  BY <1>1, <1>2, <1>3
<1>7. \A k \in 0 .. 7 : ByteAt(after, w, k) =
          IF off <= k /\ k < off + Size(len) THEN d[k - off] ELSE ByteAt(m, w, k)
  BY <1>4, <1>5 DEF ByteAt, Lane, Length, Size
<1> QED
  BY <1>1, <1>2, <1>3, <1>6, <1>7 DEF StoreIsBytewise, after

\* A load returns the bytes from its address on, and above them the last one's sign or zeros.
THEOREM LoadsAreBytewise ==
    ASSUME NEW m \in Contents, NEW w \in 0 .. NumWords - 1, NEW off \in Lane, NEW len \in Length,
           NEW signed \in BOOLEAN
    PROVE  LoadIsBytewise(m, Loaded(m, w, off, len, signed), w, off, len, signed)
<1> DEFINE first == FirstOut(m[w], len, off)
           v == IF Misaligned(len, off) THEN SecondOut(m[NextWord(w)], first, len, off) ELSE first
<1>1. \A i \in Lane : first[i] = IF i < Size(len) /\ i + off < 4 THEN m[w][i + off] ELSE 0
  BY DEF FirstOut, Shr, Lane, Length, Size
<1>2. \A i \in Lane : i < Size(len) => v[i] = ByteAt(m, w, off + i)
  <2> HIDE DEF first
  <2>1. CASE len = 0
    BY <2>1, <1>1 DEF Misaligned, ByteAt, Lane, Size
  <2>2. CASE len = 1
    BY <2>2, <1>1 DEF Misaligned, SecondOut, ByteAt, Lane, Size
  <2>3. CASE len = 2
    BY <2>3, <1>1 DEF Misaligned, SecondOut, ByteAt, Lane, Size
  <2> QED
    BY <2>1, <2>2, <2>3 DEF Length
<1>3. Loaded(m, w, off, len, signed) = Extended(v, len, signed)
  BY DEF Loaded
<1> HIDE DEF v
<1>4. v[Size(len) - 1] = ByteAt(m, w, off + Size(len) - 1)
  <2>1. Size(len) - 1 \in Lane /\ Size(len) \in Nat /\ off \in Int
    BY DEF Lane, Length, Size
  <2> QED
    BY <2>1, <1>2
<1> QED
  BY <1>2, <1>3, <1>4 DEF LoadIsBytewise, Extended

\* Loads and stores are those of a memory of bytes, whatever was stored before.
THEOREM AccessesAreBytewise == LsuSpec => []AccessIsBytewise
<1> DEFINE Inv == mem \in Contents /\ AccessIsBytewise
<1>1. LsuInit => Inv
  BY DEF LsuInit, NoAccess, AccessIsBytewise
<1>2. Inv /\ [LsuNext]_lsuVars => Inv'
  <2> SUFFICES ASSUME Inv, [LsuNext]_lsuVars
               PROVE  Inv'
    OBVIOUS
  <2>1. ASSUME NEW w \in 0 .. NumWords - 1, NEW off \in Lane, NEW len \in Length, NEW d \in [Lane -> Byte],
               Store(w, off, len, d)
        PROVE  Inv'
    BY <2>1, StoresAreBytewise DEF Store, AccessIsBytewise
  <2>2. ASSUME NEW w \in 0 .. NumWords - 1, NEW off \in Lane, NEW len \in Length, NEW signed \in BOOLEAN,
               Load(w, off, len, signed)
        PROVE  Inv'
    BY <2>2, LoadsAreBytewise DEF Load, AccessIsBytewise
  <2>3. CASE NoLoadOrStore
    BY <2>3 DEF NoLoadOrStore, NoAccess, AccessIsBytewise
  <2>4. CASE UNCHANGED lsuVars
    BY <2>4 DEF lsuVars, AccessIsBytewise
  <2> QED
    BY <2>1, <2>2, <2>3, <2>4 DEF LsuNext
<1>3. Inv => AccessIsBytewise
  OBVIOUS
<1> QED
  BY <1>1, <1>2, <1>3, PTL DEF LsuSpec

-----------------------------------------------------------------------------
(***************************************************************************)
(* MemBus.  The data bus, for every size of the memories, every set of     *)
(* words and every number of DMA masters.  The core's port and the DMA port *)
(* do not depend on each other, so each has an invariant of its own.       *)
(***************************************************************************)

\* A set of natural numbers that is not empty has a least element.
LEMMA LeastMaster ==
  ASSUME NEW s, s \subseteq Masters, s # {}
  PROVE  /\ Granted(s) \in s /\ Answered(s) = Granted(s)
         /\ \A k \in s : Granted(s) <= k
<1> DEFINE below == OpToRel(<, Nat)
<1>1. s \subseteq Nat
  BY MastersAssumption DEF Masters
<1>2. \E x \in s : \A y \in s : <<y, x>> \notin below
  <2> HIDE DEF below
  <2>1. IsWellFoundedOn(below, Nat)
    BY NatLessThanWellFounded DEF below
  <2> QED
    BY <1>1, <2>1, WFMin
<1>3. PICK x \in s : \A y \in s : <<y, x>> \notin below
  BY <1>2
<1>4. \A y \in s : x <= y
  <2> SUFFICES ASSUME NEW y \in s PROVE x <= y
    OBVIOUS
  <2>1. x \in Nat /\ y \in Nat /\ ~(y < x)
    BY <1>1, <1>3 DEF OpToRel
  <2> QED
    BY <2>1
<1> QED
  BY <1>3, <1>4 DEF Granted, Answered

-----------------------------------------------------------------------------
(* The core's port *)

\* Program memory never acknowledges while a program runs, and in the boot ROM every load
\* is one from program memory.
CoreInv ==
    /\ mode \in {"boot", "user"}
    /\ mode = "user" => inst.ack = FALSE
    /\ want # {} => /\ stb_q = "memory"
                    /\ mode = "boot" => inst.ack /\ inst.out \in want
                    /\ mode = "user" => dat.out \in want

LEMMA InitCore == BusInit => CoreInv
  BY DEF BusInit, CoreInv

LEMMA CycleCore ==
  ASSUME CoreInv, NEW c \in CoreRequests, NEW d, Cycle(c, d)
  PROVE  CoreInv'
<1> DEFINE busy    == c.req \/ cyc
           instStb == ToInst(c) /\ Strobe(c)
           datStb  == ToData(c) /\ Strobe(c)
           loaded  == IF instStb THEN {imem[c.adr], imem'[c.adr]} ELSE {dmem[c.adr], dmem'[c.adr]}
<1>1. /\ c.req /\ ~c.we => c.adr \in CoreLoads \cup PerAddr
      /\ inst' \in Answers(inst, ToInst(c) /\ busy, instStb, c.we, loaded)
      /\ dat'  \in Answers(dat, ToData(c) /\ busy, datStb, c.we, loaded)
      /\ stb_q' = (IF Strobe(c) THEN "memory" ELSE IF c.req THEN "peripheral" ELSE "none")
      /\ want' = IF Strobe(c) /\ ~c.we THEN loaded ELSE {}
      /\ mode' = mode
  BY DEF Cycle
<1>2. c.req \in BOOLEAN /\ c.we \in BOOLEAN
  <2>1. CASE \E a \in Addr : c = Idle(a)
    BY <2>1 DEF Idle
  <2>2. CASE \E a \in Addr : c = LoadAt(a)
    BY <2>2 DEF LoadAt
  <2>3. CASE \E a \in Addr, v \in BusWord : c = StoreAt(a, v)
    BY <2>3 DEF StoreAt
  <2> QED
    BY <2>1, <2>2, <2>3 DEF CoreRequests
<1> HIDE DEF loaded
<1>3. /\ inst'.ack = Ack(inst, ToInst(c) /\ busy, instStb)
      /\ instStb /\ ~c.we => inst'.out \in loaded
      /\ datStb /\ ~c.we => dat'.out \in loaded
  BY <1>1 DEF Answers
<1>4. CASE mode = "user"
  <2>1. ~instStb
    BY <1>1, <1>4, AddrAssumption DEF ToInst, Strobe, CoreLoads
  <2>2. inst'.ack = FALSE
    BY <1>3, <1>4, <2>1 DEF CoreInv, Ack
  <2>3. Strobe(c) /\ ~c.we => datStb
    BY <1>1, <1>4, AddrAssumption DEF ToData, Strobe, CoreLoads
  <2> HIDE DEF datStb
  <2> QED
    BY <1>1, <1>3, <1>4, <2>2, <2>3 DEF CoreInv
<1>5. CASE mode = "boot"
  <2>1. Strobe(c) /\ ~c.we => instStb /\ busy
    BY <1>1, <1>5 DEF ToInst, Strobe, CoreLoads
  <2>2. Strobe(c) /\ ~c.we => inst'.ack = TRUE
    BY <1>3, <2>1 DEF Ack
  <2> HIDE DEF instStb
  <2> QED
    BY <1>1, <1>3, <1>5, <2>1, <2>2 DEF CoreInv
<1> QED
  BY <1>4, <1>5 DEF CoreInv

LEMMA ResetCore == \A m \in {"boot", "user"} : Reset(m) => CoreInv'
  BY DEF Reset, CoreInv

LEMMA SpecCore == BusSpec => []CoreInv
<1>1. CoreInv /\ [BusNext]_busVars => CoreInv'
  <2> SUFFICES ASSUME CoreInv, [BusNext]_busVars PROVE CoreInv'
    OBVIOUS
  <2>1. CASE UNCHANGED busVars
    BY <2>1 DEF busVars, CoreInv
  <2> QED
    BY <2>1, CycleCore, ResetCore DEF BusNext
<1> QED
  BY InitCore, <1>1, PTL DEF BusSpec

\* For every program that loads only from data memory, and a boot ROM that loads only from
\* program memory, a load returns the word it asked for.
THEOREM LoadsAreRight == BusSpec => []LoadReturnsItsWord
<1>1. CoreInv => LoadReturnsItsWord
  BY DEF CoreInv, LoadReturnsItsWord, CoreData
<1> QED
  BY SpecCore, <1>1, PTL

-----------------------------------------------------------------------------
(* The DMA port *)

\* When masters strobed in the last cycle, the port acknowledges, and what it shows is the
\* word of the lowest of them, if that was a read.
DmaInv ==
    /\ dma_stb_q \subseteq Masters
    /\ dma_stb_q # {} =>
         /\ dma.ack
         /\ dmaWant[Granted(dma_stb_q)] # {} => dma.out \in dmaWant[Granted(dma_stb_q)]

LEMMA CycleDma ==
  ASSUME DmaInv, NEW c \in CoreRequests, NEW d \in [Masters -> DmaRequests], Cycle(c, d)
  PROVE  DmaInv'
<1> DEFINE s == Strobing(d)
           g == d[Granted(s)]
<1>1. /\ dma' \in Answers(dma, g.stb, g.stb, g.stb /\ g.we, {dmem[g.adr], dmem'[g.adr]})
      /\ dma_stb_q' = s
      /\ dmaWant' = [m \in Masters |->
                       IF d[m].stb /\ ~d[m].we THEN {dmem[d[m].adr], dmem'[d[m].adr]} ELSE {}]
  BY DEF Cycle
<1>2. s \subseteq Masters
  BY DEF Strobing
<1>3. SUFFICES ASSUME s # {}
               PROVE  /\ dma'.ack
                      /\ dmaWant'[Granted(s)] # {} => dma'.out \in dmaWant'[Granted(s)]
  BY <1>1, <1>2 DEF DmaInv
<1>4. Granted(s) \in Masters /\ g.stb
  <2>1. Granted(s) \in s
    BY <1>2, <1>3, LeastMaster
  <2> QED
    BY <2>1 DEF Strobing
<1>5. dmaWant'[Granted(s)] = IF g.stb /\ ~g.we THEN {dmem[g.adr], dmem'[g.adr]} ELSE {}
  BY <1>1, <1>4
<1>6. g.stb = TRUE
  <2>1. g \in DmaRequests /\ g.stb
    BY <1>4
  <2> HIDE DEF g
  <2>2. CASE \E a \in DataAddr : g = Read(a)
    BY <2>2 DEF Read
  <2>3. CASE \E a \in DataAddr, v \in BusWord : g = Write(a, v)
    BY <2>3 DEF Write
  <2>4. g # NoReq
    BY <2>1 DEF NoReq
  <2>5. \/ \E a \in DataAddr : g = Read(a)
        \/ \E a \in DataAddr, v \in BusWord : g = Write(a, v)
    BY <2>1, <2>4 DEF DmaRequests
  <2> QED
    BY <2>2, <2>3, <2>5
<1> HIDE DEF g, s
<1>7. dma'.ack /\ (~g.we => dma'.out \in {dmem[g.adr], dmem'[g.adr]})
  BY <1>1, <1>6 DEF Answers, Ack
<1> QED
  BY <1>5, <1>6, <1>7

LEMMA SpecDma == BusSpec => []DmaInv
<1>1. BusInit => DmaInv
  BY DEF BusInit, DmaInv
<1>2. DmaInv /\ [BusNext]_busVars => DmaInv'
  <2> SUFFICES ASSUME DmaInv, [BusNext]_busVars PROVE DmaInv'
    OBVIOUS
  <2>1. CASE UNCHANGED busVars
    BY <2>1 DEF busVars, DmaInv
  <2>2. ASSUME NEW m \in {"boot", "user"}, Reset(m) PROVE DmaInv'
    BY <2>2 DEF Reset, DmaInv
  <2> QED
    BY <2>1, <2>2, CycleDma DEF BusNext
<1> QED
  BY <1>1, <1>2, PTL DEF BusSpec

\* An acknowledged master was served, with its own word, whatever the others asked for.
THEOREM AcksAreRight == BusSpec => []AckMeansServed
<1>1. DmaInv => AckMeansServed
  <2> SUFFICES ASSUME DmaInv, NEW m \in Masters, DmaAck(m)
               PROVE  m \in dma_stb_q /\ (dmaWant[m] # {} => DmaData(m) \in dmaWant[m])
    BY DEF AckMeansServed
  <2>1. dma_stb_q # {} /\ m = Answered(dma_stb_q)
    BY DEF DmaAck
  <2>2. m = Granted(dma_stb_q) /\ m \in dma_stb_q
    BY <2>1, LeastMaster DEF DmaInv
  <2> QED
    BY <2>1, <2>2 DEF DmaInv, DmaData
<1> QED
  BY SpecDma, <1>1, PTL

\* Whenever masters strobe, one of them is served and told so.
THEOREM OneMasterIsServed == BusSpec => []OneIsServed
<1>1. DmaInv => OneIsServed
  <2> SUFFICES ASSUME DmaInv, dma_stb_q # {} PROVE \E m \in dma_stb_q : DmaAck(m)
    BY DEF OneIsServed
  <2>1. Granted(dma_stb_q) \in dma_stb_q /\ Answered(dma_stb_q) = Granted(dma_stb_q)
    BY LeastMaster DEF DmaInv
  <2> QED
    BY <2>1 DEF DmaInv, DmaAck
<1> QED
  BY SpecDma, <1>1, PTL

-----------------------------------------------------------------------------
(* The gate *)

\* Program memory is written only while the boot ROM runs, and the ROM in it never.
THEOREM GateHolds == BusSpec => CodeIsGuarded
<1> DEFINE A == /\ \A a \in RomAddr : imem'[a] = imem[a]
                /\ imem' # imem => mode = "boot"
<1>1. ASSUME NEW c \in CoreRequests, NEW d, Cycle(c, d) PROVE A
  <2> DEFINE stb == ToInst(c) /\ Strobe(c)
  <2>1. imem' = IF stb /\ c.we THEN [imem EXCEPT ![c.adr] = c.dat] ELSE imem
    BY <1>1 DEF Cycle, Put
  <2>2. stb /\ c.we => mode = "boot" /\ c.adr \notin RomAddr
    BY DEF ToInst
  <2>3. \A a \in RomAddr : imem'[a] = imem[a]
    BY <2>1, <2>2, AddrAssumption
  <2> QED
    BY <2>1, <2>2, <2>3
<1>2. ASSUME NEW m, Reset(m) PROVE A
  BY <1>2 DEF Reset
<1>3. [BusNext]_busVars => [A]_busVars
  BY <1>1, <1>2 DEF BusNext, busVars
<1> QED
  BY <1>3, PTL DEF BusSpec, CodeIsGuarded

-----------------------------------------------------------------------------
(***************************************************************************)
(* MulDivUnit.  The multiplier and the divider, for every width of a word: *)
(* the rounds of the division, and the result of every operation.          *)
(***************************************************************************)

-----------------------------------------------------------------------------
(* Division *)

\* Quotient and remainder are the only ones there are.
LEMMA DivisionUnique ==
  ASSUME NEW a \in Int, NEW d \in Nat \ {0}, NEW q \in Int, NEW r \in Nat, r < d, a = d * q + r
  PROVE  a \div d = q /\ a % d = r
<1> DEFINE q1 == a \div d
           r1 == a % d
<1>1. q1 \in Int /\ r1 \in Nat /\ r1 < d /\ a = d * q1 + r1
  BY SMT
<1> HIDE DEF q1, r1
<1>2. ASSUME q1 < q PROVE FALSE
  <2>1. PICK k \in Nat : q = q1 + 1 + k
    <3>1. q - q1 - 1 \in Nat /\ q = q1 + 1 + (q - q1 - 1)
      BY <1>1, <1>2
    <3> QED
      BY <3>1
  <2>2. d * q = d * q1 + d + d * k
    BY <1>1, <2>1
  <2>3. d * k \in Nat /\ d * q1 \in Int
    BY <1>1
  <2> QED
    BY <1>1, <2>2, <2>3
<1>3. ASSUME q < q1 PROVE FALSE
  <2>1. PICK k \in Nat : q1 = q + 1 + k
    <3>1. q1 - q - 1 \in Nat /\ q1 = q + 1 + (q1 - q - 1)
      BY <1>1, <1>3
    <3> QED
      BY <3>1
  <2>2. d * q1 = d * q + d + d * k
    BY <1>1, <2>1
  <2>3. d * k \in Nat /\ d * q \in Int
    BY <1>1
  <2> QED
    BY <1>1, <2>2, <2>3
<1>4. q1 = q
  BY <1>1, <1>2, <1>3
<1>5. r1 = r
  <2>1. d * q \in Int
    OBVIOUS
  <2> QED
    BY <1>1, <1>4, <2>1
<1> QED
  BY <1>4, <1>5 DEF q1, r1

\* Division by p, and by 2 * p: the bit between them.
LEMMA NextBit ==
  ASSUME NEW a \in Nat, NEW p \in Nat \ {0}
  PROVE  a \div p = 2 * (a \div (2 * p)) + ((a \div p) % 2)
<1> DEFINE d == a \div p
           r == a % p
           e == d \div 2
           f == d % 2
<1>1. d \in Nat /\ r \in Nat /\ r < p /\ a = p * d + r
  BY SMT
<1>2. e \in Nat /\ f \in {0, 1} /\ d = 2 * e + f
  <2> HIDE DEF d
  <2> QED
    BY <1>1
<1> HIDE DEF d, r, e, f
<1>3. p * f + r \in Nat /\ p * f + r < 2 * p
  <2>1. CASE f = 0
    BY <1>1, <2>1
  <2>2. CASE f = 1
    BY <1>1, <2>2
  <2> QED
    BY <1>2, <2>1, <2>2
<1>4. a = (2 * p) * e + (p * f + r)
  BY <1>1, <1>2
<1>5. a \div (2 * p) = e
  BY <1>2, <1>3, <1>4, DivisionUnique
<1> QED
  BY <1>2, <1>5 DEF d, f

\* A number below the modulus is its own remainder.
LEMMA ModOfLess ==
  ASSUME NEW a \in Nat, NEW d \in Nat \ {0}, a < d
  PROVE  a % d = a
<1>1. d * 0 + a = a
  OBVIOUS
<1> QED
  BY <1>1, DivisionUnique

\* To divide by p and then by q is to divide by p * q.
LEMMA DivDiv ==
  ASSUME NEW a \in Nat, NEW p \in Nat \ {0}, NEW q \in Nat \ {0}
  PROVE  (a \div p) \div q = a \div (p * q)
<1> DEFINE d == a \div p
           r == a % p
           e == d \div q
           f == d % q
<1>1. d \in Nat /\ r \in Nat /\ r < p /\ a = p * d + r
  BY SMT
<1>2. e \in Nat /\ f \in Nat /\ f < q /\ d = q * e + f
  <2> HIDE DEF d
  <2> QED
    BY <1>1
<1> HIDE DEF d, r, e, f
<1>3. p * f + r \in Nat /\ p * f + r < p * q
  <2>1. PICK k \in Nat : q = f + 1 + k
    <3>1. q - f - 1 \in Nat /\ q = f + 1 + (q - f - 1)
      BY <1>2
    <3> QED
      BY <3>1
  <2>2. p * q = p * f + p + p * k /\ p * k \in Nat /\ p * f \in Nat
    BY <1>2, <2>1
  <2> QED
    BY <1>1, <2>2
<1>4. a = (p * q) * e + (p * f + r) /\ p * q \in Nat \ {0}
  BY <1>1, <1>2
<1>5. a \div (p * q) = e
  BY <1>2, <1>3, <1>4, DivisionUnique
<1> QED
  BY <1>5 DEF d, e

\* One round of the restoring division takes one bit more of the dividend.
LEMMA Round ==
  ASSUME NEW taken \in Nat, NEW b \in Nat \ {0}, NEW Q \in Nat, NEW rem \in Nat,
         Divides(taken, b, Q, rem), NEW bit \in {0, 1}
  PROVE  LET shifted == 2 * rem + bit
             q == IF shifted >= b THEN 1 ELSE 0
         IN /\ Divides(2 * taken + bit, b, 2 * Q + q, shifted - q * b)
            /\ shifted - q * b \in Nat /\ 2 * Q + q \in Nat
            /\ shifted <= 2 * taken + bit /\ 2 * Q + q <= 2 * taken + bit
<1> DEFINE shifted == 2 * rem + bit
           q == IF shifted >= b THEN 1 ELSE 0
           Qb == Q * b
<1>1. Qb \in Nat /\ taken = Qb + rem /\ rem < b
  BY DEF Divides
<1>2. Q <= Qb
  <2>1. Q * 1 <= Q * b
    OBVIOUS
  <2> QED
    BY <2>1
<1>3. (2 * Q) * b = 2 * Qb /\ (2 * Q + 1) * b = 2 * Qb + b
  OBVIOUS
<1> HIDE DEF Qb
<1>4. CASE shifted >= b
  <2>1. q = 1 /\ shifted - q * b = shifted - b
    BY <1>4
  <2>2. 2 * taken + bit = (2 * Q + 1) * b + (shifted - b) /\ shifted - b < b
    BY <1>1, <1>3
  <2>3. 2 * Q + 1 <= 2 * taken + bit
    BY <1>1, <1>2, <1>4
  <2> HIDE DEF q
  <2> QED
    BY <1>1, <1>4, <2>1, <2>2, <2>3 DEF Divides
<1>5. CASE ~(shifted >= b)
  <2>1. q = 0 /\ shifted - q * b = shifted
    BY <1>5
  <2>2. 2 * taken + bit = (2 * Q) * b + shifted /\ shifted < b
    BY <1>1, <1>3, <1>5
  <2> HIDE DEF q
  <2> QED
    BY <1>1, <1>2, <2>1, <2>2 DEF Divides
<1> QED
  BY <1>4, <1>5

-----------------------------------------------------------------------------
\* What the divider holds in each of its states: nothing before the first round, after it the
\* quotient and the remainder of the bits taken.
DivTypes ==
    /\ reg_AB \in [a : Word, b : Word]
    /\ div \in [st : {"R1", "Rounds"}, round : 0 .. Bits - 1, R : Nat, Q : Nat, rdy : BOOLEAN]
    /\ req \in [start : BOOLEAN, op : Ops, a : Word, b : Word]
Clear  == state # "DIV" => div.st = "R1" /\ ~div.rdy
First  == div.st = "R1" => div.round = 0 /\ (~div.rdy => div.Q = 0)
Taking == div.st = "Rounds" =>
              /\ div.round >= 1 /\ ~div.rdy
              /\ Divides(reg_AB.a \div Pow[Bits - div.round], reg_AB.b, div.Q, div.R)
Ready  == div.rdy => Divides(reg_AB.a, reg_AB.b, div.Q, div.R)
Given  == state = "DIV_out" => Divides(reg_AB.a, reg_AB.b, reg_muldiv.hi, reg_muldiv.lo)
Nonzero == state = "DIV" => reg_AB.b # 0
DivInv == DivTypes /\ Clear /\ First /\ Taking /\ Ready /\ Given /\ Nonzero

LEMMA PowTypes ==
    /\ Limb \in Nat \ {0} /\ Bits \in Nat /\ Bits >= 4
    /\ \A n \in 0 .. 2 * Bits : Pow[n] \in Nat \ {0}
    /\ \A n \in 0 .. 2 * Bits - 1 : Pow[n + 1] = 2 * Pow[n]
    /\ Mod \in Nat \ {0} /\ Pow[0] = 1
<1>1. Limb \in Nat \ {0} /\ Bits \in Nat /\ Bits >= 4
  BY PowAssumption DEF Bits
<1>2. \A n \in 0 .. 2 * Bits : Pow[n] \in Nat \ {0}
  BY PowAssumption
<1>3. \A n \in 0 .. 2 * Bits - 1 : Pow[n + 1] = 2 * Pow[n]
  BY PowAssumption
<1>4. Bits \in 0 .. 2 * Bits
  BY <1>1
<1>5. Mod \in Nat \ {0}
  BY <1>2, <1>4 DEF Mod
<1>6. Pow[0] = 1
  BY PowAssumption
<1> QED
  BY <1>1, <1>2, <1>3, <1>5, <1>6

-----------------------------------------------------------------------------
(* Powers of two *)

\* Induction over a set, from the library's theorem that < has least elements.
LEMMA Least ==
  ASSUME NEW T \in SUBSET Nat, NEW t \in T
  PROVE  \E x \in T : \A y \in T : x <= y
<1> DEFINE below == OpToRel(<, Nat)
<1>1. IsWellFoundedOn(below, Nat)
  BY NatLessThanWellFounded
<1>2. \A x, y \in Nat : <<y, x>> \in below <=> y < x
  BY DEF OpToRel
<1> HIDE DEF below
<1>3. T \subseteq Nat /\ T # {}
  OBVIOUS
<1>4. PICK x \in T : \A y \in T : ~(<<y, x>> \in below)
  BY <1>1, <1>3, WFMin, Zenon
<1>5. \A y \in T : y \in Nat /\ ~(y < x)
  BY <1>2, <1>3, <1>4
<1>6. \A y \in T : x <= y
  BY <1>3, <1>5
<1> QED
  BY <1>6

\* A set of numbers that has 0, and the next of each number it has, has them all.
LEMMA SetInduction ==
  ASSUME NEW S, 0 \in S, \A n \in Nat : n \in S => n + 1 \in S
  PROVE  \A n \in Nat : n \in S
<1> DEFINE T == {n \in Nat : n \notin S}
<1>1. SUFFICES ASSUME NEW t \in T PROVE FALSE
  OBVIOUS
<1>2. PICK x \in T : \A y \in T : x <= y
  BY Least
<1>3. x \in Nat /\ x # 0 /\ x - 1 \in Nat
  BY <1>2
<1>4. x - 1 \in S
  BY <1>2, <1>3
<1> QED
  BY <1>2, <1>3, <1>4

\* The power of a sum is the product of the powers.
LEMMA PowSum ==
  ASSUME NEW m \in Nat, NEW n \in Nat, m + n <= 2 * Bits
  PROVE  Pow[m + n] = Pow[m] * Pow[n]
<1> DEFINE S == {k \in Nat : m + k <= 2 * Bits => Pow[m + k] = Pow[m] * Pow[k]}
<1>1. 0 \in S
  <2>1. m \in 0 .. 2 * Bits
    BY PowTypes
  <2>2. Pow[m] \in Nat
    BY <2>1, PowTypes
  <2>3. Pow[m + 0] = Pow[m] * 1
    BY <2>2
  <2> QED
    BY <2>3, PowTypes
<1>2. ASSUME NEW k \in Nat, k \in S PROVE k + 1 \in S
  <2>1. SUFFICES ASSUME m + (k + 1) <= 2 * Bits PROVE Pow[m + (k + 1)] = Pow[m] * Pow[k + 1]
    OBVIOUS
  <2>2. m + k \in 0 .. 2 * Bits - 1 /\ k \in 0 .. 2 * Bits - 1 /\ (m + k) + 1 = m + (k + 1)
    BY <2>1, PowTypes
  <2>3. Pow[m + (k + 1)] = 2 * Pow[m + k] /\ Pow[k + 1] = 2 * Pow[k]
    BY <2>2, PowTypes
  <2>4. Pow[m + k] = Pow[m] * Pow[k]
    BY <1>2, <2>2, PowTypes
  <2>5. Pow[m] \in Nat /\ Pow[k] \in Nat
    <3>1. m \in 0 .. 2 * Bits /\ k \in 0 .. 2 * Bits
      BY <2>1, PowTypes
    <3> QED
      BY <3>1, PowTypes
  <2>6. 2 * (Pow[m] * Pow[k]) = Pow[m] * (2 * Pow[k])
    BY <2>5
  <2> QED
    BY <2>3, <2>4, <2>6
<1> HIDE DEF S
<1>3. n \in S
  BY <1>1, <1>2, SetInduction
<1> QED
  BY <1>3 DEF S

\* A word has four limbs, and the half of the words are negative.
LEMMA Widths ==
  /\ Base \in Nat \ {0} /\ Pow[0] = 1 /\ Pow[2 * Limb] \in Nat \ {0} /\ Pow[3 * Limb] \in Nat \ {0}
  /\ Pow[2 * Limb] = Base * Base /\ Pow[3 * Limb] = Pow[2 * Limb] * Base
  /\ Mod = Pow[3 * Limb] * Base /\ Mod = Pow[2 * Limb] * Pow[2 * Limb]
  /\ Mod \div 2 \in Nat /\ Mod = 2 * (Mod \div 2) /\ Mod >= 16 /\ Ones = Mod - 1
<1>1. Limb \in Nat \ {0} /\ Bits = 4 * Limb
  BY PowTypes DEF Bits
<1>2. Pow[Limb + Limb] = Pow[Limb] * Pow[Limb]
  BY <1>1, PowSum
<1>3. Pow[2 * Limb + Limb] = Pow[2 * Limb] * Pow[Limb]
  <2>1. 2 * Limb \in Nat /\ Limb \in Nat /\ 2 * Limb + Limb <= 2 * Bits
    BY <1>1
  <2> QED
    BY <2>1, PowSum
<1>4. Pow[3 * Limb + Limb] = Pow[3 * Limb] * Pow[Limb]
  <2>1. 3 * Limb \in Nat /\ Limb \in Nat /\ 3 * Limb + Limb <= 2 * Bits
    BY <1>1
  <2> QED
    BY <2>1, PowSum
<1>5. Pow[2 * Limb + 2 * Limb] = Pow[2 * Limb] * Pow[2 * Limb]
  <2>1. 2 * Limb \in Nat /\ 2 * Limb + 2 * Limb <= 2 * Bits
    BY <1>1
  <2> QED
    BY <2>1, PowSum
<1>6. /\ Limb \in 0 .. 2 * Bits /\ 2 * Limb \in 0 .. 2 * Bits /\ 3 * Limb \in 0 .. 2 * Bits
      /\ Limb + Limb = 2 * Limb /\ 2 * Limb + Limb = 3 * Limb /\ 3 * Limb + Limb = Bits
      /\ 2 * Limb + 2 * Limb = Bits
  BY <1>1
<1>7. Pow[Limb] \in Nat \ {0} /\ Pow[2 * Limb] \in Nat \ {0} /\ Pow[3 * Limb] \in Nat \ {0}
  BY <1>6, PowTypes
<1>8. Mod \in Nat /\ Mod >= 16 /\ \E h \in Nat : Mod = 2 * h
  <2>1. /\ Pow[Bits] = 2 * Pow[Bits - 1] /\ Pow[Bits - 1] = 2 * Pow[Bits - 2]
        /\ Pow[Bits - 2] = 2 * Pow[Bits - 3] /\ Pow[Bits - 3] = 2 * Pow[Bits - 4]
    <3>1. /\ Bits - 1 \in 0 .. 2 * Bits - 1 /\ (Bits - 1) + 1 = Bits
          /\ Bits - 2 \in 0 .. 2 * Bits - 1 /\ (Bits - 2) + 1 = Bits - 1
          /\ Bits - 3 \in 0 .. 2 * Bits - 1 /\ (Bits - 3) + 1 = Bits - 2
          /\ Bits - 4 \in 0 .. 2 * Bits - 1 /\ (Bits - 4) + 1 = Bits - 3
      BY PowTypes
    <3> QED
      BY <3>1, PowTypes
  <2>2. Pow[Bits - 4] \in Nat \ {0}
    <3>1. Bits - 4 \in 0 .. 2 * Bits
      BY PowTypes
    <3> QED
      BY <3>1, PowTypes
  <2> QED
    BY <2>1, <2>2 DEF Mod
<1>9. Mod \div 2 \in Nat /\ Mod = 2 * (Mod \div 2)
  BY <1>8
<1> QED
  BY <1>2, <1>3, <1>4, <1>5, <1>6, <1>7, <1>8, <1>9, PowTypes DEF Base, Mod, Ones

\* TwosC of a word is a word, and not 0 unless the word is.
LEMMA TwosCWord ==
  ASSUME NEW x \in Word
  PROVE  TwosC(x) \in Word /\ (x # 0 => TwosC(x) # 0)
<1>1. CASE x = 0
  <2>1. Mod % Mod = 0
    BY PowTypes, DivisionUnique, Mod = Mod * 1 + 0
  <2> QED
    BY <1>1, <2>1, PowTypes DEF TwosC, Word
<1>2. CASE x # 0
  <2>1. Mod - x \in Nat /\ Mod - x < Mod /\ Mod - x # 0
    BY <1>2, PowTypes DEF Word
  <2>2. (Mod - x) % Mod = Mod - x
    BY <2>1, PowTypes, DivisionUnique, Mod - x = Mod * 0 + (Mod - x)
  <2>3. TwosC(x) = Mod - x
    BY <2>2 DEF TwosC
  <2> QED
    BY <2>1, <2>3, PowTypes DEF Word
<1> QED
  BY <1>1, <1>2

\* The dividend's bits taken after n + 1 rounds.
LEMMA BitsTaken ==
  ASSUME NEW a \in Word, NEW n \in 0 .. Bits - 1
  PROVE  LET bit == (a \div Pow[Bits - 1 - n]) % 2
         IN /\ a \div Pow[Bits - (n + 1)] = 2 * (a \div Pow[Bits - n]) + bit
            /\ a \div Pow[Bits - (n + 1)] < Mod /\ a \div Pow[Bits - n] \in Nat /\ bit \in {0, 1}
<1> DEFINE p == Pow[Bits - 1 - n]
<1>1. p \in Nat \ {0} /\ Pow[Bits - n] = 2 * p /\ Pow[Bits - (n + 1)] = p
  <2>1. Bits - 1 - n \in 0 .. 2 * Bits - 1 /\ (Bits - 1 - n) + 1 = Bits - n /\ Bits - (n + 1) = Bits - 1 - n
    BY PowTypes
  <2> QED
    BY <2>1, PowTypes
<1> HIDE DEF p
<1>2. a \in Nat /\ a < Mod
  BY PowTypes DEF Word
<1>3. a \div p \in Nat /\ a \div (2 * p) \in Nat
  BY <1>1, <1>2
<1>4. a \div p <= a
  <2>1. a % p \in Nat /\ a = p * (a \div p) + (a % p)
    BY <1>1, <1>2
  <2> DEFINE d == a \div p
             pd == p * d
  <2>2. pd \in Nat /\ 1 * d <= pd
    BY <1>1, <1>3
  <2>3. a = pd + (a % p) /\ d \in Nat
    BY <1>3, <2>1
  <2> HIDE DEF d, pd
  <2>4. d <= a
    BY <1>2, <2>1, <2>2, <2>3
  <2> QED
    BY <2>4 DEF d
<1>5. (a \div p) % 2 \in {0, 1}
  BY <1>3
<1>6. a \div p = 2 * (a \div (2 * p)) + ((a \div p) % 2)
  BY <1>1, <1>2, NextBit
<1>7. a \div p < Mod
  BY <1>2, <1>3, <1>4, PowTypes
<1> QED
  BY <1>1, <1>3, <1>5, <1>6, <1>7 DEF p

-----------------------------------------------------------------------------
\* At reset the divider is clear.
LEMMA DivInit == Init => DivInv
<1> SUFFICES ASSUME Init PROVE DivInv
  OBVIOUS
<1>1. 0 \in Word /\ Bits - 1 \in Nat
  BY PowTypes DEF Word
<1>2. DivTypes
  <2>1. reg_AB \in [a : Word, b : Word]
    BY <1>1 DEF Init
  <2>2. div \in [st : {"R1", "Rounds"}, round : 0 .. Bits - 1, R : Nat, Q : Nat, rdy : BOOLEAN]
    <3>1. 0 \in 0 .. Bits - 1
      BY <1>1
    <3> QED
      BY <3>1 DEF Init
  <2>3. req \in [start : BOOLEAN, op : Ops, a : Word, b : Word]
    BY DEF Init, Requests
  <2> QED
    BY <2>1, <2>2, <2>3 DEF DivTypes
<1> QED
  BY <1>2 DEF Init, DivInv, Clear, First, Taking, Ready, Given, Nonzero

\* A prepared operand is a word, and 0 only if the operand is.
LEMMA Prepared ==
  ASSUME NEW x \in Word, NEW signed
  PROVE  Prepare(x, signed) \in Word /\ (x # 0 => Prepare(x, signed) # 0)
BY TwosCWord DEF Prepare

\* A round, from the bits that the remainder and the quotient hold.
LEMMA StepIsRound ==
  ASSUME DivTypes, reg_AB.b # 0, NEW n \in 0 .. Bits - 1,
         NEW rem \in Nat, NEW quo \in Nat,
         Divides(reg_AB.a \div Pow[Bits - n], reg_AB.b, quo, rem)
  PROVE  LET shifted == (2 * rem + ((reg_AB.a \div Pow[Bits - 1 - n]) % 2)) % Mod
             q == IF shifted >= reg_AB.b THEN 1 ELSE 0
             R1 == shifted - q * reg_AB.b
             Q1 == (2 * quo + q) % Mod
         IN R1 \in Nat /\ Q1 \in Nat /\ Divides(reg_AB.a \div Pow[Bits - (n + 1)], reg_AB.b, Q1, R1)
<1> DEFINE a     == reg_AB.a
           b     == reg_AB.b
           taken == a \div Pow[Bits - n]
           bit   == (a \div Pow[Bits - 1 - n]) % 2
           next  == a \div Pow[Bits - (n + 1)]
           sum   == 2 * rem + bit
           q     == IF sum >= b THEN 1 ELSE 0
<1>1. a \in Word /\ b \in Word /\ b \in Nat \ {0}
  BY PowTypes DEF DivTypes, Word
<1>2. next = 2 * taken + bit /\ next < Mod /\ taken \in Nat /\ bit \in {0, 1}
  BY <1>1, BitsTaken
<1> HIDE DEF a, b, taken, bit, next
<1>3. Divides(taken, b, quo, rem)
  BY DEF a, b, taken
<1>4. /\ Divides(2 * taken + bit, b, 2 * quo + q, sum - q * b)
      /\ sum - q * b \in Nat /\ 2 * quo + q \in Nat
      /\ sum <= 2 * taken + bit /\ 2 * quo + q <= 2 * taken + bit
  BY <1>1, <1>2, <1>3, Round
<1>5. sum \in Nat /\ sum < Mod /\ 2 * quo + q < Mod
  <2> HIDE DEF q
  <2> QED
    BY <1>2, <1>4, PowTypes
<1>6. sum % Mod = sum
  BY <1>5, PowTypes, ModOfLess
<1>7. (2 * quo + q) % Mod = 2 * quo + q
  <2> HIDE DEF q
  <2> QED
    BY <1>4, <1>5, PowTypes, ModOfLess
<1> QED
  BY <1>2, <1>4, <1>6, <1>7 DEF a, b, bit, next

\* What the next clock makes of the divider.
LEMMA DivStepInv ==
  ASSUME DivInv, Clock
  PROVE  /\ div' \in [st : {"R1", "Rounds"}, round : 0 .. Bits - 1, R : Nat, Q : Nat, rdy : BOOLEAN]
         /\ First' /\ Taking' /\ Ready'
         /\ ~div_start => div'.st = "R1" /\ ~div'.rdy
<1> USE DEF DivInv
<1>1. Bits \in Nat /\ Bits >= 4
  BY PowTypes
<1>2. CASE ~div_start
  <2>1. div.st = "R1"
    BY <1>2 DEF Clear, Taking, div_start, DivTypes
  <2>2. div' = [st |-> "R1", round |-> 0, R |-> 0, Q |-> 0, rdy |-> FALSE]
    BY <1>2, <2>1 DEF Clock, DivNext
  <2> QED
    BY <2>2, <1>1 DEF First, Taking, Ready
<1>3. CASE div_start
  <2> DEFINE n   == IF div.st = "R1" THEN 0 ELSE div.round
             rem == IF div.st = "R1" THEN 0 ELSE div.R
  <2>1. reg_AB' = reg_AB /\ reg_AB.b # 0 /\ state = "DIV" /\ ~div.rdy
    BY <1>3 DEF div_start, Nonzero, Clock
  <2>2. n \in 0 .. Bits - 1 /\ rem \in Nat /\ div.Q \in Nat /\ n = div.round
    BY <1>1 DEF DivTypes, First
  <2>3. Divides(reg_AB.a \div Pow[Bits - n], reg_AB.b, div.Q, rem)
    <3>1. CASE div.st = "R1"
      <4>1. reg_AB.a \in Word /\ reg_AB.b \in Word
        BY DEF DivTypes
      <4>2. reg_AB.a \div Pow[Bits] = 0
        <5>1. reg_AB.a \in Nat /\ reg_AB.a < Pow[Bits] /\ Pow[Bits] \in Nat \ {0}
          BY <4>1, PowTypes DEF Word, Mod
        <5> QED
          BY <5>1, DivisionUnique, reg_AB.a = Pow[Bits] * 0 + reg_AB.a
      <4>3. div.Q = 0
        BY <2>1, <3>1 DEF First
      <4>4. reg_AB.b \in Nat \ {0}
        BY <2>1, <4>1, PowTypes DEF Word
      <4>5. n = 0 /\ rem = 0 /\ Bits - n = Bits
        BY <1>1, <3>1
      <4> HIDE DEF n, rem
      <4> QED
        BY <4>2, <4>3, <4>4, <4>5 DEF Divides
    <3>2. CASE div.st # "R1"
      BY <3>2 DEF Taking, DivTypes
    <3> QED
      BY <3>1, <3>2
  <2> DEFINE shifted == (2 * rem + ((reg_AB.a \div Pow[Bits - 1 - n]) % 2)) % Mod
             q  == IF shifted >= reg_AB.b THEN 1 ELSE 0
             R1 == shifted - q * reg_AB.b
             Q1 == (2 * div.Q + q) % Mod
  <2>4. DivStep = [R |-> R1, Q |-> Q1]
    BY DEF DivStep
  <2> HIDE DEF n, rem
  <2>5. R1 \in Nat /\ Q1 \in Nat /\ Divides(reg_AB.a \div Pow[Bits - (n + 1)], reg_AB.b, Q1, R1)
    BY <2>1, <2>2, <2>3, StepIsRound
  <2> HIDE DEF R1, Q1
  <2>6. CASE n = Bits - 1
    <3>1. div.st = "Rounds"
      BY <1>1, <2>2, <2>6 DEF First, DivTypes
    <3>2. div' = [st |-> "R1", round |-> 0, R |-> R1, Q |-> Q1, rdy |-> TRUE]
      BY <1>3, <2>2, <2>4, <2>6, <3>1 DEF Clock, DivNext
    <3>3. reg_AB.a \div Pow[Bits - (n + 1)] = reg_AB.a
      <4>1. Bits - (n + 1) = 0 /\ Pow[0] = 1
        BY <1>1, <2>6, PowTypes
      <4>2. reg_AB.a \in Nat
        BY PowTypes DEF DivTypes, Word
      <4>3. reg_AB.a \div 1 = reg_AB.a
        BY <4>2
      <4> QED
        BY <4>1, <4>3
    <3> QED
      BY <1>1, <1>3, <2>1, <2>5, <3>2, <3>3 DEF First, Taking, Ready
  <2>7. CASE n # Bits - 1
    <3>1. n + 1 \in 0 .. Bits - 1 /\ n + 1 >= 1
      BY <1>1, <2>2, <2>7
    <3>2. div' = [st |-> "Rounds", round |-> n + 1, R |-> R1, Q |-> Q1, rdy |-> FALSE]
      BY <1>3, <2>2, <2>4, <2>7 DEF Clock, DivNext
    <3> QED
      BY <1>3, <2>1, <2>5, <3>1, <3>2 DEF First, Taking, Ready
  <2> QED
    BY <2>6, <2>7
<1> QED
  BY <1>2, <1>3

LEMMA DivNextInv == DivInv /\ [Clock]_vars => DivInv'
<1> SUFFICES ASSUME DivInv, [Clock]_vars PROVE DivInv'
  OBVIOUS
<1>1. CASE Clock
  <2>1. /\ div' \in [st : {"R1", "Rounds"}, round : 0 .. Bits - 1, R : Nat, Q : Nat, rdy : BOOLEAN]
        /\ First' /\ Taking' /\ Ready'
        /\ ~div_start => div'.st = "R1" /\ ~div'.rdy
    BY <1>1, DivStepInv
  <2>2. req' \in [start : BOOLEAN, op : Ops, a : Word, b : Word]
    <3>1. Later \subseteq Word /\ 0 \in Word
      BY LaterAssumption, PowTypes DEF Word, Mod
    <3>2. req \in [start : BOOLEAN, op : Ops, a : Word, b : Word]
      BY DEF DivInv, DivTypes
    <3>3. CASE req' \in Requests(Later) \cup {NoRequest}
      <4>1. NoRequest \in [start : BOOLEAN, op : Ops, a : Word, b : Word]
        BY <3>1 DEF NoRequest, Ops, Muls
      <4>2. Requests(Later) \subseteq [start : BOOLEAN, op : Ops, a : Word, b : Word]
        BY <3>1 DEF Requests
      <4> QED
        BY <3>3, <4>1, <4>2
    <3> QED
      BY <1>1, <3>2, <3>3 DEF Clock
  <2>3. reg_AB' \in [a : Word, b : Word]
    <3>1. req.a \in Word /\ req.b \in Word /\ reg_AB \in [a : Word, b : Word]
      BY DEF DivInv, DivTypes
    <3>2. /\ Prepare(req.a, req.op \in SignedA) \in Word
          /\ Prepare(req.b, req.op \in SignedB) \in Word
      BY <3>1, Prepared
    <3> QED
      BY <1>1, <3>1, <3>2 DEF Clock
  <2>4. state' # "DIV" => ~div_start
    BY <1>1 DEF Clock, StateNext, div_start
  <2>5. Clear'
    BY <2>1, <2>4 DEF Clear
  <2>6. Given'
    <3> SUFFICES ASSUME state' = "DIV_out"
                 PROVE  (Divides(reg_AB.a, reg_AB.b, reg_muldiv.hi, reg_muldiv.lo))'
      BY DEF Given
    <3>1. state = "DIV" /\ div.rdy
      BY <1>1 DEF Clock, StateNext
    <3>2. reg_AB' = reg_AB /\ reg_muldiv' = [hi |-> div.Q, lo |-> div.R]
      BY <1>1, <3>1 DEF Clock
    <3> QED
      BY <3>1, <3>2 DEF DivInv, Ready, Divides
  <2>7. Nonzero'
    <3> SUFFICES ASSUME state' = "DIV" PROVE reg_AB'.b # 0
      BY DEF Nonzero
    <3>1. CASE state = "DIV"
      BY <1>1, <3>1 DEF Clock, DivInv, Nonzero
    <3>2. CASE state # "DIV"
      <4>1. state = "IDLE" /\ req.start /\ ~IsFast
        BY <1>1, <3>2 DEF Clock, StateNext
      <4>2. req.b # 0 /\ req.b \in Word
        BY <4>1 DEF IsFast, StatusB, Status, DivInv, DivTypes
      <4>3. reg_AB' = [a |-> Prepare(req.a, req.op \in SignedA), b |-> Prepare(req.b, req.op \in SignedB)]
        BY <1>1, <4>1 DEF Clock
      <4> QED
        BY <4>2, <4>3, Prepared
    <3> QED
      BY <3>1, <3>2
  <2> QED
    BY <2>1, <2>2, <2>3, <2>5, <2>6, <2>7 DEF DivInv, DivTypes
<1>2. CASE UNCHANGED vars
  BY <1>2 DEF vars, DivInv, DivTypes, Clear, First, Taking, Ready, Given, Nonzero, Divides
<1> QED
  BY <1>1, <1>2

\* For every width of a word, and whatever was asked before: each round leaves the quotient and
\* the remainder of the bits taken, and the output stage gets those of the whole dividend.
THEOREM RoundsAreExactHolds == Spec => []RoundsAreExact
<1>1. DivInv => RoundsAreExact
  BY DEF DivInv, Taking, Given, RoundsAreExact
<1> QED
  BY <1>1, DivInit, DivNextInv, PTL DEF Spec

-----------------------------------------------------------------------------
(* The multiplier *)

\* A number is its limbs.
LEMMA Limbs ==
  ASSUME NEW x \in Word
  PROVE  LET l(i) == LimbOf(x, i)
         IN /\ l(0) \in Nat /\ l(1) \in Nat /\ l(2) \in Nat /\ l(3) \in Nat
            /\ x = Pow[2 * Limb] * (l(3) * Base + l(2)) + (l(1) * Base + l(0))
<1> DEFINE B == Base
           x1 == x \div B
           x2 == x1 \div B
           x3 == x2 \div B
<1>1. x \in Nat /\ x < Mod /\ B \in Nat \ {0} /\ Limb \in Nat
  BY Widths, PowTypes DEF Word
<1>2. /\ Pow[0 * Limb] = 1 /\ Pow[1 * Limb] = B /\ Pow[2 * Limb] = B * B
      /\ Pow[3 * Limb] = (B * B) * B /\ Mod = ((B * B) * B) * B
  BY <1>1, Widths DEF Base
<1> HIDE DEF B
<1>3. x1 \in Nat /\ x % B \in Nat /\ x = B * x1 + (x % B)
  BY <1>1
<1>4. x2 \in Nat /\ x1 % B \in Nat /\ x1 = B * x2 + (x1 % B)
  <2> HIDE DEF x1
  <2> QED
    BY <1>1, <1>3
<1>5. x3 \in Nat /\ x2 % B \in Nat /\ x2 = B * x3 + (x2 % B)
  <2> HIDE DEF x2
  <2> QED
    BY <1>1, <1>4
<1>a. B * B \in Nat \ {0} /\ (B * B) * B \in Nat \ {0}
  <2>1. \A m, n \in Nat \ {0} : m * n \in Nat \ {0}
    OBVIOUS
  <2> QED
    BY <1>1, <2>1
<1>6. x2 = x \div (B * B) /\ B * B \in Nat \ {0}
  BY <1>1, <1>a, DivDiv
<1>7. x3 = x \div ((B * B) * B) /\ (B * B) * B \in Nat \ {0}
  <2>1. x3 = (x \div (B * B)) \div B
    BY <1>6
  <2> HIDE DEF x3
  <2> QED
    BY <1>1, <1>a, <2>1, DivDiv
<1>8. x \div 1 = x
  BY <1>1
<1>9. LimbOf(x, 0) = x % B /\ LimbOf(x, 1) = x1 % B /\ LimbOf(x, 2) = x2 % B /\ LimbOf(x, 3) = x3 % B
  BY <1>2, <1>6, <1>7, <1>8 DEF LimbOf, B
<1>10. x3 % B = x3
  <2> DEFINE c == (B * B) * B
             r == x % c
  <2>0. c \in Nat \ {0}
    BY <1>7
  <2>1. r \in Nat /\ x = c * x3 + r /\ c \in Nat \ {0}
    <3>1. x3 = x \div c
      BY <1>7
    <3> HIDE DEF c, x3
    <3> QED
      BY <1>1, <2>0, <3>1
  <2> HIDE DEF x3, r
  <2>2. ASSUME x3 >= B PROVE FALSE
    <3> HIDE DEF c
    <3>1. PICK k \in Nat : x3 = B + k
      <4>1. x3 - B \in Nat /\ x3 = B + (x3 - B)
        BY <1>1, <1>5, <2>2
      <4> QED
        BY <4>1
    <3>2. c * x3 = c * B + c * k /\ c * k \in Nat /\ c * B \in Nat
      BY <1>1, <2>1, <3>1
    <3>3. Mod = c * B
      BY <1>2 DEF c
    <3> QED
      BY <1>1, <2>1, <3>2, <3>3
  <2>3. x3 = B * 0 + x3 /\ x3 < B
    BY <1>1, <1>5, <2>2
  <2> QED
    BY <1>1, <1>5, <2>3, DivisionUnique
<1> HIDE DEF x1, x2, x3
<1>11. x = (B * B) * (x3 * B + (x2 % B)) + ((x1 % B) * B + (x % B))
  <2> DEFINE r0 == x % B
             r1 == x1 % B
             r2 == x2 % B
  <2> HIDE DEF r0, r1, r2
  <2>1. x = B * (B * (B * x3 + r2) + r1) + r0
    BY <1>3, <1>4, <1>5 DEF r0, r1, r2
  <2>2. r0 \in Nat /\ r1 \in Nat /\ r2 \in Nat
    BY <1>3, <1>4, <1>5 DEF r0, r1, r2
  <2>3. B * (B * (B * x3 + r2) + r1) + r0 = (B * B) * (x3 * B + r2) + (r1 * B + r0)
    BY <1>1, <1>5, <2>2
  <2> QED
    BY <2>1, <2>3 DEF r0, r1, r2
<1> QED
  BY <1>2, <1>3, <1>4, <1>5, <1>9, <1>10, <1>11 DEF B

\* A product of sums, term by term.
LEMMA Cross ==
  ASSUME NEW c \in Nat, NEW x1 \in Nat, NEW x0 \in Nat, NEW y1 \in Nat, NEW y0 \in Nat
  PROVE  /\ (x1 * c + x0) * (y1 * c + y0) = (x1 * y1) * (c * c) + (x1 * y0 + x0 * y1) * c + x0 * y0
         /\ (c * x1 + x0) * (c * y1 + y0) = (x1 * y1) * (c * c) + (x1 * y0 + x0 * y1) * c + x0 * y0
  OBVIOUS

\* The adders of multiplier_32 put the product together.
LEMMA Product ==
  ASSUME reg_AB.a \in Word, reg_AB.b \in Word, pp = Partial
  PROVE  P = reg_AB.a * reg_AB.b /\ P \in Nat
<1> DEFINE x(i) == LimbOf(reg_AB.a, i)
           y(i) == LimbOf(reg_AB.b, i)
           c == Pow[2 * Limb]
<1>1. /\ x(0) \in Nat /\ x(1) \in Nat /\ x(2) \in Nat /\ x(3) \in Nat
      /\ y(0) \in Nat /\ y(1) \in Nat /\ y(2) \in Nat /\ y(3) \in Nat
      /\ Base \in Nat /\ c \in Nat /\ c = Base * Base /\ Mod = c * c
  BY Limbs, Widths
<1> DEFINE xh == x(3) * Base + x(2)
           xl == x(1) * Base + x(0)
           yh == y(3) * Base + y(2)
           yl == y(1) * Base + y(0)
<1>2. reg_AB.a = c * xh + xl /\ reg_AB.b = c * yh + yl
  BY Limbs
<1>3. \A i, j \in 0 .. 3 : pp[i][j] = x(i) * y(j)
  BY DEF Partial
<1> HIDE DEF x, y, c
<1>4. /\ Halves(2, 2) = xh * yh /\ Halves(2, 0) = xh * yl
      /\ Halves(0, 2) = xl * yh /\ Halves(0, 0) = xl * yl
  <2>1. /\ Halves(2, 2) = (x(3) * y(3)) * c + (x(3) * y(2) + x(2) * y(3)) * Base + x(2) * y(2)
        /\ Halves(2, 0) = (x(3) * y(1)) * c + (x(3) * y(0) + x(2) * y(1)) * Base + x(2) * y(0)
        /\ Halves(0, 2) = (x(1) * y(3)) * c + (x(1) * y(2) + x(0) * y(3)) * Base + x(0) * y(2)
        /\ Halves(0, 0) = (x(1) * y(1)) * c + (x(1) * y(0) + x(0) * y(1)) * Base + x(0) * y(0)
    BY <1>3 DEF Halves, c
  <2> QED
    BY <1>1, <2>1, Cross
<1>5. xh \in Nat /\ xl \in Nat /\ yh \in Nat /\ yl \in Nat
  BY <1>1
<1> HIDE DEF xh, xl, yh, yl
<1>6. P = (xh * yh) * (c * c) + (xh * yl + xl * yh) * c + xl * yl
  BY <1>1, <1>4 DEF P, c
<1>7. (c * xh + xl) * (c * yh + yl) = (xh * yh) * (c * c) + (xh * yl + xl * yh) * c + xl * yl
  BY <1>1, <1>5, Cross
<1>8. P = reg_AB.a * reg_AB.b
  BY <1>2, <1>6, <1>7
<1>9. reg_AB.a * reg_AB.b \in Nat
  BY PowTypes DEF Word
<1> QED
  BY <1>8, <1>9

-----------------------------------------------------------------------------
(* Signs *)

\* The number that an operand stands for, and what the unit computes with.
Value(x, signed) == IF signed THEN Signed(x) ELSE x
Abs(v) == IF v < 0 THEN -v ELSE v

\* A word is its own low word, and its high word is 0.
LEMMA ModWord ==
  ASSUME NEW n \in 0 .. Mod - 1
  PROVE  n % Mod = n /\ n \div Mod = 0
<1> DEFINE d == Mod
           q == 0
<1>1. n = d * q + n /\ n \in Nat /\ n < d /\ n \in Int /\ d \in Nat \ {0} /\ q \in Int
  BY PowTypes
<1> HIDE DEF d, q
<1>2. n \div d = q /\ n % d = n
  BY <1>1, DivisionUnique
<1> QED
  BY <1>2 DEF d, q

\* To add a word's modulus, or its square, does not change the low word.
LEMMA Shift ==
  ASSUME NEW n \in Int
  PROVE  /\ n % Mod \in Word /\ n \div Mod \in Int /\ n = Mod * (n \div Mod) + (n % Mod)
         /\ (n + Mod) % Mod = n % Mod
         /\ (n + Mod * Mod) % Mod = n % Mod /\ (n + Mod * Mod) \div Mod = (n \div Mod) + Mod
<1> DEFINE q == n \div Mod
           r == n % Mod
<1>1. q \in Int /\ r \in Nat /\ r < Mod /\ n = Mod * q + r
  BY PowTypes, SMT
<1> HIDE DEF q, r
<1>2. n + Mod = Mod * (q + 1) + r /\ n + Mod * Mod = Mod * (q + Mod) + r
  BY <1>1, PowTypes
<1>3. n + Mod \in Int /\ n + Mod * Mod \in Int /\ q + 1 \in Int /\ q + Mod \in Int
  BY <1>1, PowTypes
<1>4. (n + Mod) % Mod = r
  BY <1>1, <1>2, <1>3, PowTypes, DivisionUnique
<1>5. (n + Mod * Mod) % Mod = r /\ (n + Mod * Mod) \div Mod = q + Mod
  BY <1>1, <1>2, <1>3, PowTypes, DivisionUnique
<1> QED
  BY <1>1, <1>4, <1>5, PowTypes DEF q, r, Word

\* A number is its high and its low word.
LEMMA HighAndLow ==
  ASSUME NEW n \in Nat
  PROVE  (n \div Mod) * Mod + (n % Mod) = n
<1> DEFINE q == n \div Mod
           r == n % Mod
<1>1. q \in Int /\ r \in Word /\ n = Mod * q + r
  BY Shift
<1> HIDE DEF q, r
<1>2. q * Mod + r = n
  BY <1>1, PowTypes DEF Word
<1> QED
  BY <1>2 DEF q, r

\* What MULDIV_in makes of an operand.
LEMMA Operand ==
  ASSUME NEW x \in Word, NEW signed \in BOOLEAN
  PROVE  LET v == Value(x, signed)
         IN /\ v \in -Mod + 1 .. Mod - 1
            /\ signed => (v < 0 <=> Neg(x)) /\ (v >= 0 => 2 * v < Mod) /\ 2 * v >= -Mod
            /\ ~signed => v = x
            /\ Prepare(x, signed) = Abs(v)
            /\ x = v % Mod /\ TwosC(x) = (-v) % Mod
            /\ Status(x, signed) = "zero" <=> v = 0
            /\ Status(x, signed) = "one" <=> v = 1
            /\ Status(x, signed) = "minus_one" <=> v = -1
<1> DEFINE v == Value(x, signed)
<1>1. x \in Nat /\ x < Mod /\ x \in 0 .. Mod - 1 /\ x \in Int /\ Ones = Mod - 1 /\ Mod >= 16 /\ Mod \in Nat
  BY Widths, PowTypes DEF Word
<1>2. PICK h \in Nat : Mod = 2 * h /\ Mod \div 2 = h
  BY Widths
<1>a. Neg(x) = (x >= h)
  BY <1>2 DEF Neg
<1>3. x % Mod = x
  BY <1>1, ModWord
<1>4. TwosC(x) = (-x) % Mod
  <2>0. -x \in Int
    BY <1>1
  <2>1. ((-x) + Mod) % Mod = (-x) % Mod
    BY <2>0, Shift
  <2>2. (-x) + Mod = Mod - x
    BY <1>1
  <2> QED
    BY <2>1, <2>2 DEF TwosC
<1>5. CASE signed = TRUE /\ x >= h
  <2>1. v = x - Mod
    BY <1>5, <1>a DEF Value, Signed
  <2>2. v \in -Mod + 1 .. -1 /\ 2 * v >= -Mod /\ x = v + Mod /\ Mod - x = -v /\ v \in Int
    <3> HIDE DEF v
    <3> QED
      BY <1>1, <1>2, <1>5, <2>1
  <2>3. x = v % Mod
    BY <1>3, <2>2, Shift
  <2>4. TwosC(x) = (-v) % Mod
    BY <2>2 DEF TwosC
  <2>5. (-v) % Mod = -v
    <3>1. -v \in 0 .. Mod - 1
      BY <1>1, <2>2
    <3> QED
      BY <3>1, ModWord
  <2>6. Prepare(x, signed) = Abs(v)
    <3>1. Prepare(x, signed) = TwosC(x)
      BY <1>5, <1>a DEF Prepare
    <3>2. Abs(v) = -v
      <4> HIDE DEF v
      <4> QED
        BY <1>1, <2>2 DEF Abs
    <3> QED
      BY <2>4, <2>5, <3>1, <3>2
  <2>7. x # 0 /\ x # 1 /\ (x = Ones <=> v = -1)
    <3> HIDE DEF v
    <3> QED
      BY <1>1, <1>2, <1>5, <2>2
  <2>8. /\ Status(x, signed) = "zero" <=> v = 0
        /\ Status(x, signed) = "one" <=> v = 1
        /\ Status(x, signed) = "minus_one" <=> v = -1
    <3> HIDE DEF v
    <3>1. v < 0 /\ v # 0 /\ v # 1
      BY <1>1, <2>2
    <3> QED
      BY <1>5, <2>7, <3>1 DEF Status
  <2> HIDE DEF v
  <2>a. Neg(x) = TRUE
    BY <1>5, <1>a
  <2>b. v \in -Mod + 1 .. Mod - 1 /\ v < 0 /\ 2 * v >= -Mod /\ ~(v >= 0)
    BY <1>1, <2>2
  <2>9. /\ v \in -Mod + 1 .. Mod - 1 /\ v < 0 /\ 2 * v >= -Mod /\ Neg(x) = TRUE /\ signed = TRUE
        /\ ~(v >= 0)
    BY <1>5, <2>a, <2>b
  <2> QED
    BY <2>3, <2>4, <2>6, <2>8, <2>9 DEF v
<1>6. CASE signed = FALSE \/ ~(x >= h)
  <2>1. v = x
    BY <1>6, <1>a DEF Value, Signed
  <2>2. Prepare(x, signed) = Abs(v)
    <3>1. ~(x < 0)
      BY <1>1
    <3>2. ~(signed /\ Neg(x))
      BY <1>6, <1>a
    <3> QED
      BY <2>1, <3>1, <3>2 DEF Prepare, Abs
  <2>3. signed = TRUE => x # Ones /\ x < h
    BY <1>1, <1>2, <1>6
  <2>4. /\ Status(x, signed) = "zero" <=> v = 0
        /\ Status(x, signed) = "one" <=> v = 1
        /\ Status(x, signed) = "minus_one" <=> v = -1
    BY <1>1, <2>1, <2>3 DEF Status
  <2> QED
    <3>1. /\ x \in -Mod + 1 .. Mod - 1 /\ x >= 0 /\ ~(x < 0) /\ 2 * x >= -Mod
          /\ signed = TRUE => 2 * x < Mod
      BY <1>1, <1>2, <2>3
    <3>2. signed = TRUE => Neg(x) = FALSE
      BY <1>2, <1>6 DEF Neg
    <3>3. /\ v \in -Mod + 1 .. Mod - 1 /\ v >= 0 /\ ~(v < 0) /\ 2 * v >= -Mod
          /\ signed = TRUE => 2 * v < Mod
          /\ x = v % Mod /\ TwosC(x) = (-v) % Mod /\ v = x
      BY <1>3, <1>4, <2>1, <3>1
    <3> HIDE DEF v
    <3>4. signed => (v < 0 <=> Neg(x)) /\ (v >= 0 => 2 * v < Mod) /\ 2 * v >= -Mod
      <4>1. CASE signed = FALSE
        BY <4>1
      <4>2. CASE signed = TRUE
        BY <3>2, <3>3, <4>2
      <4> QED
        BY <4>1, <4>2
    <3> QED
      BY <2>2, <2>4, <3>3, <3>4 DEF v
<1> QED
  BY <1>5, <1>6

\* MULout gives the low or the high word of the signed product.
LEMMA SignedProduct ==
  ASSUME NEW v \in -Mod + 1 .. Mod - 1, NEW w \in -Mod + 1 .. Mod - 1, v # 0, w # 0,
         NEW p, p = Abs(v) * Abs(w),
         NEW ps, ps = IF (v < 0) # (w < 0) THEN (Mod * Mod - p) % (Mod * Mod) ELSE p
  PROVE  ps % Mod = (v * w) % Mod /\ ps \div Mod = ((v * w) \div Mod) % Mod
<1> DEFINE x == Abs(v)
           y == Abs(w)
           sq == Mod * Mod
<1>1. Mod \in Nat \ {0} /\ sq \in Nat \ {0} /\ v \in Int /\ w \in Int
  <2>1. \A m \in Nat \ {0} : m * m \in Nat \ {0}
    OBVIOUS
  <2> QED
    BY <2>1, PowTypes
<1>2. x \in 1 .. Mod - 1 /\ y \in 1 .. Mod - 1
  BY <1>1 DEF Abs
<1>3. v * w = IF (v < 0) # (w < 0) THEN -(x * y) ELSE x * y
  <2>1. /\ v < 0 => v = -x
        /\ ~(v < 0) => v = x
        /\ w < 0 => w = -y
        /\ ~(w < 0) => w = y
    BY <1>1 DEF Abs
  <2> HIDE DEF x, y
  <2>2. (-x) * y = -(x * y) /\ x * (-y) = -(x * y) /\ (-x) * (-y) = x * y
    BY <1>2
  <2> QED
    BY <2>1, <2>2
<1>4. p = x * y
  OBVIOUS
<1> HIDE DEF x, y
<1>5. p \in Nat /\ p >= 1 /\ p < sq
  <2>1. x * y \in Nat /\ x * y >= x
    <3>1. PICK k \in Nat : y = 1 + k
      <4>1. y - 1 \in Nat /\ y = 1 + (y - 1)
        BY <1>2
      <4> QED
        BY <4>1
    <3>2. x * y = x + x * k /\ x * k \in Nat
      BY <1>2, <3>1
    <3> QED
      BY <1>2, <3>2
  <2>2. x * y < Mod * Mod
    <3>1. PICK k \in Nat : Mod = x + 1 + k
      <4>1. Mod - x - 1 \in Nat /\ Mod = x + 1 + (Mod - x - 1)
        BY <1>1, <1>2
      <4> QED
        BY <4>1
    <3>2. PICK l \in Nat : Mod = y + l
      <4>1. Mod - y \in Nat /\ Mod = y + (Mod - y)
        BY <1>1, <1>2
      <4> QED
        BY <4>1
    <3>3. Mod * Mod = x * y + x * l + Mod + k * Mod
      <4>1. Mod * Mod = x * Mod + Mod + k * Mod
        BY <1>1, <1>2, <3>1
      <4>2. x * Mod = x * y + x * l
        BY <1>1, <1>2, <3>2
      <4> QED
        BY <4>1, <4>2
    <3>4. x * l \in Nat /\ k * Mod \in Nat /\ x * y \in Nat
      BY <1>1, <1>2
    <3> QED
      BY <1>1, <3>3, <3>4
  <2> QED
    BY <1>2, <1>4, <2>1, <2>2
<1>6. CASE (v < 0) # (w < 0)
  <2> DEFINE n == -p
             k == n \div Mod
             r == n % Mod
  <2>1. v * w = n /\ n \in Int
    BY <1>3, <1>4, <1>5, <1>6
  <2>2. ps = n + sq
    <3> DEFINE m == sq - p
    <3>1. m = sq * 0 + m /\ m \in Nat /\ m < sq /\ m \in Int
      BY <1>1, <1>5
    <3> HIDE DEF m, sq
    <3>2. m % sq = m
      BY <1>1, <3>1, DivisionUnique
    <3>3. ps = m % sq
      BY <1>6 DEF m, sq
    <3> QED
      BY <1>1, <1>5, <3>2, <3>3 DEF m
  <2> HIDE DEF n
  <2>3. /\ r \in 0 .. Mod - 1 /\ k \in Int /\ n = Mod * k + r
        /\ (n + sq) % Mod = r /\ (n + sq) \div Mod = k + Mod
    BY <2>1, Shift DEF Word
  <2> HIDE DEF k, r
  <2>4. k + Mod \in 0 .. Mod - 1
    <3>1. k <= -1
      <4>1. ASSUME k >= 0 PROVE FALSE
        <5>1. Mod * k \in Nat
          BY <1>1, <2>3, <4>1
        <5> QED
          BY <1>5, <2>3, <5>1 DEF n
      <4> QED
        BY <2>3, <4>1
    <3>2. k >= -Mod
      <4>1. ASSUME k < -Mod PROVE FALSE
        <5>1. PICK j \in Nat : k = -Mod - 1 - j
          <6>1. -Mod - 1 - k \in Nat /\ k = -Mod - 1 - (-Mod - 1 - k)
            BY <1>1, <2>3, <4>1
          <6> QED
            BY <6>1
        <5>2. Mod * k = -sq - Mod - Mod * j /\ Mod * j \in Nat
          BY <1>1, <5>1
        <5> HIDE DEF sq
        <5> QED
          BY <1>1, <1>5, <2>3, <5>2 DEF n
      <4> QED
        BY <1>1, <2>3, <4>1
    <3> QED
      BY <1>1, <2>3, <3>1, <3>2
  <2>5. (k + Mod) % Mod = k + Mod /\ (k + Mod) % Mod = k % Mod
    BY <2>3, <2>4, ModWord, Shift
  <2> QED
    BY <2>1, <2>2, <2>3, <2>5 DEF k, r
<1>7. CASE ~((v < 0) # (w < 0))
  <2> DEFINE k == p \div Mod
             r == p % Mod
  <2>1. v * w = p /\ ps = p
    BY <1>3, <1>4, <1>7
  <2>2. r \in 0 .. Mod - 1 /\ k \in Int /\ p = Mod * k + r
    BY <1>5, Shift DEF Word
  <2> HIDE DEF k, r
  <2>3. k >= 0
    <3>1. ASSUME k <= -1 PROVE FALSE
      <4>1. PICK j \in Nat : k = -1 - j
        <5>1. -1 - k \in Nat /\ k = -1 - (-1 - k)
          BY <2>2, <3>1
        <5> QED
          BY <5>1
      <4>2. Mod * k = -Mod - Mod * j /\ Mod * j \in Nat
        BY <1>1, <4>1
      <4> QED
        BY <1>1, <1>5, <2>2, <4>2
    <3> QED
      BY <2>2, <3>1
  <2>4. k < Mod
    <3>1. ASSUME k >= Mod PROVE FALSE
      <4>1. PICK j \in Nat : k = Mod + j
        <5>1. k - Mod \in Nat /\ k = Mod + (k - Mod)
          BY <1>1, <2>2, <3>1
        <5> QED
          BY <5>1
      <4>2. Mod * k = sq + Mod * j /\ Mod * j \in Nat
        BY <1>1, <4>1
      <4> HIDE DEF sq
      <4> QED
        BY <1>1, <1>5, <2>2, <4>2
    <3> QED
      BY <1>1, <2>2, <3>1
  <2>5. k % Mod = k
    BY <1>1, <2>2, <2>3, <2>4, ModWord
  <2> QED
    BY <2>1, <2>5 DEF k
<1> QED
  BY <1>6, <1>7

\* DIVout gives the quotient its sign, and the remainder that of the dividend.
LEMMA SignedDivision ==
  ASSUME NEW v \in -Mod + 1 .. Mod - 1, NEW w \in -Mod + 1 .. Mod - 1, w # 0,
         NEW q \in Nat, NEW r \in Nat, Divides(Abs(v), Abs(w), q, r)
  PROVE  /\ Quotient(v, w) % Mod = IF (v < 0) # (w < 0) THEN TwosC(q) ELSE q
         /\ (v - Quotient(v, w) * w) % Mod = IF v < 0 THEN TwosC(r) ELSE r
<1> DEFINE x == Abs(v)
           y == Abs(w)
           z == q * y
<1>1. Mod \in Nat \ {0} /\ v \in Int /\ w \in Int
  BY PowTypes
<1>2. x \in 0 .. Mod - 1 /\ y \in 1 .. Mod - 1
  BY <1>1 DEF Abs
<1>3. x = z + r /\ r < y
  BY DEF Divides
<1>a. /\ v < 0 => v = -x
      /\ ~(v < 0) => v = x
      /\ w < 0 => w = -y
      /\ ~(w < 0) => w = y
  BY <1>1 DEF Abs
<1>b. Quotient(v, w) = IF (v < 0) = (w < 0) THEN x \div y ELSE -(x \div y)
  BY DEF Quotient, Abs
<1> HIDE DEF x, y
<1>4. q \in 0 .. Mod - 1 /\ r \in 0 .. Mod - 1 /\ z \in Nat
  <2>1. PICK k \in Nat : y = 1 + k
    <3>1. y - 1 \in Nat /\ y = 1 + (y - 1)
      BY <1>2
    <3> QED
      BY <3>1
  <2>2. z = q + q * k /\ q * k \in Nat
    BY <2>1
  <2> HIDE DEF z
  <2> QED
    BY <1>1, <1>2, <1>3, <2>2
<1>5. x \div y = q
  <2>1. x = y * q + r
    BY <1>2, <1>3
  <2> QED
    BY <1>2, <1>3, <2>1, DivisionUnique
<1>6. q % Mod = q /\ r % Mod = r
  BY <1>4, ModWord
<1>7. (-q) % Mod = TwosC(q) /\ (-r) % Mod = TwosC(r)
  <2>1. -q \in Int /\ -r \in Int /\ (-q) + Mod = Mod - q /\ (-r) + Mod = Mod - r
    BY <1>1
  <2>2. ((-q) + Mod) % Mod = (-q) % Mod /\ ((-r) + Mod) % Mod = (-r) % Mod
    BY <2>1, Shift
  <2> QED
    BY <2>1, <2>2 DEF TwosC
<1>8. Quotient(v, w) = IF (v < 0) = (w < 0) THEN q ELSE -q
  BY <1>5, <1>b
<1>9. v - Quotient(v, w) * w = IF v < 0 THEN -r ELSE r
  <2>1. (-q) * y = -z /\ q * (-y) = -z /\ (-q) * (-y) = z
    BY <1>2
  <2>2. Quotient(v, w) * w = IF v < 0 THEN -z ELSE z
    BY <1>8, <1>a, <2>1
  <2> HIDE DEF z
  <2> QED
    BY <1>2, <1>3, <1>4, <1>a, <2>2
<1> QED
  BY <1>6, <1>7, <1>8, <1>9

-----------------------------------------------------------------------------
(* The results that need no computation *)

\* The numbers that the operation is about.
ValueA == Value(req.a, req.op \in SignedA)
ValueB == Value(req.b, req.op \in SignedB)

\* The definition of the instruction set, on the values of the operands held.
LEMMA IsaCases ==
  ASSUME req.op \in Ops
  PROVE  LET isa == IsaResult(req.op, req.a, req.b)
         IN /\ req.op = "mul" => isa = (ValueA * ValueB) % Mod
            /\ req.op \in {"mulh", "mulhsu", "mulhu"} => isa = ((ValueA * ValueB) \div Mod) % Mod
            /\ req.op \in {"div", "divu"} =>
                   isa = IF ValueB = 0 THEN Ones ELSE Quotient(ValueA, ValueB) % Mod
            /\ req.op \in {"rem", "remu"} =>
                   isa = IF ValueB = 0 THEN req.a ELSE (ValueA - Quotient(ValueA, ValueB) * ValueB) % Mod
  BY DEF IsaResult, ValueA, ValueB, Value, Ops, Muls, Divs, Rems

\* What is known of both operands.
LEMMA Operands ==
  ASSUME req.a \in Word, req.b \in Word
  PROVE  /\ ValueA \in -Mod + 1 .. Mod - 1 /\ ValueB \in -Mod + 1 .. Mod - 1
         /\ req.a = ValueA % Mod /\ TwosC(req.a) = (-ValueA) % Mod
         /\ req.b = ValueB % Mod /\ TwosC(req.b) = (-ValueB) % Mod
         /\ StatusA = "zero" <=> ValueA = 0
         /\ StatusA = "one" <=> ValueA = 1
         /\ StatusA = "minus_one" <=> ValueA = -1
         /\ StatusB = "zero" <=> ValueB = 0
         /\ StatusB = "one" <=> ValueB = 1
         /\ StatusB = "minus_one" <=> ValueB = -1
         /\ StatusA \in {"zero", "one", "minus_one", "other"}
         /\ StatusB \in {"zero", "one", "minus_one", "other"}
<1>1. (req.op \in SignedA) \in BOOLEAN /\ (req.op \in SignedB) \in BOOLEAN
  OBVIOUS
<1>2. /\ StatusA \in {"zero", "one", "minus_one", "other"}
      /\ StatusB \in {"zero", "one", "minus_one", "other"}
  BY DEF StatusA, StatusB, Status
<1> QED
  BY <1>1, <1>2, Operand DEF ValueA, ValueB, StatusA, StatusB

\* The words 0, 1 and -1, as the values they stand for and when negated.
LEMMA SmallWords ==
  /\ 0 % Mod = 0 /\ 1 % Mod = 1 /\ (-1) % Mod = Ones /\ TwosC(0) = 0 /\ TwosC(1) = Ones
  /\ Ones # 0 /\ Ones # 1 /\ Ones \in Nat
<1>1. Mod \in Nat /\ Mod >= 16 /\ Ones = Mod - 1
  BY Widths, PowTypes
<1>2. 0 % Mod = 0 /\ 1 % Mod = 1 /\ (Mod - 1) % Mod = Mod - 1
  <2>1. 0 \in 0 .. Mod - 1 /\ 1 \in 0 .. Mod - 1 /\ Mod - 1 \in 0 .. Mod - 1
    BY <1>1
  <2> QED
    BY <2>1, ModWord
<1>3. (-1 + Mod) % Mod = (-1) % Mod /\ (0 + Mod) % Mod = 0 % Mod
  <2>1. -1 \in Int /\ 0 \in Int
    OBVIOUS
  <2> QED
    BY <2>1, Shift
<1>4. -1 + Mod = Mod - 1 /\ 0 + Mod = Mod - 0
  BY <1>1
<1> QED
  BY <1>1, <1>2, <1>3, <1>4 DEF TwosC

\* The high word of a product with 1 or -1 is its sign.
LEMMA HighOfSmall ==
  ASSUME NEW n \in -Mod + 1 .. Mod - 1
  PROVE  (n \div Mod) % Mod = IF n < 0 THEN Ones ELSE 0
<1>1. Mod \in Nat \ {0}
  BY PowTypes
<1>2. CASE n < 0
  <2> DEFINE r == n + Mod
             q == -1
  <2>1. n = Mod * q + r /\ r \in Nat /\ r < Mod /\ q \in Int /\ n \in Int
    BY <1>1, <1>2
  <2> HIDE DEF q, r
  <2>2. n \div Mod = q
    BY <1>1, <2>1, DivisionUnique
  <2> QED
    BY <1>2, <2>2, SmallWords DEF q
<1>3. CASE ~(n < 0)
  <2>1. n \in 0 .. Mod - 1
    BY <1>1, <1>3
  <2> QED
    BY <1>3, <2>1, ModWord, SmallWords
<1> QED
  BY <1>2, <1>3

\* The table of fast products is right but for the pairs of Misjudged.
LEMMA FastMulIsIsa ==
  ASSUME req.op \in Muls, req.a \in Word, req.b \in Word, IsFast
  PROVE  FastMul = IsaResult(req.op, req.a, req.b) <=> ~Misjudged(req.op, req.a, req.b)
<1> DEFINE v == ValueA
           w == ValueB
           isa == IsaResult(req.op, req.a, req.b)
           mis == Misjudged(req.op, req.a, req.b)
<1>1. /\ v \in -Mod + 1 .. Mod - 1 /\ w \in -Mod + 1 .. Mod - 1 /\ v \in Int /\ w \in Int
      /\ v \in {0, 1, -1} \/ w \in {0, 1, -1}
      /\ Mod \in Nat
  BY Operands, PowTypes DEF IsFast
<1>2. req.op \in {"mul", "mulh", "mulhsu", "mulhu"}
  BY DEF Muls
<1>3. mis <=> \/ req.op = "mulh" /\ v \in {1, -1} /\ w < -1
              \/ req.op = "mulh" /\ w \in {1, -1} /\ v < -1
              \/ req.op = "mulhsu" /\ w = 1 /\ v < -1
  <2>1. /\ StatusA = "one" <=> req.a = 1
        /\ StatusA = "minus_one" <=> req.a = Ones /\ req.op \in SignedA
        /\ StatusB = "one" <=> req.b = 1
        /\ StatusB = "minus_one" <=> req.b = Ones /\ req.op \in SignedB
    BY SmallWords DEF StatusA, StatusB, Status
  <2>2. /\ req.op \in {"mulh", "mulhsu"} => v = Signed(req.a) /\ req.op \in SignedA
        /\ req.op = "mulh" => w = Signed(req.b) /\ req.op \in SignedB
    BY DEF ValueA, ValueB, Value, SignedA, SignedB
  <2> HIDE DEF v, w
  <2>3. /\ req.a = 1 <=> v = 1
        /\ req.b = 1 <=> w = 1
        /\ req.op \in SignedA => (req.a = Ones <=> v = -1)
        /\ req.op \in SignedB => (req.b = Ones <=> w = -1)
    BY <2>1, Operands DEF v, w
  <2> QED
    BY <1>2, <2>2, <2>3 DEF Misjudged
<1>4. /\ req.op = "mul" => isa = (v * w) % Mod
      /\ req.op # "mul" => isa = ((v * w) \div Mod) % Mod
  BY <1>2, IsaCases DEF Ops
<1>5. CASE v = 0 \/ w = 0
  <2>1. FastMul = 0
    BY <1>5, Operands DEF FastMul
  <2>2. v * w = 0
    BY <1>1, <1>5
  <2>3. (v * w) % Mod = 0 /\ ((v * w) \div Mod) % Mod = 0
    <3>1. 0 \in -Mod + 1 .. Mod - 1
      BY <1>1, PowTypes
    <3>2. (0 \div Mod) % Mod = 0
      BY <3>1, HighOfSmall
    <3> QED
      BY <2>2, <3>2, SmallWords
  <2>4. ~mis
    <3> HIDE DEF v, w, mis
    <3> QED
      BY <1>3, <1>5
  <2> QED
    BY <1>4, <2>1, <2>3, <2>4
<1>6. CASE v # 0 /\ w # 0 /\ req.op = "mul"
  <2>1. FastMul = IF v \in {1, -1} THEN IF v = 1 THEN req.b ELSE TwosC(req.b)
                                   ELSE IF w = 1 THEN req.a ELSE TwosC(req.a)
    <3>1. FastMul = IF StatusA # "other" THEN Times(req.b, StatusA) ELSE Times(req.a, StatusB)
      BY <1>6, Operands DEF FastMul
    <3>2. StatusA # "other" <=> v \in {1, -1}
      BY <1>6, Operands
    <3> QED
      BY <3>1, <3>2, Operands DEF Times
  <2>2. /\ v = 1 => v * w = w
        /\ v = -1 => v * w = -w
        /\ w = 1 => v * w = v
        /\ w = -1 => v * w = -v
    <3> HIDE DEF v, w
    <3> QED
      BY <1>1
  <2>3. v \in {1, -1} \/ w \in {1, -1}
    BY <1>1, <1>6
  <2>4. FastMul = (v * w) % Mod
    BY <2>1, <2>2, <2>3, Operands
  <2> QED
    BY <1>3, <1>4, <1>6, <2>4
<1>7. CASE v # 0 /\ w # 0 /\ req.op # "mul"
  <2>1. FastMul = IF (v = -1) # (w = -1) THEN Ones ELSE 0
    BY <1>7, Operands DEF FastMul
  <2>2. v \in {1, -1} \/ w \in {1, -1}
    BY <1>1, <1>7
  <2>3. v * w \in -Mod + 1 .. Mod - 1 /\ (v * w < 0 <=> ~(v < 0 <=> w < 0))
    <3>1. /\ v = 1 => v * w = w
          /\ v = -1 => v * w = -w
          /\ w = 1 => v * w = v
          /\ w = -1 => v * w = -v
      <4> HIDE DEF v, w
      <4> QED
        BY <1>1
    <3> DEFINE vw == v * w
    <3> HIDE DEF v, w, vw
    <3>2. vw \in -Mod + 1 .. Mod - 1 /\ (vw < 0 <=> ~(v < 0 <=> w < 0))
      BY <1>1, <1>7, <2>2, <3>1 DEF vw
    <3> QED
      BY <3>2 DEF vw
  <2>4. isa = IF v * w < 0 THEN Ones ELSE 0
    BY <1>4, <1>7, <2>3, HighOfSmall
  <2>5. FastMul = isa <=> ((v = -1 <=> w = -1) <=> (v < 0 <=> w < 0))
    <3> HIDE DEF v, w, isa
    <3> QED
      BY <2>1, <2>3, <2>4, SmallWords
  <2>6. (req.op = "mulhsu" => w >= 0) /\ (req.op = "mulhu" => v >= 0 /\ w >= 0)
    BY PowTypes DEF ValueA, ValueB, Value, SignedA, SignedB, Word
  <2>7. ((v = -1 <=> w = -1) <=> (v < 0 <=> w < 0)) <=> ~mis
    <3> HIDE DEF v, w, mis
    <3>1. CASE v \in {1, -1}
      BY <1>1, <1>2, <1>3, <1>7, <2>6, <3>1
    <3>2. CASE w \in {1, -1}
      BY <1>1, <1>2, <1>3, <1>7, <2>6, <3>2
    <3> QED
      BY <2>2, <3>1, <3>2
  <2> QED
    BY <2>5, <2>7
<1> QED
  BY <1>5, <1>6, <1>7

\* The table of fast quotients and remainders is right but for the quotient 0 / 0.
LEMMA FastDivIsIsa ==
  ASSUME req.op \in Divs, req.a \in Word, req.b \in Word, IsFast
  PROVE  FastDiv = IsaResult(req.op, req.a, req.b) <=> ~Misjudged(req.op, req.a, req.b)
<1> DEFINE v == ValueA
           w == ValueB
           isa == IsaResult(req.op, req.a, req.b)
           mis == Misjudged(req.op, req.a, req.b)
<1>1. /\ v \in -Mod + 1 .. Mod - 1 /\ w \in -Mod + 1 .. Mod - 1 /\ v \in Int /\ w \in Int
      /\ v \in {0, 1, -1} \/ w \in {0, 1, -1}
      /\ Mod \in Nat
  BY Operands, PowTypes DEF IsFast
<1>2. req.op \in {"div", "divu", "rem", "remu"} /\ (req.op \in Rems <=> req.op \in {"rem", "remu"})
  BY DEF Divs, Rems
<1>3. mis <=> req.op \notin Rems /\ v = 0 /\ w = 0
  <2>1. (req.a = 0 <=> v = 0) /\ (req.b = 0 <=> w = 0)
    <3>1. StatusA = "zero" <=> req.a = 0
      BY SmallWords DEF StatusA, Status
    <3>2. StatusB = "zero" <=> req.b = 0
      BY SmallWords DEF StatusB, Status
    <3> QED
      BY <3>1, <3>2, Operands
  <2> HIDE DEF v, w
  <2> QED
    BY <1>2, <2>1 DEF Misjudged
<1>4. /\ req.op \notin Rems => isa = IF w = 0 THEN Ones ELSE Quotient(v, w) % Mod
      /\ req.op \in Rems => isa = IF w = 0 THEN req.a ELSE (v - Quotient(v, w) * w) % Mod
  BY <1>2, IsaCases DEF Ops
<1>5. CASE w = 0
  <2>1. /\ v = 0 => FastDiv = 0
        /\ v # 0 => FastDiv = IF req.op \in Rems THEN req.a ELSE Ones
    BY <1>5, Operands DEF FastDiv
  <2>2. v = 0 => req.a = 0
    BY Operands, SmallWords
  <2> QED
    BY <1>3, <1>4, <1>5, <2>1, <2>2, SmallWords
<1>6. CASE w = 1 \/ w = -1
  <2>1. Quotient(v, w) = IF w = 1 THEN v ELSE -v
    <3>1. \A n \in Nat : n \div 1 = n
      OBVIOUS
    <3> HIDE DEF v, w
    <3>2. CASE v < 0
      <4>1. -v \in Nat /\ (-v) \div 1 = -v /\ -(-v) = v
        BY <1>1, <3>1, <3>2
      <4> QED
        BY <1>1, <1>6, <3>2, <4>1 DEF Quotient
    <3>3. CASE ~(v < 0)
      <4>1. v \in Nat /\ v \div 1 = v
        BY <1>1, <3>1, <3>3
      <4> QED
        BY <1>1, <1>6, <3>3, <4>1 DEF Quotient
    <3> QED
      BY <3>2, <3>3
  <2>2. Quotient(v, w) % Mod = IF w = 1 THEN req.a ELSE TwosC(req.a)
    BY <1>6, <2>1, Operands
  <2>3. (v - Quotient(v, w) * w) % Mod = 0
    <3>1. v - Quotient(v, w) * w = 0
      <4> HIDE DEF v, w
      <4>1. v * 1 = v /\ (-v) * (-1) = v /\ v - v = 0
        BY <1>1
      <4> QED
        BY <1>6, <2>1, <4>1
    <3> QED
      BY <3>1, SmallWords
  <2>4. /\ v = 0 => FastDiv = 0
        /\ v # 0 /\ req.op \in Rems => FastDiv = 0
        /\ v # 0 /\ req.op \notin Rems => FastDiv = IF w = 1 THEN req.a ELSE TwosC(req.a)
    BY <1>6, Operands DEF FastDiv
  <2>5. v = 0 => req.a = 0 /\ TwosC(req.a) = 0
    BY Operands, SmallWords
  <2> QED
    BY <1>3, <1>4, <1>6, <2>2, <2>3, <2>4, <2>5
<1>7. CASE w \notin {0, 1, -1}
  <2>1. v \in {0, 1, -1} /\ w # 0 /\ Abs(w) \in Nat /\ Abs(w) > 1
    BY <1>1, <1>7 DEF Abs
  <2> DEFINE r == IF v = 0 THEN 0 ELSE 1
  <2>2. Divides(Abs(v), Abs(w), 0, r) /\ r \in Nat
    <3>1. Abs(v) = r
      BY <2>1 DEF Abs
    <3> QED
      BY <2>1, <3>1 DEF Divides
  <2>3. /\ Quotient(v, w) % Mod = IF (v < 0) # (w < 0) THEN TwosC(0) ELSE 0
        /\ (v - Quotient(v, w) * w) % Mod = IF v < 0 THEN TwosC(r) ELSE r
    <3> HIDE DEF v, w, r
    <3> QED
      BY <1>1, <2>1, <2>2, SignedDivision
  <2>4. req.a = IF v = 0 THEN 0 ELSE IF v = 1 THEN 1 ELSE Ones
    BY <2>1, Operands, SmallWords
  <2>5. (v - Quotient(v, w) * w) % Mod = req.a
    <3> HIDE DEF v, w
    <3>1. v < 0 <=> v = -1
      BY <2>1
    <3> QED
      BY <2>1, <2>3, <2>4, <3>1, SmallWords
  <2>6. Quotient(v, w) % Mod = 0
    BY <2>3, SmallWords
  <2>7. /\ v = 0 => FastDiv = 0
        /\ v # 0 => FastDiv = IF req.op \in Rems THEN req.a ELSE 0
    BY <1>7, Operands DEF FastDiv
  <2> QED
    BY <1>3, <1>4, <1>7, <2>4, <2>5, <2>6, <2>7
<1> QED
  BY <1>1, <1>5, <1>6, <1>7

-----------------------------------------------------------------------------
(* The results that are computed *)

\* A pair of operands that Misjudged names is in the table.
LEMMA SlowIsJudged ==
  ASSUME req.op \in Ops, ~IsFast
  PROVE  ~Misjudged(req.op, req.a, req.b)
<1>1. /\ req.a # 0 /\ req.a # 1 /\ (req.op \in SignedA => req.a # Ones)
      /\ req.b # 0 /\ req.b # 1 /\ (req.op \in SignedB => req.b # Ones)
  BY DEF IsFast, StatusA, StatusB, Status
<1> QED
  BY <1>1 DEF Misjudged, SignedA, SignedB

\* What is computed with is the absolute values of operands other than 0, 1 and -1.
LEMMA SlowOperands ==
  ASSUME req.op \in Ops, req.a \in Word, req.b \in Word, ~IsFast
  PROVE  /\ ValueA # 0 /\ ValueB # 0
         /\ Prepare(req.a, req.op \in SignedA) = Abs(ValueA)
         /\ Prepare(req.b, req.op \in SignedB) = Abs(ValueB)
         /\ req.op \in SignedA => (ValueA < 0 <=> Neg(req.a))
         /\ req.op \in SignedB => (ValueB < 0 <=> Neg(req.b))
         /\ req.op \notin SignedA => ~(ValueA < 0)
         /\ req.op \notin SignedB => ~(ValueB < 0)
<1>1. (req.op \in SignedA) \in BOOLEAN /\ (req.op \in SignedB) \in BOOLEAN
  OBVIOUS
<1>2. ValueA # 0 /\ ValueB # 0
  BY Operands DEF IsFast
<1>3. /\ req.op \notin SignedA => ~(ValueA < 0)
      /\ req.op \notin SignedB => ~(ValueB < 0)
  BY PowTypes DEF ValueA, ValueB, Value, Word
<1> QED
  BY <1>1, <1>2, <1>3, Operand DEF ValueA, ValueB

\* What MULout makes of the product is what the instruction set says.
LEMMA MulOutIsIsa ==
  ASSUME req.op \in Muls, req.a \in Word, req.b \in Word, ~IsFast,
         reg_muldiv.hi * Mod + reg_muldiv.lo
           = Prepare(req.a, req.op \in SignedA) * Prepare(req.b, req.op \in SignedB)
  PROVE  MulOut = IsaResult(req.op, req.a, req.b)
<1> DEFINE v == ValueA
           w == ValueB
           p == reg_muldiv.hi * Mod + reg_muldiv.lo
           ps == IF (v < 0) # (w < 0) THEN (Mod * Mod - p) % (Mod * Mod) ELSE p
<1>1. req.op \in {"mul", "mulh", "mulhsu", "mulhu"} /\ req.op \in Ops
  BY DEF Muls, Ops
<1>2. v \in -Mod + 1 .. Mod - 1 /\ w \in -Mod + 1 .. Mod - 1 /\ v # 0 /\ w # 0 /\ p = Abs(v) * Abs(w)
  BY <1>1, Operands, SlowOperands
<1>3. MulOut = IF req.op = "mul" THEN ps % Mod ELSE ps \div Mod
  <2>1. /\ req.op \in {"mul", "mulh"} => (v < 0 <=> Neg(req.a)) /\ (w < 0 <=> Neg(req.b))
        /\ req.op = "mulhsu" => (v < 0 <=> Neg(req.a)) /\ ~(w < 0)
        /\ req.op = "mulhu" => ~(v < 0) /\ ~(w < 0)
    BY <1>1, SlowOperands DEF SignedA, SignedB
  <2>2. Neg(req.a) \in BOOLEAN /\ Neg(req.b) \in BOOLEAN /\ (v < 0) \in BOOLEAN /\ (w < 0) \in BOOLEAN
    BY DEF Neg
  <2> DEFINE n == (Mod * Mod - p) % (Mod * Mod)
             qs == CASE req.op \in {"mul", "mulh"} -> IF Neg(req.a) # Neg(req.b) THEN n ELSE p
                     [] req.op = "mulhsu"          -> IF Neg(req.a) THEN n ELSE p
                     [] OTHER                      -> p
  <2>3. MulOut = IF req.op = "mul" THEN qs % Mod ELSE qs \div Mod
    BY DEF MulOut
  <2>4. qs = ps
    <3> HIDE DEF v, w, p, n
    <3>1. CASE req.op \in {"mul", "mulh"}
      BY <2>1, <2>2, <3>1 DEF n
    <3>2. CASE req.op = "mulhsu"
      BY <2>1, <2>2, <3>2 DEF n
    <3>3. CASE req.op = "mulhu"
      BY <2>1, <2>2, <3>3 DEF n
    <3> QED
      BY <1>1, <3>1, <3>2, <3>3
  <2> QED
    BY <2>3, <2>4
<1> HIDE DEF p, v, w
<1>4. ps % Mod = (v * w) % Mod /\ ps \div Mod = ((v * w) \div Mod) % Mod
  BY <1>2, SignedProduct
<1> QED
  BY <1>1, <1>3, <1>4, IsaCases DEF v, w

\* What DIVout makes of the quotient and the remainder is what the instruction set says.
LEMMA DivOutIsIsa ==
  ASSUME req.op \in Divs, req.a \in Word, req.b \in Word, ~IsFast,
         reg_muldiv.hi \in Nat, reg_muldiv.lo \in Nat,
         Divides(Prepare(req.a, req.op \in SignedA), Prepare(req.b, req.op \in SignedB),
                 reg_muldiv.hi, reg_muldiv.lo)
  PROVE  DivOut = IsaResult(req.op, req.a, req.b)
<1> DEFINE v == ValueA
           w == ValueB
           q == reg_muldiv.hi
           r == reg_muldiv.lo
<1>1. req.op \in {"div", "divu", "rem", "remu"} /\ req.op \in Ops
  BY DEF Divs, Ops
<1>2. /\ v \in -Mod + 1 .. Mod - 1 /\ w \in -Mod + 1 .. Mod - 1 /\ w # 0
      /\ Divides(Abs(v), Abs(w), q, r)
  BY <1>1, Operands, SlowOperands
<1>3. /\ Quotient(v, w) % Mod = IF (v < 0) # (w < 0) THEN TwosC(q) ELSE q
      /\ (v - Quotient(v, w) * w) % Mod = IF v < 0 THEN TwosC(r) ELSE r
  <2> HIDE DEF v, w
  <2> QED
    BY <1>2, SignedDivision
<1>4. /\ req.op \in {"div", "rem"} => (v < 0 <=> Neg(req.a)) /\ (w < 0 <=> Neg(req.b))
      /\ req.op \in {"divu", "remu"} => ~(v < 0) /\ ~(w < 0)
  BY <1>1, SlowOperands DEF SignedA, SignedB
<1>5. Neg(req.a) \in BOOLEAN /\ Neg(req.b) \in BOOLEAN /\ (v < 0) \in BOOLEAN /\ (w < 0) \in BOOLEAN
  BY DEF Neg
<1>6. /\ req.op = "div"  => DivOut = IF Neg(req.a) # Neg(req.b) THEN TwosC(q) ELSE q
      /\ req.op = "divu" => DivOut = q
      /\ req.op = "rem"  => DivOut = IF Neg(req.a) THEN TwosC(r) ELSE r
      /\ req.op = "remu" => DivOut = r
  BY DEF DivOut
<1>7. /\ req.op \in {"div", "divu"} => IsaResult(req.op, req.a, req.b) = Quotient(v, w) % Mod
      /\ req.op \in {"rem", "remu"} => IsaResult(req.op, req.a, req.b) = (v - Quotient(v, w) * w) % Mod
  BY <1>1, <1>2, IsaCases
<1> HIDE DEF v, w, q, r
<1>8. CASE req.op = "div"
  BY <1>3, <1>4, <1>5, <1>6, <1>7, <1>8
<1>9. CASE req.op = "divu"
  BY <1>3, <1>4, <1>6, <1>7, <1>9
<1>10. CASE req.op = "rem"
  BY <1>3, <1>4, <1>5, <1>6, <1>7, <1>10
<1>11. CASE req.op = "remu"
  BY <1>3, <1>4, <1>6, <1>7, <1>11
<1> QED
  BY <1>1, <1>8, <1>9, <1>10, <1>11

-----------------------------------------------------------------------------
(* The control *)

\* While the unit works, the core holds the request, and the operands are prepared from it.
Working == {"DIV", "DIV_out", "MUL1", "MUL2", "MUL_out"}
Holding == state \in Working =>
              /\ req.start /\ ~IsFast
              /\ reg_AB.a = Prepare(req.a, req.op \in SignedA)
              /\ reg_AB.b = Prepare(req.b, req.op \in SignedB)
Kind == /\ state \in {"DIV", "DIV_out"} => req.op \in Divs
        /\ state \in {"MUL1", "MUL2", "MUL_out"} => req.op \in Muls

\* The multiplier's two stages, and the divider's output.
Staged == /\ state = "MUL2" => pp = Partial
          /\ state = "MUL_out" => reg_muldiv.hi * Mod + reg_muldiv.lo = reg_AB.a * reg_AB.b
          /\ state = "DIV_out" => reg_muldiv.hi \in Nat /\ reg_muldiv.lo \in Nat
UnitInv == DivInv /\ Holding /\ Kind /\ Staged

\* The unit is idle at reset.
LEMMA UnitInit == Init => UnitInv
  BY DivInit DEF Init, UnitInv, Holding, Kind, Staged, Working

\* No clock takes the operands, or the stages, apart.
LEMMA UnitNext == UnitInv /\ [Clock]_vars => UnitInv'
<1>1. ASSUME UnitInv, Clock PROVE UnitInv'
  <2>1. DivInv' /\ DivInv
    BY <1>1, DivNextInv DEF UnitInv
  <2>2. req.a \in Word /\ req.b \in Word /\ req.op \in Ops /\ reg_AB.a \in Word /\ reg_AB.b \in Word
        /\ req.start \in BOOLEAN /\ div.Q \in Nat /\ div.R \in Nat
    BY <2>1 DEF DivInv, DivTypes
  <2>3. CASE state = "IDLE" /\ state' \in Working
    <3>1. req.start /\ ~IsFast /\ state' = IF req.op \in Divs THEN "DIV" ELSE "MUL1"
      BY <1>1, <2>3 DEF Clock, StateNext, Working
    <3>2. req' = req
      BY <1>1, <2>3, <3>1 DEF Clock, muldiv_done
    <3>3. /\ reg_AB'.a = Prepare(req.a, req.op \in SignedA)
          /\ reg_AB'.b = Prepare(req.b, req.op \in SignedB)
      BY <1>1, <2>3, <3>1 DEF Clock
    <3>4. IsFast' = IsFast
      BY <3>2 DEF IsFast, StatusA, StatusB
    <3>5. Holding'
      BY <3>1, <3>2, <3>3, <3>4 DEF Holding
    <3>6. Kind' /\ Staged'
      BY <2>2, <3>1, <3>2 DEF Kind, Staged, Ops
    <3> QED
      BY <2>1, <3>5, <3>6 DEF UnitInv
  <2>4. CASE state \in {"DIV", "MUL1", "MUL2"}
    <3>1. /\ req.start /\ ~IsFast
          /\ reg_AB.a = Prepare(req.a, req.op \in SignedA)
          /\ reg_AB.b = Prepare(req.b, req.op \in SignedB)
      BY <1>1, <2>4 DEF UnitInv, Holding, Working
    <3>2. req' = req /\ reg_AB' = reg_AB
      BY <1>1, <2>4, <3>1 DEF Clock, muldiv_done
    <3>3. IsFast' = IsFast
      BY <3>2 DEF IsFast, StatusA, StatusB
    <3>4. Holding'
      BY <3>1, <3>2, <3>3 DEF Holding
    <3>5. CASE state = "DIV"
      <4>1. state' = IF div.rdy THEN "DIV_out" ELSE "DIV"
        BY <1>1, <3>5 DEF Clock, StateNext
      <4>2. state' = "DIV_out" => reg_muldiv' = [hi |-> div.Q, lo |-> div.R]
        BY <1>1, <3>5, <4>1 DEF Clock
      <4>3. Kind'
        BY <1>1, <3>2, <3>5, <4>1 DEF UnitInv, Kind
      <4>4. Staged'
        BY <2>2, <4>1, <4>2 DEF Staged
      <4> QED
        BY <2>1, <3>4, <4>3, <4>4 DEF UnitInv
    <3>6. CASE state = "MUL1"
      <4>1. state' = "MUL2" /\ pp' = Partial
        BY <1>1, <3>6 DEF Clock, StateNext
      <4>2. Partial' = Partial
        BY <3>2 DEF Partial
      <4>3. Kind' /\ Staged'
        BY <1>1, <3>2, <3>6, <4>1, <4>2 DEF UnitInv, Kind, Staged
      <4> QED
        BY <2>1, <3>4, <4>3 DEF UnitInv
    <3>7. CASE state = "MUL2"
      <4>1. state' = "MUL_out" /\ reg_muldiv' = [hi |-> P \div Mod, lo |-> P % Mod]
        BY <1>1, <3>7 DEF Clock, StateNext
      <4>2. P = reg_AB.a * reg_AB.b /\ P \in Nat
        BY <1>1, <2>2, <3>7, Product DEF UnitInv, Staged
      <4>3. reg_muldiv'.hi * Mod + reg_muldiv'.lo = P
        <5>1. (P \div Mod) * Mod + (P % Mod) = P
          BY <4>2, HighAndLow
        <5> QED
          BY <4>1, <5>1
      <4>4. Kind' /\ Staged'
        BY <1>1, <3>2, <3>7, <4>1, <4>2, <4>3 DEF UnitInv, Kind, Staged
      <4> QED
        BY <2>1, <3>4, <4>4 DEF UnitInv
    <3> QED
      BY <2>4, <3>5, <3>6, <3>7
  <2>5. CASE state' \notin Working
    BY <2>1, <2>5 DEF UnitInv, Holding, Kind, Staged, Working
  <2>6. state \notin {"IDLE", "DIV", "MUL1", "MUL2"} => state' \notin Working
    BY <1>1 DEF Clock, StateNext, Working
  <2> QED
    BY <2>3, <2>4, <2>5, <2>6
<1>2. ASSUME UnitInv, UNCHANGED vars PROVE UnitInv'
  <2>1. DivInv'
    BY <1>2, DivNextInv DEF UnitInv
  <2>2. Holding' /\ Kind' /\ Staged'
    BY <1>2 DEF vars, UnitInv, Holding, Kind, Staged, Partial, IsFast, StatusA, StatusB
  <2> QED
    BY <2>1, <2>2 DEF UnitInv
<1> QED
  BY <1>1, <1>2

\* For every width of a word, and whatever was asked before: what the unit gives when it is done
\* is what the instruction set says, but for the pairs of the fast table that Misjudged names,
\* and for those it is not (core/muldiv).
THEOREM ResultIsIsaHolds == Spec => []ResultIsIsa
<1>1. UnitInv => ResultIsIsa
  <2>1. SUFFICES ASSUME UnitInv, req.start, muldiv_done
                 PROVE  R = IsaResult(req.op, req.a, req.b) <=> ~Misjudged(req.op, req.a, req.b)
    BY DEF ResultIsIsa
  <2>2. req.a \in Word /\ req.b \in Word /\ req.op \in Ops
    BY <2>1 DEF UnitInv, DivInv, DivTypes
  <2>3. CASE IsFast
    <3>1. CASE req.op \in Muls
      BY <2>2, <2>3, <3>1, FastMulIsIsa DEF R, fastres
    <3>2. CASE req.op \in Divs
      <4>1. req.op \notin Muls
        BY <3>2 DEF Muls, Divs
      <4> QED
        BY <2>2, <2>3, <3>2, <4>1, FastDivIsIsa DEF R, fastres
    <3> QED
      BY <2>2, <3>1, <3>2 DEF Ops
  <2>4. CASE ~IsFast
    <3>1. state \in {"DIV_out", "MUL_out"}
      BY <2>1, <2>4 DEF muldiv_done
    <3>2. ~Misjudged(req.op, req.a, req.b)
      BY <2>2, <2>4, SlowIsJudged
    <3>3. /\ reg_AB.a = Prepare(req.a, req.op \in SignedA)
          /\ reg_AB.b = Prepare(req.b, req.op \in SignedB)
      BY <2>1, <3>1 DEF UnitInv, Holding, Working
    <3>4. CASE state = "DIV_out"
      <4>1. R = DivOut
        BY <2>4, <3>4 DEF R
      <4>2. /\ req.op \in Divs /\ reg_muldiv.hi \in Nat /\ reg_muldiv.lo \in Nat
            /\ Divides(reg_AB.a, reg_AB.b, reg_muldiv.hi, reg_muldiv.lo)
        BY <2>1, <3>4 DEF UnitInv, Kind, Staged, DivInv, Given
      <4> QED
        BY <2>2, <2>4, <3>2, <3>3, <4>1, <4>2, DivOutIsIsa
    <3>5. CASE state = "MUL_out"
      <4>1. R = MulOut
        BY <2>4, <3>5 DEF R
      <4>2. req.op \in Muls /\ reg_muldiv.hi * Mod + reg_muldiv.lo = reg_AB.a * reg_AB.b
        BY <2>1, <3>5 DEF UnitInv, Kind, Staged
      <4> QED
        BY <2>2, <2>4, <3>2, <3>3, <4>1, <4>2, MulOutIsIsa
    <3> QED
      BY <3>1, <3>4, <3>5
  <2> QED
    BY <2>3, <2>4
<1> QED
  BY <1>1, UnitInit, UnitNext, PTL DEF Spec
=============================================================================
