--------------------------- MODULE LoadStoreUnit ---------------------------
(***************************************************************************)
(* The byte lanes of the core's loads and stores (core/load_store_unit.v). *)
(* The memory is read and written in words, with a mask of lanes; an       *)
(* access that does not fit in a word is split into two, and the halves of *)
(* a load are joined when the second arrives.  Pipeline says when the two  *)
(* are made, and MemBus what becomes of one; here is what they move.       *)
(*                                                                         *)
(* A word is a function from lanes to bytes.  A length is 0, 1 or 2: one,  *)
(* two or four bytes.  One step is one instruction.                        *)
(***************************************************************************)
EXTENDS Integers

CONSTANTS Top,        \* the largest byte
          NumWords    \* words of the address space

ASSUME TopAssumption   == Top \in Nat
ASSUME WordsAssumption == NumWords \in Nat /\ NumWords > 1

Byte     == 0 .. Top
Lane     == 0 .. 3
Contents == [0 .. NumWords - 1 -> [Lane -> Byte]]
Length   == 0 .. 2
Size(len) == IF len = 0 THEN 1 ELSE IF len = 1 THEN 2 ELSE 4

VARIABLES mem,      \* the words in memory
          access    \* the last access: what was asked, what it found and what it returned

lsuVars == <<mem, access>>
NoAccess == [kind |-> "none"]

\* The word behind word w, around the end of the address space.
NextWord(w) == IF w = NumWords - 1 THEN 0 ELSE w + 1

Shl(d, n) == [i \in Lane |-> IF i >= n THEN d[i - n] ELSE 0]
Shr(d, n) == [i \in Lane |-> IF i + n \in Lane THEN d[i + n] ELSE 0]

-----------------------------------------------------------------------------
(* EX stage *)

\* Wrong variant: half words are split as words are.
Misaligned_HalfAsWord(len, off) == len # 0 /\ off # 0

Misaligned(len, off) == \/ len = 2 /\ off # 0
                        \/ len = 1 /\ off = 3

\* Lanes and data of the access at the address, and of the second one, in the next word.
FirstLanes(len, off)  == {i \in Lane : off <= i /\ i < off + Size(len)}
FirstData(d, off)     == Shl(d, off)
SecondLanes(len, off) == IF len = 1 THEN {0} ELSE {i \in Lane : i < off}
SecondData(d, len, off) == Shr(d, IF len = 1 THEN 1 ELSE 4 - off)

WriteLanes(m, w, lanes, data) ==
    [m EXCEPT ![w] = [i \in Lane |-> IF i \in lanes THEN data[i] ELSE @[i]]]

Stored(m, w, off, len, d) ==
    LET first == WriteLanes(m, w, FirstLanes(len, off), FirstData(d, off))
    IN  IF Misaligned(len, off)
        THEN WriteLanes(first, NextWord(w), SecondLanes(len, off), SecondData(d, len, off))
        ELSE first

-----------------------------------------------------------------------------
(* MEM and WB stage *)

\* memout of the first access, and of the second, joined to what the first left in MEMWB.
FirstOut(word, len, off) ==
    LET s == Shr(word, off) IN [i \in Lane |-> IF i < Size(len) THEN s[i] ELSE 0]
SecondOut(word, kept, len, off) ==
    IF len = 2 THEN [i \in Lane |-> IF i < 4 - off THEN kept[i] ELSE word[i - (4 - off)]]
    ELSE [i \in Lane |-> IF i = 0 THEN kept[0] ELSE IF i = 1 THEN word[0] ELSE 0]

Extended(v, len, signed) ==
    LET fill == IF signed /\ v[Size(len) - 1] > Top \div 2 THEN Top ELSE 0
    IN  [i \in Lane |-> IF i < Size(len) THEN v[i] ELSE fill]

Loaded(m, w, off, len, signed) ==
    LET first == FirstOut(m[w], len, off)
    IN  Extended(IF Misaligned(len, off) THEN SecondOut(m[NextWord(w)], first, len, off) ELSE first,
                 len, signed)

-----------------------------------------------------------------------------
(* One instruction *)

LsuInit == mem \in Contents /\ access = NoAccess

Store(w, off, len, d) ==
    /\ mem' = Stored(mem, w, off, len, d)
    /\ access' = [kind |-> "store", found |-> mem, w |-> w, off |-> off, len |-> len, d |-> d]
Load(w, off, len, signed) ==
    /\ access' = [kind |-> "load", found |-> mem, w |-> w, off |-> off, len |-> len, signed |-> signed,
                  out |-> Loaded(mem, w, off, len, signed)]
    /\ UNCHANGED mem
NoLoadOrStore == access' = NoAccess /\ UNCHANGED mem

LsuNext ==
    \/ \E w \in 0 .. NumWords - 1, off \in Lane, len \in Length :
        \/ \E d \in [Lane -> Byte] : Store(w, off, len, d)
        \/ \E signed \in BOOLEAN : Load(w, off, len, signed)
    \/ NoLoadOrStore

LsuSpec == LsuInit /\ [][LsuNext]_lsuVars

-----------------------------------------------------------------------------
(* Properties *)

\* Byte k of the memory, counted from the beginning of word w.
ByteAt(m, w, k) == IF k \in Lane THEN m[w][k] ELSE m[NextWord(w)][k - 4]

\* A store writes its bytes, from its address on, and no other.
StoreIsBytewise(found, after, w, off, len, d) ==
    /\ \A k \in 0 .. 7 : ByteAt(after, w, k) =
            IF off <= k /\ k < off + Size(len) THEN d[k - off] ELSE ByteAt(found, w, k)
    /\ \A u \in 0 .. NumWords - 1 : u \notin {w, NextWord(w)} => after[u] = found[u]

\* A load returns the bytes from its address on, and above them the last one's sign or zeros.
LoadIsBytewise(found, out, w, off, len, signed) ==
    LET last == ByteAt(found, w, off + Size(len) - 1)
    IN  \A i \in Lane : out[i] =
            IF i < Size(len) THEN ByteAt(found, w, off + i)
            ELSE IF signed /\ last > Top \div 2 THEN Top ELSE 0

\* For every length and offset, aligned or split into two, at the end of the address space too,
\* loads and stores are those of a memory of bytes.
AccessIsBytewise ==
    LET a == access IN
    /\ a.kind = "store" => StoreIsBytewise(a.found, mem, a.w, a.off, a.len, a.d)
    /\ a.kind = "load"  => LoadIsBytewise(a.found, a.out, a.w, a.off, a.len, a.signed) /\ mem = a.found
=============================================================================
